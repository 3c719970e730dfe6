----------------------------- MODULE LocalWork ------------------------------
(***************************************************************************)
(* The cli attempts of a worker process on its machine: their directories   *)
(* and processes, the disk they share, and the three things that serialize *)
(* them: the disk budget, the storage client and the executor.             *)
(*                                                                         *)
(* The limits are sampled: FFmpeg writes on between two looks at its        *)
(* directory.  Dropping an attempt kills FFmpeg without waiting for its end *)
(* (kill_on_drop), so that it may still be there when its directory goes;   *)
(* a directory that is written to meanwhile cannot be removed.  Nobody ever *)
(* looks for directories that were left behind.                            *)
(***************************************************************************)
EXTENDS Integers, FiniteSets

CONSTANTS
  Task,            \* attempts, in their order of arrival
  Nobody,          \* a mutex that is free
  MaxConcurrency,  \* attempts at a time
  Disk,            \* space for temporary files, in units
  Temporary,       \* temporary_bytes
  SourceSize,      \* the size of a source, within source_bytes
  Reserve,         \* disk_reserve_bytes
  Rate             \* what FFmpeg writes between two looks, and after its kill

ASSUME WorkAssumption ==
  /\ Nobody \notin Task
  /\ MaxConcurrency \in Nat \ {0}
  /\ Temporary \in Nat /\ SourceSize \in Nat \ {0}
  /\ Temporary > SourceSize           \* Limits::from_lookup
  /\ Reserve \in Nat \ {0} /\ Rate \in Nat \ {0}
  /\ Disk \in Nat

VARIABLES
  pc,        \* pc[t]: where attempt t is
  seen,      \* seen[t]: the available space t has measured, until it has reserved
  reserved,  \* the sum in the budget
  holds,     \* attempts with a Reservation
  dir,       \* dir[t]: its work directory
  bytes,     \* bytes[t]: what its directory holds
  process,   \* process[t]: its FFmpeg
  unseen,    \* unseen[t]: written since the last look
  storage,   \* who holds the storage client
  executor   \* who holds the executor

workVars == <<pc, seen, reserved, holds, dir, bytes, process, unseen, storage, executor>>

Pipeline == {"storage", "download", "executor", "encode", "publish", "upload"}

WorkTypeOK ==
  /\ pc \in [Task -> {"idle", "measure", "reserve", "settle", "over"} \cup Pipeline]
  /\ seen \in [Task -> 0..Disk]
  /\ reserved \in Nat
  /\ holds \subseteq Task
  /\ dir \in [Task -> {"none", "present", "doomed", "left"}]
  /\ bytes \in [Task -> 0..Disk]
  /\ process \in [Task -> {"none", "running", "exited", "dying"}]
  /\ unseen \in [Task -> 0..Rate]
  /\ storage \in Task \cup {Nobody} /\ executor \in Task \cup {Nobody}

WorkInit ==
  /\ pc = [t \in Task |-> "idle"] /\ seen = [t \in Task |-> 0]
  /\ reserved = 0 /\ holds = {}
  /\ dir = [t \in Task |-> "none"] /\ bytes = [t \in Task |-> 0]
  /\ process = [t \in Task |-> "none"] /\ unseen = [t \in Task |-> 0]
  /\ storage = Nobody /\ executor = Nobody

\* The units of the disk that are taken, each with the attempt that wrote it.
Used == {u \in Task \X (1..Disk) : u[2] <= bytes[u[1]]}

Available == Disk - Cardinality(Used)

Active == {t \in Task : pc[t] \notin {"idle", "over"}}

Goto(t, where) == pc' = [pc EXCEPT ![t] = where]

Released(mutex, t) == IF mutex = t THEN Nobody ELSE mutex

-----------------------------------------------------------------------------
(* Admission.                                                              *)

CreateDirectory(t) ==
  /\ pc[t] = "idle" /\ Cardinality(Active) < MaxConcurrency
  /\ Goto(t, "measure")
  /\ dir' = [dir EXCEPT ![t] = "present"]
  /\ UNCHANGED <<seen, reserved, holds, bytes, process, unseen, storage, executor>>

\* The space is measured before the budget is locked.
Measure(t) ==
  /\ pc[t] = "measure"
  /\ Goto(t, "reserve")
  /\ seen' = [seen EXCEPT ![t] = Available]
  /\ UNCHANGED <<reserved, holds, dir, bytes, process, unseen, storage, executor>>

\* Faulty variant: what others have reserved does not count.
AdmittedAlone(t) == seen[t] >= Temporary + Reserve

Admitted(t) == seen[t] >= reserved + Temporary + Reserve

\* A refused attempt fails like any other, with an empty directory.
ReserveSpace(t) ==
  /\ pc[t] = "reserve"
  /\ \/ /\ Admitted(t)
        /\ Goto(t, "storage")
        /\ reserved' = reserved + Temporary /\ holds' = holds \cup {t}
        /\ UNCHANGED dir
     \/ /\ ~Admitted(t)
        /\ Goto(t, "settle")
        /\ dir' = [dir EXCEPT ![t] = "none"]
        /\ UNCHANGED <<reserved, holds>>
  /\ seen' = [seen EXCEPT ![t] = 0]
  /\ UNCHANGED <<bytes, process, unseen, storage, executor>>

-----------------------------------------------------------------------------
(* run_pipeline                                                            *)

LockStorage(t) ==
  /\ pc[t] \in {"storage", "publish"} /\ storage = Nobody
  /\ storage' = t
  /\ Goto(t, IF pc[t] = "storage" THEN "download" ELSE "upload")
  /\ UNCHANGED <<seen, reserved, holds, dir, bytes, process, unseen, executor>>

\* The bounded download, kept in memory, and its file.
WriteSource(t) ==
  /\ pc[t] = "download" /\ Available >= SourceSize
  /\ bytes' = [bytes EXCEPT ![t] = SourceSize]
  /\ storage' = Released(storage, t)
  /\ Goto(t, "executor")
  /\ UNCHANGED <<seen, reserved, holds, dir, process, unseen, executor>>

\* The executor has probed the duration, and FFmpeg runs.
StartEncode(t) ==
  /\ pc[t] = "executor" /\ executor = Nobody
  /\ executor' = t
  /\ process' = [process EXCEPT ![t] = "running"]
  /\ Goto(t, "encode")
  /\ UNCHANGED <<seen, reserved, holds, dir, bytes, unseen, storage>>

ProcessWrites(t) ==
  /\ process[t] \in {"running", "dying"} /\ dir[t] # "none"
  /\ unseen[t] < Rate /\ Available > 0
  /\ bytes' = [bytes EXCEPT ![t] = @ + 1]
  /\ unseen' = [unseen EXCEPT ![t] = @ + 1]
  /\ UNCHANGED <<pc, seen, reserved, holds, dir, process, storage, executor>>

\* The tick of 100 milliseconds.
WithinLimits(t) == bytes[t] < Temporary /\ Available >= Reserve

Look(t) ==
  /\ pc[t] = "encode" /\ WithinLimits(t)
  /\ unseen' = [unseen EXCEPT ![t] = 0]
  /\ UNCHANGED <<pc, seen, reserved, holds, dir, bytes, process, storage, executor>>

ProcessExits(t) ==
  /\ process[t] = "running"
  /\ process' = [process EXCEPT ![t] = "exited"]
  /\ UNCHANGED <<pc, seen, reserved, holds, dir, bytes, unseen, storage, executor>>

\* The last look is at the directory only.
FinalSizeOK(t) == bytes[t] <= Temporary

EncodeEnds(t) ==
  /\ pc[t] = "encode" /\ process[t] = "exited" /\ FinalSizeOK(t)
  /\ executor' = Nobody
  /\ process' = [process EXCEPT ![t] = "none"]
  /\ unseen' = [unseen EXCEPT ![t] = 0]
  /\ Goto(t, "publish")
  /\ UNCHANGED <<seen, reserved, holds, dir, bytes, storage>>

Stopped(t) ==
  process' = [process EXCEPT ![t] = IF @ = "running" THEN "dying" ELSE "none"]

\* Removing a directory may fail while a process writes to it.
Removed(t) ==
  \/ /\ dir' = [dir EXCEPT ![t] = "none"] /\ bytes' = [bytes EXCEPT ![t] = 0]
  \/ /\ process'[t] = "dying" /\ dir' = [dir EXCEPT ![t] = "left"]
     /\ UNCHANGED bytes

\* Everything is uploaded, or the pipeline fails: a lost ownership, a source
\* or an upload that fails, a limit at any look, an exit code, the wall time.
PipelineEnds(t) ==
  /\ pc[t] \in Pipeline
  /\ Stopped(t) /\ Removed(t)
  /\ storage' = Released(storage, t) /\ executor' = Released(executor, t)
  /\ unseen' = [unseen EXCEPT ![t] = 0]
  /\ Goto(t, "settle")
  /\ UNCHANGED <<seen, reserved, holds>>

\* Faulty variant: the reservation is forgotten.
GiveBackNothing(t) == UNCHANGED <<reserved, holds>>

\* Faulty variant: the refused, too, give back what they wanted.
GiveBackAlways(t) ==
  /\ reserved' = reserved - Temporary
  /\ holds' = holds \ {t}

\* Reservation::drop
GiveBack(t) ==
  /\ reserved' = IF t \in holds THEN reserved - Temporary ELSE reserved
  /\ holds' = holds \ {t}

\* The outcome is in the database; the reservation was kept until then.
Settled(t) ==
  /\ pc[t] = "settle"
  /\ GiveBack(t)
  /\ Goto(t, "over")
  /\ UNCHANGED <<seen, dir, bytes, process, unseen, storage, executor>>

\* The attempt is dropped: what was created last goes first, the reservation
\* before the directory.
Drop(t) ==
  /\ pc[t] \notin {"idle", "over"}
  /\ Goto(t, "over")
  /\ Stopped(t) /\ GiveBack(t)
  /\ storage' = Released(storage, t) /\ executor' = Released(executor, t)
  /\ unseen' = [unseen EXCEPT ![t] = 0]
  /\ dir' = [dir EXCEPT ![t] = IF @ = "present" THEN "doomed" ELSE @]
  /\ seen' = [seen EXCEPT ![t] = 0]
  /\ UNCHANGED bytes

DropDirectory(t) ==
  /\ dir[t] = "doomed"
  /\ UNCHANGED process /\ Removed(t)
  /\ UNCHANGED <<pc, seen, reserved, holds, unseen, storage, executor>>

ProcessDies(t) ==
  /\ process[t] = "dying"
  /\ process' = [process EXCEPT ![t] = "none"]
  /\ UNCHANGED <<pc, seen, reserved, holds, dir, bytes, unseen, storage, executor>>

\* The machine stays, the process is started again: attempts that wait are
\* redelivered to it, and directories of the others stay where they are.
Crash ==
  /\ Active # {}
  /\ pc' = [t \in Task |-> IF t \in Active THEN "over" ELSE pc[t]]
  /\ dir' = [t \in Task |-> IF dir[t] = "none" THEN "none" ELSE "left"]
  /\ process' = [t \in Task |-> "none"]
  /\ reserved' = 0 /\ holds' = {}
  /\ unseen' = [t \in Task |-> 0]
  /\ seen' = [t \in Task |-> 0]
  /\ storage' = Nobody /\ executor' = Nobody
  /\ UNCHANGED bytes

TaskStep(t) ==
  \/ CreateDirectory(t) \/ Measure(t) \/ ReserveSpace(t) \/ LockStorage(t)
  \/ WriteSource(t) \/ StartEncode(t) \/ EncodeEnds(t) \/ PipelineEnds(t)
  \/ Settled(t) \/ DropDirectory(t)

WorkNext ==
  \/ \E t \in Task :
       TaskStep(t) \/ ProcessWrites(t) \/ Look(t) \/ ProcessExits(t)
       \/ Drop(t) \/ ProcessDies(t)
  \/ Crash

\* Every pipeline ends within its wall time, whoever it waits for; the
\* database answers or its connection fails.
WorkFairness ==
  \A t \in Task :
    /\ WF_workVars(Measure(t)) /\ WF_workVars(ReserveSpace(t))
    /\ WF_workVars(PipelineEnds(t)) /\ WF_workVars(Settled(t))
    /\ WF_workVars(DropDirectory(t))

WorkSpec == WorkInit /\ [][WorkNext]_workVars /\ WorkFairness

-----------------------------------------------------------------------------
(* Properties.                                                             *)

\* Files no reservation accounts for: the rest of attempts that are over, and
\* what an attempt has written beyond its budget since the last look.
Unaccounted(t) ==
  IF t \notin holds THEN bytes[t] > 0 ELSE bytes[t] > Temporary

\* Attempts do not take the disk from each other, however their measurements
\* and reservations interleave: the space falls below the reserve, which ends
\* the encode that notices it, only with files nobody has reserved.
ReserveKept ==
  Available < Reserve => \E t \in Task : Unaccounted(t)

\* The budget is what the attempts hold, through every failure, drop and
\* panic: it neither leaks, which would end admission for good, nor wraps.
BudgetExact == reserved = Temporary * Cardinality(holds)

\* An attempt that has created its directory ends and gives its space back,
\* also one that never gets the executor.
WorkEnds == \A t \in Task : pc[t] # "idle" ~> (pc[t] = "over" /\ t \notin holds)
=============================================================================
