--------------------------- MODULE EncodingProofs ---------------------------
(***************************************************************************)
(* Proofs about the encoding of HLS: about LocalWork, the attempts that     *)
(* encode on one machine, and below about RenditionMedia, what a child      *)
(* encoder makes of a source and what the finalizer believes of it.         *)
(*                                                                         *)
(* LocalWork: for any number of attempts and any limits the budget is the   *)
(* sum of the reservations that are held, whatever is dropped, fails,       *)
(* panics or is refused; and what is reserved fits on the disk beside the   *)
(* reserve, so that only files nobody has reserved take the reserve.        *)
(***************************************************************************)
EXTENDS LocalWork, RenditionMedia, FiniteSetTheorems, SequenceTheorems,
        WellFoundedInduction, TLAPS

-----------------------------------------------------------------------------
(* The budget.                                                             *)

\* A reservation belongs to an attempt between its admission and its end.
HoldersAdmitted == \A t \in holds : pc[t] \in Pipeline \cup {"settle"}

BudgetInv ==
  /\ pc \in [Task -> {"idle", "measure", "reserve", "settle", "over"} \cup Pipeline]
  /\ holds \subseteq Task /\ IsFiniteSet(holds)
  /\ HoldersAdmitted
  /\ BudgetExact

\* One more reservation is one more Temporary.
LEMMA OneMore ==
  ASSUME NEW t, IsFiniteSet(holds), t \notin holds, BudgetExact
  PROVE  /\ IsFiniteSet(holds \cup {t})
         /\ reserved + Temporary = Temporary * Cardinality(holds \cup {t})
<1>1. /\ IsFiniteSet(holds \cup {t})
      /\ Cardinality(holds \cup {t}) = Cardinality(holds) + 1
  BY FS_AddElement
<1>2. Cardinality(holds) \in Nat /\ Temporary \in Nat
  BY FS_CardinalityType, WorkAssumption DEF WorkAssumption
<1>3. \A n \in Nat : Temporary * n + Temporary = Temporary * (n + 1)
  BY <1>2
<1> QED
  BY <1>1, <1>2, <1>3 DEF BudgetExact

\* Giving back what is not held changes nothing; what is held counts once.
LEMMA GivenBack ==
  ASSUME NEW t, IsFiniteSet(holds), BudgetExact, GiveBack(t)
  PROVE  /\ IsFiniteSet(holds') /\ holds' = holds \ {t}
         /\ reserved' = Temporary * Cardinality(holds')
<1>1. /\ IsFiniteSet(holds \ {t})
      /\ Cardinality(holds \ {t}) = IF t \in holds THEN Cardinality(holds) - 1
                                                   ELSE Cardinality(holds)
  BY FS_RemoveElement
<1>2. Cardinality(holds \ {t}) \in Nat /\ Cardinality(holds) \in Nat /\ Temporary \in Nat
  BY <1>1, FS_CardinalityType, WorkAssumption DEF WorkAssumption
<1>3. \A n \in Nat : Temporary * (n + 1) - Temporary = Temporary * n
  BY <1>2
<1>4. CASE t \in holds
  <2>1. Cardinality(holds) = Cardinality(holds \ {t}) + 1
    BY <1>1, <1>2, <1>4
  <2>2. reserved' = Temporary * (Cardinality(holds \ {t}) + 1) - Temporary
    BY <1>4, <2>1 DEF GiveBack, BudgetExact
  <2> QED
    BY <1>1, <1>2, <1>3, <2>2 DEF GiveBack
<1>5. CASE t \notin holds
  BY <1>1, <1>5 DEF GiveBack, BudgetExact
<1> QED
  BY <1>4, <1>5

\* Nothing is reserved at first.
LEMMA InitBudget == WorkInit => BudgetInv
<1> SUFFICES ASSUME WorkInit PROVE BudgetInv
  OBVIOUS
<1>1. IsFiniteSet({}) /\ Cardinality({}) = 0 /\ Temporary * 0 = 0
  BY FS_EmptySet, WorkAssumption DEF WorkAssumption
<1> QED
  BY <1>1 DEF WorkInit, BudgetInv, HoldersAdmitted, BudgetExact

\* Steps that neither reserve nor give back move an attempt from one admitted
\* place to another.
LEMMA OtherStepKeeps ==
  ASSUME NEW t \in Task, BudgetInv, UNCHANGED <<reserved, holds>>,
         NEW to \in {"idle", "measure", "reserve", "settle", "over"} \cup Pipeline,
         pc' = pc \/ pc' = [pc EXCEPT ![t] = to],
         t \in holds /\ pc' # pc => to \in Pipeline \cup {"settle"}
  PROVE  BudgetInv'
BY DEF BudgetInv, HoldersAdmitted, BudgetExact

\* Every step of one attempt keeps the budget.
LEMMA TaskKeeps ==
  ASSUME NEW t \in Task, BudgetInv,
         \/ TaskStep(t) \/ ProcessWrites(t) \/ Look(t) \/ ProcessExits(t)
         \/ Drop(t) \/ ProcessDies(t)
  PROVE  BudgetInv'
<1> USE DEF Goto, Pipeline
<1>1. CASE CreateDirectory(t)
  <2>1. t \notin holds /\ pc' = [pc EXCEPT ![t] = "measure"] /\ UNCHANGED <<reserved, holds>>
    BY <1>1 DEF CreateDirectory, BudgetInv, HoldersAdmitted
  <2> QED
    BY <2>1, OtherStepKeeps
<1>2. CASE Measure(t)
  <2>1. t \notin holds /\ pc' = [pc EXCEPT ![t] = "reserve"] /\ UNCHANGED <<reserved, holds>>
    BY <1>2 DEF Measure, BudgetInv, HoldersAdmitted
  <2> QED
    BY <2>1, OtherStepKeeps
<1>3. CASE ReserveSpace(t)
  <2>1. t \notin holds /\ pc[t] = "reserve"
    BY <1>3 DEF ReserveSpace, BudgetInv, HoldersAdmitted
  <2>2. CASE /\ pc' = [pc EXCEPT ![t] = "storage"]
             /\ reserved' = reserved + Temporary /\ holds' = holds \cup {t}
    <3>1. IsFiniteSet(holds') /\ BudgetExact'
      BY <2>1, <2>2, OneMore DEF BudgetInv, BudgetExact
    <3>2. holds' \subseteq Task /\ HoldersAdmitted'
      BY <2>2 DEF BudgetInv, HoldersAdmitted
    <3>3. pc' \in [Task -> {"idle", "measure", "reserve", "settle", "over"} \cup Pipeline]
      BY <2>2 DEF BudgetInv
    <3> QED
      BY <3>1, <3>2, <3>3 DEF BudgetInv
  <2>3. CASE pc' = [pc EXCEPT ![t] = "settle"] /\ UNCHANGED <<reserved, holds>>
    BY <2>1, <2>3, OtherStepKeeps
  <2> QED
    BY <1>3, <2>2, <2>3 DEF ReserveSpace
<1>4. CASE LockStorage(t) \/ WriteSource(t) \/ StartEncode(t) \/ EncodeEnds(t) \/ PipelineEnds(t)
  <2>1. PICK to \in Pipeline \cup {"settle"} :
          pc' = [pc EXCEPT ![t] = to] /\ UNCHANGED <<reserved, holds>>
    BY <1>4 DEF LockStorage, WriteSource, StartEncode, EncodeEnds, PipelineEnds
  <2> QED
    BY <2>1, OtherStepKeeps
<1>5. CASE Settled(t) \/ Drop(t)
  <2>1. GiveBack(t) /\ pc' = [pc EXCEPT ![t] = "over"]
    BY <1>5 DEF Settled, Drop
  <2>2. IsFiniteSet(holds') /\ holds' = holds \ {t} /\ BudgetExact'
    BY <2>1, GivenBack DEF BudgetInv, BudgetExact
  <2>3. HoldersAdmitted' /\ holds' \subseteq Task
    BY <2>1, <2>2 DEF BudgetInv, HoldersAdmitted
  <2>4. pc' \in [Task -> {"idle", "measure", "reserve", "settle", "over"} \cup Pipeline]
    BY <2>1 DEF BudgetInv
  <2> QED
    BY <2>2, <2>3, <2>4 DEF BudgetInv
<1>6. CASE \/ DropDirectory(t) \/ ProcessWrites(t) \/ Look(t) \/ ProcessExits(t)
           \/ ProcessDies(t)
  <2>1. UNCHANGED <<pc, reserved, holds>>
    BY <1>6 DEF DropDirectory, ProcessWrites, Look, ProcessExits, ProcessDies
  <2> QED
    BY <2>1 DEF BudgetInv, HoldersAdmitted, BudgetExact
<1> QED
  BY <1>1, <1>2, <1>3, <1>4, <1>5, <1>6 DEF TaskStep

\* A process that starts again has reserved nothing.
LEMMA CrashKeeps == BudgetInv /\ Crash => BudgetInv'
<1> SUFFICES ASSUME BudgetInv, Crash PROVE BudgetInv'
  OBVIOUS
<1>1. reserved' = 0 /\ holds' = {}
  BY DEF Crash
<1>2. IsFiniteSet({}) /\ Cardinality({}) = 0 /\ Temporary * 0 = 0
  BY FS_EmptySet, WorkAssumption DEF WorkAssumption
<1>3. pc' \in [Task -> {"idle", "measure", "reserve", "settle", "over"} \cup Pipeline]
  BY DEF Crash, BudgetInv
<1> QED
  BY <1>1, <1>2, <1>3 DEF BudgetInv, HoldersAdmitted, BudgetExact

\* Reservations and budget agree at every moment, for every number of
\* attempts and all limits.
THEOREM BudgetInvariant == WorkSpec => []BudgetInv
<1>1. BudgetInv /\ [WorkNext]_workVars => BudgetInv'
  <2> SUFFICES ASSUME BudgetInv, [WorkNext]_workVars PROVE BudgetInv'
    OBVIOUS
  <2>1. CASE \E t \in Task :
               \/ TaskStep(t) \/ ProcessWrites(t) \/ Look(t) \/ ProcessExits(t)
               \/ Drop(t) \/ ProcessDies(t)
    BY <2>1, TaskKeeps
  <2>2. CASE Crash
    BY <2>2, CrashKeeps
  <2>3. CASE UNCHANGED workVars
    BY <2>3 DEF workVars, BudgetInv, HoldersAdmitted, BudgetExact
  <2> QED
    BY <2>1, <2>2, <2>3 DEF WorkNext
<1> QED
  BY InitBudget, <1>1, PTL DEF WorkSpec

\* The budget neither leaks, which would end admission for good, nor wraps.
THEOREM BudgetIsExact == WorkSpec => []BudgetExact
<1>1. BudgetInv => BudgetExact
  BY DEF BudgetInv
<1> QED
  BY BudgetInvariant, <1>1, PTL

-----------------------------------------------------------------------------
(* The space that attempts leave each other.                               *)

\* Whoever holds a reservation has been admitted: what is reserved fits on the
\* disk beside the reserve.
Backed == holds # {} => reserved + Reserve <= Disk

SpaceInv == WorkTypeOK /\ Cardinality(Used) <= Disk /\ Backed

\* The units that are in use can be counted.
LEMMA UsedFinite ==
  ASSUME IsFiniteSet(Task)
  PROVE  IsFiniteSet(Used) /\ Cardinality(Used) \in Nat
<1>1. IsFiniteSet(Task \X (1..Disk))
  <2>1. IsFiniteSet(1..Disk)
    BY FS_Interval, WorkAssumption
  <2> QED
    BY <2>1, FS_Product
<1>2. Used \subseteq Task \X (1..Disk)
  BY DEF Used
<1> QED
  BY <1>1, <1>2, FS_Subset, FS_CardinalityType

\* The units of one attempt.
LEMMA UnitsOf ==
  ASSUME NEW t, NEW n \in Nat
  PROVE  /\ IsFiniteSet({t} \X (1..n))
         /\ Cardinality({t} \X (1..n)) = n
<1>1. IsFiniteSet(1..n) /\ Cardinality(1..n) = n
  BY FS_Interval
<1>2. IsFiniteSet({t}) /\ Cardinality({t}) = 1
  BY FS_Singleton
<1>3. IsFiniteSet({t} \X (1..n)) /\ Cardinality({t} \X (1..n)) = 1 * Cardinality(1..n)
  BY <1>1, <1>2, FS_Product
<1> QED
  BY <1>1, <1>3

\* Where an attempt can write one more unit, its file is below the disk's size.
LEMMA RoomForOne ==
  ASSUME IsFiniteSet(Task), WorkTypeOK, NEW t \in Task, Available > 0
  PROVE  bytes[t] < Disk
<1> SUFFICES ASSUME bytes[t] >= Disk PROVE FALSE
  BY WorkAssumption DEF WorkTypeOK
<1>1. ASSUME NEW n \in 1..Disk PROVE <<t, n>> \in Used
  BY WorkAssumption DEF Used, WorkTypeOK
<1>2. Cardinality({t} \X (1..Disk)) <= Cardinality(Used)
  <2>1. {t} \X (1..Disk) \subseteq Used
    BY <1>1
  <2> QED
    BY <2>1, UsedFinite, FS_Subset
<1>3. Cardinality({t} \X (1..Disk)) = Disk
  BY UnitsOf, WorkAssumption
<1> QED
  BY <1>2, <1>3, UsedFinite, WorkAssumption DEF Available

\* Writing n units more takes n units more at most.
LEMMA UsedGrows ==
  ASSUME IsFiniteSet(Task), WorkTypeOK, NEW t \in Task, NEW n \in Nat, NEW U,
         IsFiniteSet(U), Cardinality(U) = n,
         Used' \subseteq Used \cup U
  PROVE  /\ IsFiniteSet(Used')
         /\ Cardinality(Used') <= Cardinality(Used) + n
<1>1. IsFiniteSet(Used) /\ Cardinality(Used) \in Nat
  BY UsedFinite
<1>2. /\ IsFiniteSet(Used \cup U)
      /\ Cardinality(Used \cup U) = Cardinality(Used) + n - Cardinality(Used \cap U)
  BY <1>1, FS_Union
<1>3. IsFiniteSet(Used \cap U) /\ Cardinality(Used \cap U) \in Nat
  BY <1>1, FS_Subset, FS_CardinalityType
<1>4. IsFiniteSet(Used') /\ Cardinality(Used') <= Cardinality(Used \cup U)
  BY <1>2, FS_Subset
<1>5. Cardinality(Used') \in Nat /\ Cardinality(Used \cup U) \in Nat
  BY <1>2, <1>4, FS_CardinalityType
<1> QED
  BY <1>1, <1>2, <1>3, <1>4, <1>5

\* The types of one attempt's step.
LEMMA TypesKeep ==
  ASSUME IsFiniteSet(Task), BudgetInv, BudgetInv', SpaceInv, [WorkNext]_workVars
  PROVE  WorkTypeOK'
<1> USE DEF Goto, Pipeline, WorkTypeOK
<1>1. reserved' \in Nat
  <2>1. IsFiniteSet(holds') /\ reserved' = Temporary * Cardinality(holds')
    BY DEF BudgetInv, BudgetExact
  <2>2. Cardinality(holds') \in Nat /\ Temporary \in Nat
    BY <2>1, FS_CardinalityType, WorkAssumption
  <2>3. \A m, n \in Nat : m * n \in Nat
    OBVIOUS
  <2> QED
    BY <2>1, <2>2, <2>3
<1>2. holds' \subseteq Task
  BY DEF BudgetInv
<1>3. pc' \in [Task -> {"idle", "measure", "reserve", "settle", "over"} \cup Pipeline]
  BY DEF BudgetInv
<1>4. Available \in 0..Disk /\ 0 \in 0..Disk /\ 0 \in 0..Rate
  BY UsedFinite, WorkAssumption DEF SpaceInv, Available
<1>5. ASSUME NEW t \in Task, TaskStep(t)
      PROVE  WorkTypeOK'
  <2>1. seen' \in [Task -> 0..Disk]
    BY <1>4, <1>5 DEF SpaceInv, TaskStep, CreateDirectory, Measure, ReserveSpace, LockStorage,
          WriteSource, StartEncode, EncodeEnds, PipelineEnds, Settled, DropDirectory
  <2>2. dir' \in [Task -> {"none", "present", "doomed", "left"}]
    BY <1>5 DEF SpaceInv, TaskStep, CreateDirectory, Measure, ReserveSpace, LockStorage,
          WriteSource, StartEncode, EncodeEnds, PipelineEnds, Settled, DropDirectory, Removed
  <2>3. process' \in [Task -> {"none", "running", "exited", "dying"}]
    BY <1>5 DEF SpaceInv, TaskStep, CreateDirectory, Measure, ReserveSpace, LockStorage,
          WriteSource, StartEncode, EncodeEnds, PipelineEnds, Settled, DropDirectory, Stopped
  <2>4. unseen' \in [Task -> 0..Rate]
    BY <1>4, <1>5 DEF SpaceInv, TaskStep, CreateDirectory, Measure, ReserveSpace, LockStorage,
          WriteSource, StartEncode, EncodeEnds, PipelineEnds, Settled, DropDirectory
  <2>5. bytes' \in [Task -> 0..Disk]
    <3>1. CASE WriteSource(t)
      <4>1. SourceSize \in 0..Disk
        BY <1>4, <3>1, WorkAssumption DEF WriteSource
      <4> QED
        BY <3>1, <4>1 DEF SpaceInv, WriteSource
    <3>2. CASE ~WriteSource(t)
      BY <1>4, <1>5, <3>2 DEF SpaceInv, TaskStep, CreateDirectory, Measure, ReserveSpace,
          LockStorage, StartEncode, EncodeEnds, PipelineEnds, Settled, DropDirectory, Removed
    <3> QED
      BY <3>1, <3>2
  <2>6. storage' \in Task \cup {Nobody} /\ executor' \in Task \cup {Nobody}
    BY <1>5 DEF SpaceInv, TaskStep, CreateDirectory, Measure, ReserveSpace, LockStorage,
          WriteSource, StartEncode, EncodeEnds, PipelineEnds, Settled, DropDirectory, Released
  <2> QED
    BY <1>1, <1>2, <1>3, <2>1, <2>2, <2>3, <2>4, <2>5, <2>6
<1>6. ASSUME NEW t \in Task, ProcessWrites(t)
      PROVE  WorkTypeOK'
  <2>1. bytes[t] < Disk
    BY <1>6, RoomForOne DEF SpaceInv, ProcessWrites
  <2>2. bytes[t] + 1 \in 0..Disk
    BY <2>1, WorkAssumption DEF SpaceInv
  <2>3. unseen[t] + 1 \in 0..Rate
    BY <1>6, WorkAssumption DEF SpaceInv, ProcessWrites
  <2> QED
    BY <1>1, <1>2, <1>3, <1>6, <2>2, <2>3 DEF SpaceInv, ProcessWrites
<1>7. ASSUME NEW t \in Task, Look(t) \/ ProcessExits(t) \/ Drop(t) \/ ProcessDies(t)
      PROVE  WorkTypeOK'
  BY <1>1, <1>2, <1>3, <1>4, <1>7 DEF SpaceInv, Look, ProcessExits, Drop, ProcessDies,
     Stopped, Released
<1>8. CASE Crash
  BY <1>1, <1>2, <1>3, <1>4, <1>8 DEF SpaceInv, Crash
<1>9. CASE UNCHANGED workVars
  BY <1>9 DEF SpaceInv, workVars
<1> QED
  BY <1>5, <1>6, <1>7, <1>8, <1>9 DEF WorkNext

\* No step uses more than the disk has.
LEMMA UsedKeeps ==
  ASSUME IsFiniteSet(Task), SpaceInv, WorkTypeOK', [WorkNext]_workVars
  PROVE  Cardinality(Used)' <= Disk
<1>1. ASSUME Used' \subseteq Used PROVE Cardinality(Used)' <= Disk
  <2>1. Cardinality(Used') <= Cardinality(Used) /\ IsFiniteSet(Used')
    BY <1>1, UsedFinite, FS_Subset
  <2>2. Cardinality(Used') \in Nat
    BY <2>1, FS_CardinalityType
  <2> QED
    BY <2>1, <2>2, UsedFinite, WorkAssumption DEF SpaceInv
<1>2. ASSUME NEW t \in Task, bytes' = [bytes EXCEPT ![t] = 0] \/ UNCHANGED bytes
      PROVE  Used' \subseteq Used
  BY <1>2, WorkAssumption DEF Used, SpaceInv, WorkTypeOK
<1>3. ASSUME NEW t \in Task, WriteSource(t) PROVE Cardinality(Used)' <= Disk
  <2> DEFINE U == {t} \X (1..SourceSize)
  <2>1. Used' \subseteq Used \cup U
    BY <1>3 DEF WriteSource, Used, SpaceInv, WorkTypeOK
  <2>2. IsFiniteSet(U) /\ Cardinality(U) = SourceSize
    BY UnitsOf, WorkAssumption
  <2> HIDE DEF U
  <2>3. IsFiniteSet(Used') /\ Cardinality(Used') <= Cardinality(Used) + SourceSize
    BY <2>1, <2>2, UsedGrows, WorkAssumption DEF SpaceInv
  <2>4. Cardinality(Used') \in Nat /\ Cardinality(Used) \in Nat
    BY <2>3, UsedFinite, FS_CardinalityType
  <2>5. Disk - Cardinality(Used) >= SourceSize
    BY <1>3 DEF WriteSource, Available
  <2> QED
    BY <2>3, <2>4, <2>5, WorkAssumption
<1>4. ASSUME NEW t \in Task, ProcessWrites(t) PROVE Cardinality(Used)' <= Disk
  <2>1. Used' \subseteq Used \cup {<<t, bytes[t] + 1>>}
    BY <1>4 DEF ProcessWrites, Used, SpaceInv, WorkTypeOK
  <2>2. IsFiniteSet({<<t, bytes[t] + 1>>}) /\ Cardinality({<<t, bytes[t] + 1>>}) = 1
    BY FS_Singleton
  <2>3. IsFiniteSet(Used') /\ Cardinality(Used') <= Cardinality(Used) + 1
    BY <2>1, <2>2, UsedGrows DEF SpaceInv
  <2>4. Cardinality(Used') \in Nat /\ Cardinality(Used) \in Nat
    BY <2>3, UsedFinite, FS_CardinalityType
  <2>5. Disk - Cardinality(Used) > 0
    BY <1>4 DEF ProcessWrites, Available
  <2> QED
    BY <2>3, <2>4, <2>5, WorkAssumption
<1>5. ASSUME NEW t \in Task, TaskStep(t), ~WriteSource(t)
      PROVE  bytes' = [bytes EXCEPT ![t] = 0] \/ UNCHANGED bytes
  BY <1>5 DEF TaskStep, CreateDirectory, Measure, ReserveSpace,
       LockStorage, StartEncode, EncodeEnds, PipelineEnds, Settled, DropDirectory, Removed
<1>6. ASSUME NEW t \in Task, Look(t) \/ ProcessExits(t) \/ Drop(t) \/ ProcessDies(t)
      PROVE  UNCHANGED bytes
  BY <1>6 DEF Look, ProcessExits, Drop, ProcessDies
<1>7. ASSUME UNCHANGED bytes PROVE Used' = Used
  BY <1>7 DEF Used
<1>8. Crash \/ UNCHANGED workVars => UNCHANGED bytes
  BY DEF Crash, workVars
<1> QED
  BY <1>1, <1>2, <1>3, <1>4, <1>5, <1>6, <1>7, <1>8 DEF WorkNext

\* Whoever is admitted leaves the reserve, and who gives back only helps.
LEMMA BackedKeeps ==
  ASSUME BudgetInv, SpaceInv, [WorkNext]_workVars
  PROVE  Backed'
<1>1. ASSUME NEW t \in Task, ReserveSpace(t) PROVE Backed'
  <2>1. CASE Admitted(t) /\ reserved' = reserved + Temporary
    BY <2>1, WorkAssumption DEF Admitted, SpaceInv, WorkTypeOK, Backed
  <2>2. CASE UNCHANGED <<reserved, holds>>
    BY <2>2 DEF SpaceInv, Backed
  <2> QED
    BY <1>1, <2>1, <2>2 DEF ReserveSpace
<1>2. ASSUME NEW t \in Task, Settled(t) \/ Drop(t) PROVE Backed'
  <2>1. GiveBack(t)
    BY <1>2 DEF Settled, Drop
  <2> DEFINE left == reserved'
  <2>2. holds' \subseteq holds /\ left <= reserved /\ left \in Int /\ reserved \in Nat
    BY <2>1, WorkAssumption DEF GiveBack, SpaceInv, WorkTypeOK
  <2> HIDE DEF left
  <2>3. holds' # {} => left + Reserve <= Disk
    BY <2>2, WorkAssumption DEF SpaceInv, Backed
  <2> QED
    BY <2>3 DEF Backed, left
<1>3. CASE UNCHANGED <<reserved, holds>>
  BY <1>3 DEF SpaceInv, Backed
<1>4. CASE Crash
  BY <1>4 DEF Crash, Backed
<1>5. ASSUME NEW t \in Task,
             \/ TaskStep(t) /\ ~ReserveSpace(t) /\ ~Settled(t)
             \/ ProcessWrites(t) \/ Look(t) \/ ProcessExits(t) \/ ProcessDies(t)
      PROVE  UNCHANGED <<reserved, holds>>
  BY <1>5 DEF TaskStep, CreateDirectory, Measure, LockStorage, WriteSource, StartEncode,
       EncodeEnds, PipelineEnds, DropDirectory, ProcessWrites, Look, ProcessExits, ProcessDies
<1> QED
  BY <1>1, <1>2, <1>3, <1>4, <1>5 DEF WorkNext, workVars

\* The state of the attempts has the type the model gives it, and the disk is
\* never over-full.
THEOREM SpaceInvariant ==
  ASSUME IsFiniteSet(Task)
  PROVE  WorkSpec => [](BudgetInv /\ SpaceInv)
<1>1. WorkInit => SpaceInv
  <2> SUFFICES ASSUME WorkInit PROVE SpaceInv
    OBVIOUS
  <2>1. WorkTypeOK
    BY WorkAssumption DEF WorkInit, WorkTypeOK, Pipeline
  <2>2. Used = {} /\ Cardinality({}) = 0
    BY FS_EmptySet DEF WorkInit, Used
  <2> QED
    BY <2>1, <2>2, WorkAssumption DEF SpaceInv, WorkInit, Backed
<1>2. BudgetInv /\ BudgetInv' /\ SpaceInv /\ [WorkNext]_workVars => SpaceInv'
  <2> SUFFICES ASSUME BudgetInv, BudgetInv', SpaceInv, [WorkNext]_workVars PROVE SpaceInv'
    OBVIOUS
  <2>1. WorkTypeOK'
    BY TypesKeep
  <2>2. Cardinality(Used)' <= Disk
    BY <2>1, UsedKeeps
  <2> QED
    BY <2>1, <2>2, BackedKeeps DEF SpaceInv
<1> QED
  BY <1>1, <1>2, BudgetInvariant, PTL DEF WorkSpec

\* Files that are accounted for fit into what is reserved.
LEMMA AccountedFits ==
  ASSUME BudgetInv, SpaceInv, IsFiniteSet(Task), \A t \in Task : ~Unaccounted(t)
  PROVE  Cardinality(Used) <= reserved
<1> DEFINE U == holds \X (1..Temporary)
<1>1. IsFiniteSet(holds) /\ IsFiniteSet(1..Temporary) /\ Cardinality(1..Temporary) = Temporary
  BY FS_Interval, WorkAssumption DEF BudgetInv
<1>2. IsFiniteSet(U) /\ Cardinality(U) = Cardinality(holds) * Temporary
  BY <1>1, FS_Product
<1>3. Used \subseteq U
  <2> SUFFICES ASSUME NEW t \in Task, NEW n \in 1..Disk, n <= bytes[t]
               PROVE  t \in holds /\ n \in 1..Temporary
    BY DEF Used
  <2>1. bytes[t] \in Nat /\ bytes[t] > 0
    BY DEF SpaceInv, WorkTypeOK
  <2> QED
    BY <2>1, WorkAssumption DEF Unaccounted
<1>4. Cardinality(Used) <= Cardinality(U)
  BY <1>2, <1>3, FS_Subset
<1>5. Cardinality(holds) \in Nat /\ Temporary \in Nat
  BY <1>1, FS_CardinalityType, WorkAssumption
<1>6. Cardinality(holds) * Temporary = Temporary * Cardinality(holds)
  BY <1>5
<1> QED
  BY <1>2, <1>4, <1>6 DEF BudgetInv, BudgetExact

\* On a disk that can hold the reserve at all, admitted attempts never take it:
\* the space falls below it only with files of attempts that are over, or of an
\* encode that has outgrown its budget since the last look.
THEOREM ReserveIsKept ==
  ASSUME IsFiniteSet(Task), Disk >= Reserve
  PROVE  WorkSpec => []ReserveKept
<1>1. BudgetInv /\ SpaceInv => ReserveKept
  <2> SUFFICES ASSUME BudgetInv, SpaceInv, \A t \in Task : ~Unaccounted(t)
               PROVE  ~(Available < Reserve)
    BY DEF ReserveKept
  <2>1. Cardinality(Used) <= reserved /\ Cardinality(Used) \in Nat
    BY AccountedFits, UsedFinite
  <2>2. reserved \in Nat /\ reserved + Reserve <= Disk
    <3>1. CASE holds = {}
      <4>1. reserved = Temporary * 0 /\ Temporary * 0 = 0
        BY <3>1, FS_EmptySet, WorkAssumption DEF BudgetInv, BudgetExact
      <4> QED
        BY <4>1, WorkAssumption
    <3>2. CASE holds # {}
      BY <3>2 DEF SpaceInv, Backed, WorkTypeOK
    <3> QED
      BY <3>1, <3>2
  <2> QED
    BY <2>1, <2>2, WorkAssumption DEF Available
<1> QED
  BY <1>1, SpaceInvariant, PTL

-----------------------------------------------------------------------------
(* RenditionMedia, for every source, playlist, length, duration and limit.  *)
(*                                                                         *)
(* Once there are objects to inspect, they are of the kind the two programs *)
(* read; intact ones are an upload of an encode that was not refused; and   *)
(* the stage says what the finalizer decides about them (MediaInv).  The    *)
(* rest is arithmetic, done once: the scale keeps a picture under its       *)
(* ceiling, rounding down keeps it usable, a rate that is rounded up is     *)
(* enough, and a playlist whose durations are all usable has exactly one    *)
(* per reference, so that encoder and finalizer compute the same rate.      *)

-----------------------------------------------------------------------------
(* Numbers: least and greatest members, rounding.                          *)

\* A set of numbers that has a member has a least one.
LEMMA LeastNumber ==
  ASSUME NEW S, S \subseteq Nat, S # {}
  PROVE  \E x \in S : \A y \in S : x <= y
<1>1. IsWellFoundedOn(OpToRel(<, Nat), Nat)
  BY NatLessThanWellFounded
<1>2. \E x \in S : \A y \in S : <<y, x>> \notin OpToRel(<, Nat)
  BY <1>1, WFMin
<1>3. ASSUME NEW x \in S, NEW y \in S, <<y, x>> \notin OpToRel(<, Nat)
      PROVE  x <= y
  <2>1. <<y, x>> \notin {ss \in Nat \X Nat : ss[1] < ss[2]}
    BY <1>3 DEF OpToRel
  <2> QED
    BY <2>1
<1> QED
  BY <1>2, <1>3

\* The values of a finite sequence of numbers have an upper bound.
LEMMA SequenceBounded ==
  ASSUME NEW n \in Nat, NEW f, \A i \in 1..n : f[i] \in Nat
  PROVE  \E b \in Nat : \A i \in 1..n : f[i] <= b
<1> DEFINE Bounded(m) == \E b \in Nat : \A i \in 1..m : f[i] <= b
           Unbounded == {m \in 0..n : ~Bounded(m)}
<1>1. ASSUME NEW m \in 0..n, m # 0, Bounded(m - 1) PROVE Bounded(m)
  <2>1. PICK b \in Nat : \A i \in 1..(m - 1) : f[i] <= b
    BY <1>1
  <2>2. f[m] \in Nat
    BY <1>1
  <2>3. PICK c \in Nat : b <= c /\ f[m] <= c
    BY <2>2
  <2>4. ASSUME NEW i \in 1..m PROVE f[i] <= c
    <3>1. CASE i = m
      BY <2>3, <3>1
    <3>2. CASE i # m
      <4>1. i \in 1..(m - 1) /\ f[i] \in Nat
        BY <3>2
      <4> QED
        BY <2>1, <2>3, <4>1
    <3> QED
      BY <3>1, <3>2
  <2> QED
    BY <2>4
<1>2. Bounded(0)
  OBVIOUS
<1> HIDE DEF Bounded
<1>3. ASSUME Unbounded # {} PROVE FALSE
  <2>1. Unbounded \subseteq Nat
    OBVIOUS
  <2>2. PICK m \in Unbounded : \A k \in Unbounded : m <= k
    BY <1>3, <2>1, LeastNumber
  <2>3. m \in 0..n /\ m # 0 /\ ~Bounded(m)
    BY <1>2
  <2>4. m - 1 \in 0..n /\ Bounded(m - 1)
    BY <2>2, <2>3
  <2> QED
    BY <1>1, <2>3, <2>4
<1>4. Bounded(n)
  BY <1>3
<1> QED
  BY <1>4 DEF Bounded

\* Max finds the greatest of a number and the values of a finite sequence.
LEMMA GreatestOfSequence ==
  ASSUME NEW n \in Nat, NEW f, \A i \in 1..n : f[i] \in Nat, NEW base \in Nat,
         NEW S, S = {base} \cup {f[i] : i \in 1..n}
  PROVE  Max(S) \in S /\ Max(S) \in Nat /\ \A x \in S : x <= Max(S)
<1> DEFINE Above == {b \in Nat : \A x \in S : x <= b}
<1>1. PICK c \in Nat : \A i \in 1..n : f[i] <= c
  BY SequenceBounded
<1>2. PICK d \in Nat : c <= d /\ base <= d
  OBVIOUS
<1>3. d \in Above
  BY <1>1, <1>2
<1>4. PICK least \in Above : \A b \in Above : least <= b
  <2>1. Above \subseteq Nat /\ Above # {}
    BY <1>3
  <2> HIDE DEF Above
  <2> QED
    BY <2>1, LeastNumber
<1>5. least \in S
  <2> SUFFICES ASSUME least \notin S PROVE FALSE
    OBVIOUS
  <2>1. \A x \in S : x \in Nat /\ x <= least - 1
    BY <1>4
  <2>2. least - 1 \in Above
    BY <2>1
  <2> QED
    BY <1>4, <2>2
<1>6. \A x \in S : least >= x
  BY <1>4
<1>7. Max(S) \in S /\ \A x \in S : Max(S) >= x
  BY <1>5, <1>6 DEF Max
<1>8. S \subseteq Nat
  OBVIOUS
<1> QED
  BY <1>7, <1>8

\* The larger of two numbers.
LEMMA MaxOfTwo ==
  ASSUME NEW x \in Int, NEW y \in Int
  PROVE  Max({x, y}) = IF x <= y THEN y ELSE x
<1>1. \E z \in {x, y} : \A w \in {x, y} : z >= w
  OBVIOUS
<1>2. Max({x, y}) \in {x, y} /\ Max({x, y}) >= x /\ Max({x, y}) >= y
  BY <1>1 DEF Max
<1> QED
  BY <1>2

\* A quotient that is rounded up is enough.
LEMMA CeilDivEnough ==
  ASSUME NEW n \in Nat, NEW d \in Nat, d > 0
  PROVE  /\ CeilDiv(n, d) \in Nat /\ n <= CeilDiv(n, d) * d
         /\ n > 0 => CeilDiv(n, d) >= 1
<1> DEFINE q == (n + d - 1) \div d
<1>1. q \in Nat /\ n <= d * q
  OBVIOUS
<1>2. n > 0 => q >= 1
  BY <1>1
<1>3. d * q = q * d
  BY <1>1
<1> QED
  BY <1>1, <1>2, <1>3 DEF CeilDiv

-----------------------------------------------------------------------------
(* Sequences of which nothing is left out.                                 *)

\* Positions that are as many as there are, are all of them.
LEMMA AllPositions ==
  ASSUME NEW n \in Nat, NEW S, S \subseteq 1..n
  PROVE  /\ Cardinality(S) \in Nat
         /\ Cardinality(S) = n => S = 1..n
<1>1. IsFiniteSet(1..n) /\ Cardinality(1..n) = n
  BY FS_Interval
<1> QED
  BY <1>1, FS_Subset, FS_CardinalityType

\* Selecting every position leaves a sequence as it is.
LEMMA SelectedAll ==
  ASSUME NEW n \in Nat, NEW s
  PROVE  Selected(s, 1..n) = [k \in 1..n |-> s[k]]
<1>1. Cardinality(1..n) = n
  BY FS_Interval
<1>2. ASSUME NEW k \in 1..n
      PROVE  (CHOOSE i \in 1..n : Cardinality({j \in 1..n : j <= i}) = k) = k
  <2>1. ASSUME NEW i \in 1..n PROVE Cardinality({j \in 1..n : j <= i}) = i
    <3>1. {j \in 1..n : j <= i} = 1..i
      OBVIOUS
    <3>2. Cardinality(1..i) = i
      BY FS_Interval
    <3> QED
      BY <3>1, <3>2
  <2> QED
    BY <2>1
<1>3. Selected(s, 1..n)
      = [k \in 1..n |-> s[CHOOSE i \in 1..n : Cardinality({j \in 1..n : j <= i}) = k]]
  BY <1>1 DEF Selected
<1> QED
  BY <1>2, <1>3, Zenon

-----------------------------------------------------------------------------
(* The states of RenditionMedia.                                           *)

PlaylistType == [header: BOOLEAN, uri: BOOLEAN, references: Seq([name: Nat, extinf: Int])]

FilesType == UNION {[D -> Nat] : D \in SUBSET Nat}

PictureType ==
  [ rendition: {"360p", "720p"}, width: Nat, height: Nat, audio: BOOLEAN,
    video: {"h264", "other"}, profile: {"known", "unknown"} ]

MediaType == [length: Nat, picture: PictureType, playlist: PlaylistType, files: FilesType]

UploadType == [playlist: PlaylistType, files: FilesType, mime: BOOLEAN, probe: Probe]

\* The objects and the claims of an encoder that has succeeded.
Uploaded ==
  /\ ~EncodeRefuses(media)
  /\ \E d \in ScaledDimensions(media.picture.width, media.picture.height,
                               media.picture.rendition) :
       result = Claims(media, d[1], d[2]) /\ stored = Upload(media, d[1], d[2])

Inspected == {"finalize", "accepted", "refused"}

MediaInv ==
  /\ stage \in {"encode", "failed"} \cup Inspected
  /\ media \in MediaType
  /\ stage \in Inspected => stored \in UploadType
  /\ stage \in Inspected /\ intact => Uploaded
  /\ stage = "accepted" => FinalizerAccepts /\ variant = VariantOf(stored)
  /\ stage = "refused" => ~FinalizerAccepts

\* A playlist whose references all have a positive duration has just these.
LEMMA UsableExtinfsAre ==
  ASSUME NEW p \in PlaylistType, UsableExtinfs(p, Len(p.references))
  PROVE  /\ Extinfs(p) = [i \in 1..Len(p.references) |-> p.references[i].extinf]
         /\ Len(p.references) \in Nat
         /\ \A i \in 1..Len(p.references) :
              p.references[i].extinf \in Nat /\ p.references[i].extinf > 0
<1> DEFINE n == Len(p.references)
           values == [i \in 1..n |-> p.references[i].extinf]
           present == {i \in 1..n : p.references[i].extinf # NoExtinf}
<1>1. p.references \in Seq([name: Nat, extinf: Int]) /\ n \in Nat
  BY LenProperties DEF PlaylistType
<1>2. ASSUME NEW i \in 1..n PROVE p.references[i].extinf \in Int
  <2>1. p.references[i] \in [name: Nat, extinf: Int]
    BY <1>1, ElementOfSeq
  <2> QED
    BY <2>1
<1>3. present \subseteq 1..n
  OBVIOUS
<1>4. Extinfs(p) = Selected(values, present)
  BY DEF Extinfs
<1>5. Cardinality(present) \in Nat
  BY <1>1, <1>3, AllPositions
<1>6. Len(Selected(values, present)) = Cardinality(present)
  BY <1>5 DEF Selected
<1>7. present = 1..n
  BY <1>1, <1>3, <1>4, <1>6, AllPositions DEF UsableExtinfs
<1>8. Extinfs(p) = [i \in 1..n |-> values[i]]
  BY <1>1, <1>4, <1>7, SelectedAll
<1>9. Extinfs(p) = values
  BY <1>8
<1>10. \A i \in 1..n : values[i] > 0
  BY <1>9 DEF UsableExtinfs
<1>11. ASSUME NEW i \in 1..n
       PROVE  p.references[i].extinf \in Nat /\ p.references[i].extinf > 0
  <2>1. values[i] = p.references[i].extinf
    OBVIOUS
  <2>2. \A x \in Int : x > 0 => x \in Nat
    OBVIOUS
  <2> HIDE DEF values
  <2> QED
    BY <1>2, <1>10, <2>1, <2>2
<1> QED
  BY <1>1, <1>9, <1>11

\* The bandwidth the finalizer computes is enough for every segment.
LEMMA ActualBandwidthEnough ==
  ASSUME NEW p \in PlaylistType, NEW files, UsableExtinfs(p, Len(p.references)),
         \A i \in 1..Len(p.references) : files[i - 1] \in Nat
  PROVE  /\ ActualBandwidth(p, files) \in Nat
         /\ ActualBandwidth(p, files) \in
              {0} \cup {CeilDiv(8 * files[i - 1], p.references[i].extinf) :
                          i \in 1..Len(p.references)}
         /\ \A i \in 1..Len(p.references) :
              /\ CeilDiv(8 * files[i - 1], p.references[i].extinf) <= ActualBandwidth(p, files)
              /\ 8 * files[i - 1] <= ActualBandwidth(p, files) * p.references[i].extinf
<1> DEFINE n == Len(p.references)
           rate == [i \in 1..n |-> CeilDiv(8 * files[i - 1], p.references[i].extinf)]
           S == {0} \cup {rate[i] : i \in 1..n}
<1>1. /\ Extinfs(p) = [i \in 1..n |-> p.references[i].extinf] /\ n \in Nat
      /\ \A i \in 1..n : p.references[i].extinf \in Nat /\ p.references[i].extinf > 0
  BY UsableExtinfsAre
<1>2. ASSUME NEW i \in 1..n
      PROVE  /\ rate[i] \in Nat
             /\ 8 * files[i - 1] <= rate[i] * p.references[i].extinf
  <2>1. 8 * files[i - 1] \in Nat
    OBVIOUS
  <2> QED
    BY <1>1, <2>1, CeilDivEnough
<1>3. S = {0} \cup {CeilDiv(8 * files[i - 1], Extinfs(p)[i]) : i \in 1..n}
  BY <1>1
<1>4. ActualBandwidth(p, files) = Max(S)
  BY <1>3 DEF ActualBandwidth
<1>5. Max(S) \in S /\ Max(S) \in Nat /\ \A x \in S : x <= Max(S)
  <2>1. n \in Nat /\ 0 \in Nat /\ \A i \in 1..n : rate[i] \in Nat
    BY <1>1, <1>2
  <2>2. S = {0} \cup {rate[i] : i \in 1..n}
    OBVIOUS
  <2> HIDE DEF n, rate, S
  <2> QED
    BY <2>1, <2>2, GreatestOfSequence
<1>6. ASSUME NEW i \in 1..n
      PROVE  /\ rate[i] <= Max(S)
             /\ 8 * files[i - 1] <= Max(S) * p.references[i].extinf
  <2>1. rate[i] <= Max(S)
    BY <1>5
  <2>2. \A x, y, z \in Nat : x <= y => x * z <= y * z
    OBVIOUS
  <2>3. rate[i] * p.references[i].extinf <= Max(S) * p.references[i].extinf
    BY <1>1, <1>2, <1>5, <2>1, <2>2
  <2>4. \A x, y \in Nat : x * y \in Nat
    OBVIOUS
  <2>5. /\ 8 * files[i - 1] \in Nat /\ rate[i] * p.references[i].extinf \in Nat
        /\ Max(S) * p.references[i].extinf \in Nat
    BY <1>1, <1>2, <1>5, <2>4
  <2> QED
    <3>1. \A x, y, z \in Nat : x <= y /\ y <= z => x <= z
      OBVIOUS
    <3> HIDE DEF S, rate
    <3> QED
      BY <1>2, <2>1, <2>3, <2>5, <3>1
<1> QED
  BY <1>4, <1>5, <1>6

\* What the finalizer accepts is as the master says.
LEMMA AcceptedIsTruthful ==
  ASSUME media \in MediaType, stored \in UploadType, FinalizerAccepts,
         variant = VariantOf(stored)
  PROVE  VariantTruthful
<1> DEFINE p == stored.playlist
           n == Len(p.references)
<1>1. p \in PlaylistType
  BY DEF UploadType
<1>2. UsableExtinfs(p, n) /\ InOrder(p.references) /\ ActualFits(stored.probe, media)
  BY DEF FinalizerAccepts, ActualMediaValid, ValidObjects
<1>3. ASSUME NEW i \in 1..n PROVE stored.files[i - 1] \in Nat
  <2>1. i \in 1..Len(result.lengths) /\ i - 1 \in DOMAIN stored.files
    BY DEF FinalizerAccepts, ValidObjects
  <2>2. stored.files \in FilesType
    BY DEF UploadType
  <2> QED
    BY <2>1, <2>2 DEF FilesType
<1>4. \A i \in 1..n :
        8 * stored.files[i - 1] <= ActualBandwidth(p, stored.files) * p.references[i].extinf
  BY <1>1, <1>2, <1>3, ActualBandwidthEnough
<1>5. /\ variant.width = stored.probe.width /\ variant.height = stored.probe.height
      /\ variant.bandwidth = ActualBandwidth(p, stored.files)
  BY DEF VariantOf
<1> QED
  BY <1>2, <1>4, <1>5 DEF VariantTruthful, ActualFits, InOrder

-----------------------------------------------------------------------------
(* Encoder and finalizer agree.                                            *)

\* A dimension after rounding is even, positive and no more than an even bound.
LEMMA RoundedDown ==
  ASSUME NEW x \in Int, NEW bound \in Nat, x <= bound, bound >= 2, bound % 2 = 0
  PROVE  LET y == Max({EvenDown(x), 2}) IN
         y \in Nat /\ y >= 2 /\ y % 2 = 0 /\ y <= bound
<1>1. EvenDown(x) \in Int /\ EvenDown(x) <= bound /\ EvenDown(x) % 2 = 0
  BY DEF EvenDown
<1> QED
  BY <1>1, MaxOfTwo

\* A product is floored to no more than the product.
LEMMA FlooredBelow ==
  ASSUME NEW x \in Nat, NEW n \in Nat, NEW d \in Nat, d > 0, NEW bound \in Nat,
         x * n <= bound * d, NEW y \in Floored(x, <<n, d>>)
  PROVE  y \in Int /\ y <= bound
<1>1. x * n \in Nat
  OBVIOUS
<1>2. ASSUME NEW m \in Nat, m <= bound * d PROVE m \div d \in Nat /\ m \div d <= bound
  BY <1>2
<1>3. (x * n) \div d \in Nat /\ (x * n) \div d <= bound
  BY <1>1, <1>2
<1>4. y = (x * n) \div d \/ y = (x * n) \div d - 1
  BY DEF Floored
<1> QED
  BY <1>3, <1>4

\* The scale brings both dimensions below their ceilings, and makes none larger.
LEMMA ScaleFits ==
  ASSUME NEW w \in Nat, NEW h \in Nat, w > 0, h > 0,
         NEW mw \in Nat, NEW mh \in Nat, mw > 0, mh > 0
  PROVE  LET s == ScaleOf(w, h, mw, mh) IN
         /\ s = <<s[1], s[2]>> /\ s[1] \in Nat /\ s[2] \in Nat /\ s[2] > 0
         /\ w * s[1] <= mw * s[2] /\ h * s[1] <= mh * s[2]
         /\ w * s[1] <= w * s[2] /\ h * s[1] <= h * s[2]
<1>1. CASE w <= mw /\ h <= mh
  BY <1>1 DEF ScaleOf
<1>2. CASE ~(w <= mw /\ h <= mh) /\ mw * h <= mh * w
  <2>1. mw < w
    <3> SUFFICES ASSUME w <= mw PROVE FALSE
      OBVIOUS
    <3>1. h >= mh + 1
      BY <1>2
    <3>2. mw * h >= mw * (mh + 1) /\ mw * (mh + 1) = mw * mh + mw /\ mh * w <= mh * mw
      BY <3>1
    <3> QED
      BY <1>2, <3>2
  <2>2. h * mw <= h * w /\ w * mw = mw * w /\ h * mw = mw * h /\ w * mw <= w * w
    BY <2>1
  <2> QED
    BY <1>2, <2>2 DEF ScaleOf
<1>3. CASE ~(w <= mw /\ h <= mh) /\ ~(mw * h <= mh * w)
  <2>1. mh < h
    <3> SUFFICES ASSUME h <= mh PROVE FALSE
      OBVIOUS
    <3>1. w >= mw + 1
      BY <1>3
    <3>2. mh * w >= mh * (mw + 1) /\ mh * (mw + 1) = mh * mw + mh /\ mw * h <= mw * mh
      BY <3>1
    <3> QED
      BY <1>3, <3>2
  <2>2. w * mh <= w * h /\ h * mh = mh * h /\ w * mh = mh * w /\ h * mh <= h * h
    BY <2>1
  <2> QED
    BY <1>3, <2>2 DEF ScaleOf
<1> QED
  BY <1>1, <1>2, <1>3

\* What a usable picture is scaled to: usable, within the ceiling of its
\* rendition, and never larger than the source.
LEMMA ScaledUsable ==
  ASSUME NEW w \in Nat, NEW h \in Nat, UsableDimensions(w, h),
         NEW r \in {"360p", "720p"}, NEW d \in ScaledDimensions(w, h, r)
  PROVE  /\ d[1] \in Nat /\ d[2] \in Nat
         /\ UsableDimensions(d[1], d[2])
         /\ Fits(d[1], d[2], r)
         /\ d[1] <= w /\ d[2] <= h
<1> DEFINE mw == Ceiling(r)[1]
           mh == Ceiling(r)[2]
           s == ScaleOf(w, h, mw, mh)
           Rounded(x, y) == <<Max({EvenDown(x), 2}), Max({EvenDown(y), 2})>>
<1>1. /\ mw \in Nat /\ mh \in Nat /\ mw >= 2 /\ mh >= 2
      /\ mw % 2 = 0 /\ mh % 2 = 0
  BY DEF Ceiling
<1>2. w >= 2 /\ h >= 2 /\ w % 2 = 0 /\ h % 2 = 0
  BY DEF UsableDimensions
<1>3. ScaledDimensions(w, h, r) = {Rounded(x, y) : x \in Floored(w, s), y \in Floored(h, s)}
  BY DEF ScaledDimensions
<1> HIDE DEF mw, mh
<1>4. /\ s = <<s[1], s[2]>> /\ s[1] \in Nat /\ s[2] \in Nat /\ s[2] > 0
      /\ w * s[1] <= mw * s[2] /\ h * s[1] <= mh * s[2]
      /\ w * s[1] <= w * s[2] /\ h * s[1] <= h * s[2]
  BY <1>1, <1>2, ScaleFits
<1> HIDE DEF s, Rounded
<1>5. PICK x \in Floored(w, s), y \in Floored(h, s) : d = Rounded(x, y)
  BY <1>3
<1>6. d[1] = Max({EvenDown(x), 2}) /\ d[2] = Max({EvenDown(y), 2})
  BY <1>5 DEF Rounded
<1>7. x \in Int /\ x <= mw /\ x <= w
  BY <1>1, <1>4, <1>5, FlooredBelow
<1>8. y \in Int /\ y <= mh /\ y <= h
  BY <1>1, <1>4, <1>5, FlooredBelow
<1>9. /\ d[1] \in Nat /\ d[1] >= 2 /\ d[1] % 2 = 0 /\ d[1] <= mw /\ d[1] <= w
  BY <1>1, <1>2, <1>6, <1>7, RoundedDown
<1>10. /\ d[2] \in Nat /\ d[2] >= 2 /\ d[2] % 2 = 0 /\ d[2] <= mh /\ d[2] <= h
  BY <1>1, <1>2, <1>6, <1>8, RoundedDown
<1> QED
  BY <1>9, <1>10 DEF UsableDimensions, Fits, mw, mh

\* The files an encoder uploads, and their lengths.
LEMMA UploadedFiles ==
  ASSUME NEW m \in MediaType, ~EncodeRefuses(m)
  PROVE  \A i \in 1..Len(m.playlist.references) :
           i - 1 \in DOMAIN m.files /\ m.files[i - 1] \in Nat /\ m.files[i - 1] > 0
<1>1. ASSUME NEW i \in 1..Len(m.playlist.references)
      PROVE  i - 1 \in DOMAIN m.files /\ m.files[i - 1] # 0
  BY <1>1 DEF EncodeRefuses, ValidHlsOutput
<1>2. m.files \in FilesType
  BY DEF MediaType
<1>3. \A i \in DOMAIN m.files : m.files[i] \in Nat
  BY <1>2 DEF FilesType
<1> QED
  BY <1>1, <1>3

\* Claim and finding of the bandwidth agree where every duration is usable.
LEMMA BandwidthsAgree ==
  ASSUME NEW m \in MediaType, ~EncodeRefuses(m),
         UsableExtinfs(m.playlist, Len(m.playlist.references))
  PROVE  /\ ClaimedBandwidth(m.playlist, m.files) = ActualBandwidth(m.playlist, m.files)
         /\ ActualBandwidth(m.playlist, m.files) \in Nat
         /\ ActualBandwidth(m.playlist, m.files) >= 1
<1> DEFINE p == m.playlist
           n == Len(p.references)
           values == Extinfs(p)
           rate == [i \in 1..n |-> CeilDiv(8 * m.files[i - 1], p.references[i].extinf)]
           S == {0} \cup {rate[i] : i \in 1..n}
           T == {1} \cup {rate[i] : i \in 1..n}
<1>1. p \in PlaylistType
  BY DEF MediaType
<1>2. /\ values = [i \in 1..n |-> p.references[i].extinf] /\ n \in Nat
      /\ \A i \in 1..n : p.references[i].extinf \in Nat /\ p.references[i].extinf > 0
  BY <1>1, UsableExtinfsAre
<1>3. \A i \in 1..n : m.files[i - 1] \in Nat /\ m.files[i - 1] > 0
  BY UploadedFiles
<1>4. ASSUME NEW i \in 1..n PROVE rate[i] \in Nat /\ rate[i] >= 1
  <2>1. 8 * m.files[i - 1] \in Nat /\ 8 * m.files[i - 1] > 0
    BY <1>3
  <2> QED
    BY <1>2, <2>1, CeilDivEnough
<1>5. n >= 1
  BY <1>2 DEF EncodeRefuses, ValidHlsOutput
<1>6. ActualBandwidth(p, m.files) = Max(S)
  BY <1>2 DEF ActualBandwidth
<1>7. ClaimedBandwidth(p, m.files) = Max(T)
  <2> DEFINE read == Selected(values, {i \in 1..Len(values) : values[i] # NotANumber})
             duration(i) == IF i <= Len(read) THEN read[i] ELSE 6
             counted == {i \in 1..n : duration(i) > 0}
  <2>1. Len(values) = n /\ {i \in 1..Len(values) : values[i] # NotANumber} = 1..n
    BY <1>2 DEF NotANumber
  <2>2. read = [i \in 1..n |-> values[i]]
    <3>1. read = Selected(values, 1..n) /\ n \in Nat
      BY <1>2, <2>1
    <3> HIDE DEF read, values, n
    <3> QED
      BY <3>1, SelectedAll
  <2> HIDE DEF read
  <2>3. Len(read) = n /\ \A i \in 1..n : read[i] = p.references[i].extinf
    <3>1. \A i \in 1..n : values[i] = p.references[i].extinf
      BY <1>2
    <3> HIDE DEF values, n
    <3>2. Len(read) = n
      BY <1>2, <2>2
    <3> QED
      BY <2>2, <3>1, <3>2
  <2>4. \A i \in 1..n : duration(i) = p.references[i].extinf
    BY <1>2, <2>3
  <2>5. counted = 1..n
    BY <1>2, <2>4
  <2>6. {BitsPerSecond(m.files[i - 1], duration(i)) : i \in counted} = {rate[i] : i \in 1..n}
    BY <2>4, <2>5 DEF BitsPerSecond
  <2>7. ClaimedBandwidth(p, m.files)
        = Max({1} \cup {BitsPerSecond(m.files[i - 1], duration(i)) : i \in counted})
    BY DEF ClaimedBandwidth, read
  <2> QED
    BY <2>6, <2>7
<1> HIDE DEF rate
<1>8. /\ Max(S) \in S /\ Max(S) \in Nat /\ \A x \in S : x <= Max(S)
      /\ Max(T) \in T /\ Max(T) \in Nat /\ \A x \in T : x <= Max(T)
  <2>1. n \in Nat /\ \A i \in 1..n : rate[i] \in Nat
    BY <1>2, <1>4
  <2>2. 0 \in Nat /\ S = {0} \cup {rate[i] : i \in 1..n}
    OBVIOUS
  <2>3. 1 \in Nat /\ T = {1} \cup {rate[i] : i \in 1..n}
    OBVIOUS
  <2> HIDE DEF n, S, T
  <2>4. Max(S) \in S /\ Max(S) \in Nat /\ \A x \in S : x <= Max(S)
    BY <2>1, <2>2, GreatestOfSequence
  <2>5. Max(T) \in T /\ Max(T) \in Nat /\ \A x \in T : x <= Max(T)
    BY <2>1, <2>3, GreatestOfSequence
  <2> QED
    BY <2>4, <2>5
<1>9. rate[1] \in S /\ rate[1] \in T /\ rate[1] >= 1
  BY <1>4, <1>5
<1>10. Max(S) >= 1
  <2>1. rate[1] <= Max(S) /\ Max(S) \in Nat
    BY <1>8, <1>9
  <2>2. rate[1] \in Nat /\ rate[1] >= 1
    BY <1>4, <1>5
  <2> HIDE DEF S
  <2> QED
    BY <2>1, <2>2
<1>11. Max(T) = Max(S)
  <2>1. Max(S) \in T
    <3> DEFINE most == Max(S)
    <3>1. most \in {0} \cup {rate[i] : i \in 1..n} /\ most >= 1
      BY <1>8, <1>10
    <3> HIDE DEF most
    <3>2. most \in {rate[i] : i \in 1..n}
      BY <3>1
    <3> QED
      BY <3>2 DEF most
  <2>2. Max(T) \in S \/ Max(T) = 1
    BY <1>8
  <2> QED
    BY <1>8, <1>10, <2>1, <2>2
<1> QED
  BY <1>6, <1>7, <1>8, <1>10, <1>11

\* An intact rendition has one descriptor per reference, in their order.
LEMMA ClaimedLengths ==
  ASSUME media \in MediaType, Uploaded
  PROVE  /\ Len(media.playlist.references) \in Nat
         /\ Len(media.playlist.references) > 0
         /\ Len(result.lengths) = Len(media.playlist.references)
         /\ \A i \in 1..Len(media.playlist.references) :
              result.lengths[i] = media.files[i - 1]
<1> DEFINE n == Len(media.playlist.references)
<1>1. media.playlist.references \in Seq([name: Nat, extinf: Int])
  BY DEF MediaType, PlaylistType
<1>2. n \in Nat /\ media.playlist.references # <<>>
  BY <1>1, LenProperties DEF Uploaded, EncodeRefuses, ValidHlsOutput
<1>3. n > 0
  BY <1>1, <1>2, EmptySeq
<1>4. result.lengths = [i \in 1..n |-> media.files[i - 1]]
  BY DEF Uploaded, Claims
<1> QED
  BY <1>2, <1>3, <1>4

\* What an encoder uploads is of the kind the finalizer reads.
LEMMA UploadTyped ==
  ASSUME NEW m \in MediaType, NEW w \in Nat, NEW h \in Nat
  PROVE  Upload(m, w, h) \in UploadType
<1>1. Encoded(m, w, h) \in Probe
  BY DEF Encoded, Probe, MediaType, PictureType
<1> QED
  BY <1>1 DEF Upload, UploadType, MediaType

\* What the finalizer finds of an intact rendition is what was uploaded.
LEMMA FoundAsUploaded ==
  ASSUME media \in MediaType, Uploaded
  PROVE  /\ stored.playlist = media.playlist /\ stored.files = media.files /\ stored.mime
         /\ result.identity /\ result.descriptors
         /\ result.bandwidth = ClaimedBandwidth(media.playlist, media.files)
         /\ result.codecs = Codecs(stored.probe) /\ KnownCodecs(stored.probe)
         /\ stored.probe.width = result.width /\ stored.probe.height = result.height
         /\ result.width \in Nat /\ result.height \in Nat
         /\ UsableDimensions(result.width, result.height)
         /\ Fits(result.width, result.height, media.picture.rendition)
         /\ result.width <= media.picture.width /\ result.height <= media.picture.height
<1>1. PICK d \in ScaledDimensions(media.picture.width, media.picture.height,
                                  media.picture.rendition) :
        result = Claims(media, d[1], d[2]) /\ stored = Upload(media, d[1], d[2])
  BY DEF Uploaded
<1>2. /\ media.picture.width \in Nat /\ media.picture.height \in Nat
      /\ media.picture.rendition \in {"360p", "720p"}
      /\ UsableDimensions(media.picture.width, media.picture.height)
  BY DEF MediaType, PictureType, Uploaded, EncodeRefuses
<1>3. /\ d[1] \in Nat /\ d[2] \in Nat
      /\ UsableDimensions(d[1], d[2])
      /\ Fits(d[1], d[2], media.picture.rendition)
      /\ d[1] <= media.picture.width /\ d[2] <= media.picture.height
  BY <1>2, ScaledUsable
<1>4. stored.probe = Encoded(media, d[1], d[2]) /\ result.width = d[1] /\ result.height = d[2]
  BY <1>1 DEF Claims, Upload
<1>5. stored.probe.width = d[1] /\ stored.probe.height = d[2]
  BY <1>4 DEF Encoded
<1>6. KnownCodecs(stored.probe)
  BY <1>4 DEF Uploaded, EncodeRefuses, KnownCodecs, Encoded
<1> QED
  BY <1>1, <1>3, <1>4, <1>5, <1>6 DEF Claims, Upload

\* A publishable rendition that arrives as it was uploaded is accepted.
LEMMA IntactIsAccepted ==
  ASSUME media \in MediaType, Uploaded, Publishable(media)
  PROVE  FinalizerAccepts
<1> DEFINE n == Len(media.playlist.references)
<1>1. SourceInspected(media)
  BY MediaAssumption
     DEF Uploaded, EncodeRefuses, SourceUsable, SourceInspected, Readable, MediaType
<1>2. ValidResult(result, media.picture.rendition)
  <2>1. result.bandwidth \in 1..U32Max
    <3>1. result.bandwidth \in Nat /\ result.bandwidth >= 1 /\ result.bandwidth <= U32Max
      BY FoundAsUploaded, BandwidthsAgree DEF Uploaded, Publishable
    <3> QED
      BY <3>1, MediaAssumption
  <2>2. result.codecs # <<>>
    <3>1. \A x : Codecs(x) # <<>>
      BY DEF Codecs
    <3> QED
      BY <3>1, FoundAsUploaded
  <2>3. result.width > 0 /\ result.height > 0
    BY FoundAsUploaded DEF UsableDimensions
  <2> QED
    BY <2>1, <2>2, <2>3, FoundAsUploaded DEF ValidResult
<1>3. ValidObjects(result, stored)
  <2>1. InOrder(media.playlist.references)
    BY DEF Uploaded, EncodeRefuses, ValidHlsOutput
  <2>2. \A i \in 1..n : Readable(media.files[i - 1])
    BY DEF Publishable
  <2>3. \A i \in 1..n : i - 1 \in DOMAIN media.files /\ media.files[i - 1] > 0
    BY UploadedFiles DEF Uploaded
  <2> QED
    BY <2>1, <2>2, <2>3, ClaimedLengths, FoundAsUploaded DEF ValidObjects
<1>4. ActualMediaValid(stored, media)
  <2>1. UsableExtinfs(media.playlist, n)
    BY DEF Publishable
  <2>2. ActualFits(stored.probe, media)
    BY FoundAsUploaded DEF ActualFits
  <2> QED
    BY <2>1, <2>2, ClaimedLengths, FoundAsUploaded DEF ActualMediaValid
<1> QED
  BY <1>1, <1>2, <1>3, <1>4 DEF FinalizerAccepts

\* An intact rendition that is accepted is published as it was claimed.
LEMMA IntactIsConfirmed ==
  ASSUME media \in MediaType, Uploaded, FinalizerAccepts, variant = VariantOf(stored)
  PROVE  variant = [ width |-> result.width, height |-> result.height,
                     bandwidth |-> result.bandwidth, codecs |-> result.codecs ]
<1>1. UsableExtinfs(media.playlist, Len(media.playlist.references))
  BY FoundAsUploaded DEF FinalizerAccepts, ActualMediaValid
<1>2. result.bandwidth = ActualBandwidth(stored.playlist, stored.files)
  BY <1>1, FoundAsUploaded, BandwidthsAgree DEF Uploaded
<1> QED
  BY <1>2, FoundAsUploaded DEF VariantOf

-----------------------------------------------------------------------------
(* The invariant of RenditionMedia.                                        *)

\* A reference has a number and a duration.
LEMMA ReferencesTyped == Reference \subseteq [name: Nat, extinf: Int]
<1>1. (0..MaxReferences) \cup {Foreign} \subseteq Nat
  BY MediaAssumption DEF Foreign
<1>2. Seconds \cup {NoExtinf, NotANumber} \subseteq Int
  BY MediaAssumption DEF NoExtinf, NotANumber
<1> QED
  BY <1>1, <1>2 DEF Reference

\* The sources and the output the model starts from.
LEMMA MediaInitially == MediaInit => MediaInv
<1> SUFFICES ASSUME MediaInit PROVE MediaInv
  OBVIOUS
<1>1. PlainPlaylist \in PlaylistType
  <2> DEFINE plain == CHOOSE s \in Seconds : s > 0
  <2>1. plain \in Seconds
    BY MediaAssumption, Zenon
  <2> HIDE DEF plain
  <2>2. [name |-> 0, extinf |-> plain] \in [name: Nat, extinf: Int]
    BY <2>1, MediaAssumption
  <2>3. PlainPlaylist = [ header |-> TRUE, uri |-> FALSE,
                          references |-> <<[name |-> 0, extinf |-> plain]>> ]
    BY DEF PlainPlaylist, plain
  <2> QED
    BY <2>2, <2>3 DEF PlaylistType
<1>2. MediaPlaylist \subseteq PlaylistType
  <2> DEFINE R == [name: Nat, extinf: Int]
  <2>1. ASSUME NEW n \in 0..MaxReferences, NEW x \in [1..n -> Reference]
        PROVE  x \in Seq(R)
    <3>1. n \in Nat /\ x \in [1..n -> R]
      BY ReferencesTyped, MediaAssumption
    <3> HIDE DEF R
    <3> QED
      BY <3>1
  <2> QED
    BY <2>1 DEF MediaPlaylist, PlaylistType
<1>3. PlainFiles \in FilesType
  <2>1. PlainFiles \in [{0} -> Nat]
    BY MediaAssumption DEF PlainFiles
  <2> QED
    BY <2>1 DEF FilesType
<1>4. Files \subseteq FilesType
  <2> SUFFICES ASSUME NEW n \in 1..MaxReferences, NEW x \in [0..(n - 1) -> Length]
               PROVE  x \in [0..(n - 1) -> Nat] /\ 0..(n - 1) \in SUBSET Nat
    BY DEF Files, FilesType
  <2>1. n \in Nat /\ Length \subseteq Nat
    BY MediaAssumption
  <2>2. 0..(n - 1) \subseteq Nat
    BY <2>1
  <2> QED
    BY <2>1, <2>2
<1>5. PlainPicture \in PictureType /\ Picture \subseteq PictureType
  <2>1. PlainPicture \in PictureType
    BY DEF PlainPicture, PictureType
  <2>2. Rendition \subseteq {"360p", "720p"} /\ Dimension \subseteq Nat
    BY MediaAssumption
  <2>3. Picture \subseteq PictureType
    BY <2>2 DEF PictureType, Picture
  <2> QED
    BY <2>1, <2>3
<1>6. Length \subseteq Nat /\ SourceLimit \in Nat
  BY MediaAssumption
<1>7. media \in MediaType
  <2>1. CASE media \in Media(Length, {PlainPicture}, {PlainPlaylist}, {PlainFiles})
    BY <1>1, <1>3, <1>5, <1>6, <2>1 DEF Media, MediaType
  <2>2. CASE media \in Media({SourceLimit}, Picture, {PlainPlaylist}, {PlainFiles})
    BY <1>1, <1>3, <1>5, <1>6, <2>2 DEF Media, MediaType
  <2>3. CASE media \in Media({SourceLimit}, {PlainPicture}, MediaPlaylist, Files)
    BY <1>2, <1>4, <1>5, <1>6, <2>3 DEF Media, MediaType
  <2> QED
    BY <2>1, <2>2, <2>3 DEF MediaInit
<1> QED
  BY <1>7 DEF MediaInit, MediaInv, Inspected

\* An encoder uploads what it claims, or fails.
LEMMA EncodeChildKeeps == MediaInv /\ EncodeChild => MediaInv'
<1> SUFFICES ASSUME MediaInv, EncodeChild PROVE MediaInv'
  OBVIOUS
<1>1. media' = media /\ media \in MediaType
  BY DEF EncodeChild, MediaInv
<1>2. CASE EncodeRefuses(media)
  BY <1>1, <1>2 DEF EncodeChild, MediaInv, Inspected
<1>3. CASE ~EncodeRefuses(media)
  <2>1. stage' = "finalize" /\ Uploaded'
    BY <1>1, <1>3 DEF EncodeChild, Uploaded
  <2>2. stored' \in UploadType
    <3>1. PICK d \in ScaledDimensions(media.picture.width, media.picture.height,
                                      media.picture.rendition) :
            stored' = Upload(media, d[1], d[2])
      BY <1>3 DEF EncodeChild
    <3>2. d[1] \in Nat /\ d[2] \in Nat
      BY <1>1, <1>3, ScaledUsable DEF EncodeRefuses, MediaType, PictureType
    <3> QED
      BY <1>1, <3>1, <3>2, UploadTyped
  <2> QED
    BY <1>1, <2>1, <2>2 DEF MediaInv, Inspected
<1> QED
  BY <1>2, <1>3

\* What differs from the upload is still an object of its kind.
LEMMA DifferKeeps == MediaInv /\ Differ => MediaInv'
<1> SUFFICES ASSUME MediaInv, Differ PROVE MediaInv'
  OBVIOUS
<1>1. media' = media /\ media \in MediaType /\ stage = "finalize" /\ stage' = stage /\ ~intact'
  BY DEF Differ, MediaInv
<1>2. stored \in UploadType
  BY <1>1 DEF MediaInv, Inspected
<1>3. stored' \in UploadType
  <2>1. CASE UNCHANGED stored
    BY <1>2, <2>1
  <2>2. CASE stored' = [stored EXCEPT !.mime = FALSE]
    BY <1>2, <2>2 DEF UploadType
  <2>3. ASSUME NEW i \in DOMAIN stored.files, NEW n \in Length,
               stored' = [stored EXCEPT !.files[i] = n]
        PROVE  stored' \in UploadType
    <3>1. PICK D \in SUBSET Nat : stored.files \in [D -> Nat]
      BY <1>2 DEF UploadType, FilesType
    <3>2. [stored.files EXCEPT ![i] = n] \in [D -> Nat]
      BY <3>1, MediaAssumption
    <3>3. [stored.files EXCEPT ![i] = n] \in FilesType
      BY <3>2 DEF FilesType
    <3>4. stored' = [stored EXCEPT !.files = [stored.files EXCEPT ![i] = n]]
      BY <2>3
    <3> QED
      BY <1>2, <3>3, <3>4 DEF UploadType
  <2>4. ASSUME NEW k \in Dimension,
               \/ stored' = [stored EXCEPT !.probe.width = k]
               \/ stored' = [stored EXCEPT !.probe.height = k]
        PROVE  stored' \in UploadType
    BY <1>2, <2>4, MediaAssumption DEF UploadType, Probe
  <2>5. ASSUME NEW v \in {"none", "other"}, stored' = [stored EXCEPT !.probe.video = v]
        PROVE  stored' \in UploadType
    BY <1>2, <2>5 DEF UploadType, Probe
  <2>6. ASSUME NEW i \in DOMAIN stored.playlist.references, NEW x \in Reference,
               stored' = [stored EXCEPT !.playlist.references[i] = x]
        PROVE  stored' \in UploadType
    <3> DEFINE refs == stored.playlist.references
               R == [name: Nat, extinf: Int]
    <3>1. x \in R
      BY ReferencesTyped
    <3>2. refs \in Seq(R) /\ i \in 1..Len(refs)
      BY <1>2, LenProperties DEF UploadType, PlaylistType
    <3>3. [refs EXCEPT ![i] = x] \in Seq(R)
      BY <3>1, <3>2, ExceptSeq
    <3>4. stored' = [stored EXCEPT !.playlist = [@ EXCEPT !.references = [refs EXCEPT ![i] = x]]]
      BY <2>6
    <3> HIDE DEF refs
    <3> QED
      BY <1>2, <3>3, <3>4 DEF UploadType, PlaylistType
  <2> QED
    BY <2>1, <2>2, <2>3, <2>4, <2>5, <2>6 DEF Differ, DifferingObject
<1> QED
  BY <1>1, <1>3 DEF MediaInv, Inspected

\* The finalizer's decision is about what it finds.
LEMMA InspectKeeps == MediaInv /\ Inspect => MediaInv'
<1> SUFFICES ASSUME MediaInv, Inspect PROVE MediaInv'
  OBVIOUS
<1>1. UNCHANGED <<media, result, stored, intact>> /\ stage = "finalize"
  BY DEF Inspect
<1>2. FinalizerAccepts' = FinalizerAccepts /\ Uploaded' = Uploaded
      /\ VariantOf(stored)' = VariantOf(stored)
  BY <1>1 DEF FinalizerAccepts, Uploaded
<1>3. media \in MediaType /\ stored \in UploadType /\ (intact => Uploaded)
  BY <1>1 DEF MediaInv, Inspected
<1>4. CASE FinalizerAccepts
  BY <1>1, <1>2, <1>3, <1>4 DEF Inspect, MediaInv, Inspected
<1>5. CASE ~FinalizerAccepts
  BY <1>1, <1>2, <1>3, <1>5 DEF Inspect, MediaInv, Inspected
<1> QED
  BY <1>4, <1>5

\* The inductive invariant of encoder and finalizer, for every source, length,
\* duration and limit.
THEOREM MediaInvariant == MediaSpec => []MediaInv
<1>1. MediaInv /\ [MediaNext]_mediaVars => MediaInv'
  <2> SUFFICES ASSUME MediaInv, [MediaNext]_mediaVars PROVE MediaInv'
    OBVIOUS
  <2>1. CASE UNCHANGED mediaVars
    BY <2>1 DEF mediaVars, MediaInv, Uploaded, FinalizerAccepts
  <2> QED
    BY <2>1, EncodeChildKeeps, DifferKeeps, InspectKeeps DEF MediaNext
<1> QED
  BY <1>1, MediaInitially, PTL DEF MediaSpec

\* An encoder that succeeds has not worked in vain: its ceiling, its rounding
\* and its checks are at least as strict as the finalizer's, but for what
\* Publishable names.
THEOREM EncodesAreAccepted == MediaSpec => []SuccessfulEncodeAccepted
<1>1. MediaInv => SuccessfulEncodeAccepted
  BY IntactIsAccepted DEF MediaInv, Inspected, SuccessfulEncodeAccepted
<1> QED
  BY <1>1, MediaInvariant, PTL

\* The master describes the stored stream, whatever the result claims and
\* however the objects differ from what was uploaded.
THEOREM VariantsAreTruthful == MediaSpec => []VariantTruthful
<1>1. MediaInv => VariantTruthful
  <2> SUFFICES ASSUME MediaInv, stage = "accepted" PROVE VariantTruthful
    BY DEF VariantTruthful
  <2> QED
    BY AcceptedIsTruthful DEF MediaInv, Inspected
<1> QED
  BY <1>1, MediaInvariant, PTL

\* The rate the encoder computes, with defaults and from local files, is the
\* one the finalizer finds in the stored objects.
THEOREM ClaimsAreConfirmed == MediaSpec => []ClaimsConfirmed
<1>1. MediaInv => ClaimsConfirmed
  BY IntactIsConfirmed DEF MediaInv, Inspected, ClaimsConfirmed
<1> QED
  BY <1>1, MediaInvariant, PTL
=============================================================================
