--------------------- MODULE DistributedPublicationProofs ---------------------
(***************************************************************************)
(* Proofs about the publication of a distributed job, for any number of    *)
(* workers, attempts, renditions and segments and any lease duration.      *)
(*                                                                         *)
(* The argument.  An encoder sends an upload only after the one before has *)
(* been answered, and writes under the prefix of its own attempt; so the   *)
(* objects of a rendition appear in order, and its result is the last.     *)
(* The finalizer reads the result of every rendition before it writes the  *)
(* master; so a master refers to whole renditions, which never change, and *)
(* the pointer of the row is only ever set to an attempt with a master.    *)
(***************************************************************************)
EXTENDS DistributedPublication, JobLeaseProofs

\* One encoder: its prefix is its own attempt's, and what it has sent before
\* its last upload is stored.
EncoderInv(a, r) ==
  /\ enc[a][r].prefix \in {0, a}
  /\ enc[a][r].prefix = 0 => enc[a][r].sent = 0
  /\ \A o \in Object :
       /\ objects[a][r][o] \in {0, a}
       /\ objects[a][r][o] # 0 => o <= enc[a][r].sent
       /\ o < enc[a][r].sent => objects[a][r][o] = a

UploadsInOrder == \A a \in Attempt : \A r \in Rendition : EncoderInv(a, r)

\* What a finalizer has read is whole.
ReadIsWhole ==
  \A a \in Attempt :
    /\ fin[a].pc = "reading" =>
         \A r \in Rendition :
           r < fin[a].rendition \/ (r = fin[a].rendition /\ fin[a].step > 1)
             => Whole(a, r)
    /\ fin[a].pc \in {"master", "writing", "locked"} =>
         \A r \in Rendition : Whole(a, r)

MastersWhole == \A a \in masters : \A r \in Rendition : Whole(a, r)

\* The row is completed only with a master in place.
MasterBeforePointer ==
  /\ \A a \in Attempt : fin[a].pc = "locked" => a \in masters
  /\ row.pointer # 0 => row.pointer \in masters

PublicationInv ==
  /\ LeaseInv
  /\ PublicationTypeOK
  /\ UploadsInOrder
  /\ ReadIsWhole
  /\ MastersWhole
  /\ MasterBeforePointer

-----------------------------------------------------------------------------
(* The row.                                                                *)

\* A step of the publication is a step of the table, or leaves it alone.
LEMMA StepOfTable ==
  ASSUME LeaseInv, PublicationTypeOK, PublicationNext
  PROVE  LeaseNext \/ UNCHANGED jobs
  <1> USE PublicationAssumption
  <1>1. CASE \E w \in Worker : Acquire(w)
    BY <1>1 DEF Acquire, LeaseNext, JobMode
  <1>2. CASE OtherStatement
    BY <1>2 DEF OtherStatement, LeaseNext, JobMode
  <1>3. CASE \E a \in Attempt : CompleteAttempt(a)
    <2>1. PICK a \in Attempt : CompleteAttempt(a)
      BY <1>3
    <2>2. CompleteDistributed(TheJob, fin[a].worker, a, a)
      BY <2>1 DEF CompleteAttempt
    <2>3. fin[a].worker \in Worker
      <3>1. fin[a] \in Finalizer
        BY DEF PublicationTypeOK
      <3>2. fin[a].worker \in Worker \cup {NoWorker}
        BY <3>1 DEF Finalizer
      <3>3. row.owner = fin[a].worker /\ Live(TheJob)
        BY <2>2 DEF CompleteDistributed, CanCompleteDistributed, HeldBy, row
      <3>4. row.owner = NoWorker => ~Live(TheJob)
        BY DEF LeaseInv, OwnedOnlyWhileProcessing, row
      <3>5. QED BY <3>2, <3>3, <3>4
    <2>4. a \in 0..MaxAttempts
      BY LeaseAssumption DEF Attempt
    <2>5. QED BY <2>2, <2>3, <2>4 DEF LeaseNext
  <1>4. CASE \E a \in Attempt : LoseOwnership(a)
    BY <1>4 DEF LoseOwnership
  <1>5. CASE \E a \in Attempt : \E r \in Rendition : EncoderStep(a, r)
    BY <1>5, ZenonT(30) DEF EncoderStep, Launch, SendUpload, UploadLands
  <1>6. CASE \E a \in Attempt :
               BeginFinalize(a) \/ ReadObject(a) \/ WriteMaster(a)
                 \/ MasterLands(a) \/ CheckBeforeComplete(a)
    BY <1>6 DEF BeginFinalize, ReadObject, WriteMaster, MasterLands, CheckBeforeComplete
  <1>7. QED
    BY <1>1, <1>2, <1>3, <1>4, <1>5, <1>6 DEF PublicationNext, FinalizerStep

\* So does every step of the specification, with what the table promises.
LEMMA LeaseKept ==
  ASSUME LeaseInv, PublicationTypeOK, [PublicationNext]_publicationVars
  PROVE  LeaseInv' /\ [LeaseNext]_jobs
  <1>1. [LeaseNext]_jobs
    BY StepOfTable DEF publicationVars
  <1>2. QED BY <1>1, NextInv

\* No statement but the completion of a distributed attempt sets the pointer.
LEMMA PointerKept ==
  ASSUME LeaseTypeOK, OtherStatement \/ \E w \in Worker : Acquire(w)
  PROVE  row'.pointer = row.pointer
  <1> USE PublicationAssumption
  <1>1. row \in Row /\ DOMAIN jobs = Job /\ jobs = [j \in Job |-> jobs[j]]
    BY DEF LeaseTypeOK, row
  <1>2. CASE \E w \in Worker, m \in JobMode : AcquireLease(TheJob, w, m)
    BY <1>1, <1>2 DEF AcquireLease, AcquiredRow, row
  <1>3. CASE InsertJob(TheJob) \/ ClaimUpload(TheJob)
    BY <1>1, <1>3 DEF InsertJob, ClaimUpload, row, Row
  <1>4. CASE \E w \in Worker : RenewLease(TheJob, w)
    BY <1>1, <1>4 DEF RenewLease, row, Row
  <1>5. CASE \E w \in Worker : ReleaseForRetry(TheJob, w) \/ Complete(TheJob, w)
                                 \/ FailJob(TheJob, w)
    BY <1>1, <1>5 DEF ReleaseForRetry, Complete, FailJob, EndedRow, row
  <1>6. CASE LeaseTick
    BY <1>1, <1>6 DEF LeaseTick, AgedRow, row, Row
  <1>7. QED
    BY <1>2, <1>3, <1>4, <1>5, <1>6 DEF OtherStatement, Acquire, JobMode

-----------------------------------------------------------------------------
(* The uploads.                                                            *)

\* The constants of the module, as the provers need them.
LEMMA Numbers ==
  /\ Object \subseteq Nat \ {0} /\ Attempt \subseteq Nat \ {0}
  /\ Rendition \subseteq Nat \ {0} /\ 1 \in Rendition
  /\ Result \in Object /\ 1 \in Object /\ Result > 1
  /\ \A o \in Object : o \in Nat /\ o <= Result
  BY PublicationAssumption, LeaseAssumption
     DEF Object, Attempt, Rendition, Result

\* An encoder and its place in the store, one by one.
LEMMA TypedParts ==
  ASSUME PublicationTypeOK, NEW a \in Attempt, NEW r \in Rendition
  PROVE  /\ enc[a][r] \in Encoder /\ fin[a] \in Finalizer
         /\ DOMAIN enc = Attempt /\ DOMAIN enc[a] = Rendition
         /\ DOMAIN fin = Attempt
         /\ DOMAIN objects = Attempt /\ DOMAIN objects[a] = Rendition
         /\ objects[a][r] \in [Object -> 0..MaxAttempts]
  BY DEF PublicationTypeOK

\* A launch gives an encoder the prefix of its own attempt.
LEMMA LaunchOrdered ==
  ASSUME PublicationTypeOK, UploadsInOrder,
         NEW a \in Attempt, NEW r \in Rendition, NEW p \in Payload, Launch(a, r, p)
  PROVE  UploadsInOrder'
  <1> SUFFICES ASSUME NEW b \in Attempt, NEW q \in Rendition
               PROVE  EncoderInv(b, q)'
    BY DEF UploadsInOrder
  <1>1. EncoderInv(b, q) /\ EncoderInv(a, r)
    BY DEF UploadsInOrder
  <1>2. objects' = objects
    BY DEF Launch
  <1>3. CASE b = a /\ q = r
    <2>1. enc'[b][q] = [prefix |-> a, sent |-> 0]
      BY <1>3, TypedParts DEF Launch, ValidPayload
    <2>2. enc[b][q].sent = 0
      BY <1>3 DEF Launch, NoEncoder
    <2>3. QED
      BY <1>1, <1>2, <2>1, <2>2, <1>3, Numbers DEF EncoderInv
  <1>4. CASE ~(b = a /\ q = r)
    <2>1. enc'[b][q] = enc[b][q]
      BY <1>4, TypedParts DEF Launch
    <2>2. QED BY <1>1, <1>2, <2>1 DEF EncoderInv
  <1>5. QED BY <1>3, <1>4

\* An upload is sent only after the one before is stored.
LEMMA SendOrdered ==
  ASSUME PublicationTypeOK, UploadsInOrder,
         NEW a \in Attempt, NEW r \in Rendition, SendUpload(a, r)
  PROVE  UploadsInOrder'
  <1> SUFFICES ASSUME NEW b \in Attempt, NEW q \in Rendition
               PROVE  EncoderInv(b, q)'
    BY DEF UploadsInOrder
  <1>1. EncoderInv(b, q) /\ EncoderInv(a, r)
    BY DEF UploadsInOrder
  <1>2. objects' = objects
    BY DEF SendUpload
  <1>3. CASE b = a /\ q = r
    <2> DEFINE e == enc[a][r]
    <2>1. e \in Encoder
      BY TypedParts
    <2>2. e.prefix = a /\ e.sent \in 0..Result /\ e.sent < Result
      BY <1>1, <2>1 DEF SendUpload, EncoderInv, Encoder
    <2>3. enc'[b][q] = [prefix |-> a, sent |-> e.sent + 1]
      BY <1>3, <2>2, TypedParts DEF SendUpload
    <2>4. e.sent > 0 => objects[a][r][e.sent] = a
      BY <2>2 DEF SendUpload, Uploaded
    <2>5. \A o \in Object : o < e.sent + 1 => objects[a][r][o] = a
      BY <1>1, <2>2, <2>4, Numbers DEF EncoderInv
    <2>6. ASSUME NEW o \in Object
          PROVE  /\ objects[a][r][o] \in {0, a}
                 /\ objects[a][r][o] # 0 => o <= e.sent + 1
      <3>1. o \in Nat /\ e.sent \in Nat
        BY <2>2, Numbers
      <3>2. objects[a][r][o] \in {0, a} /\ (objects[a][r][o] # 0 => o <= e.sent)
        BY <1>1 DEF EncoderInv
      <3>3. QED BY <3>1, <3>2
    <2>7. enc'[b][q].prefix = a /\ enc'[b][q].sent = e.sent + 1 /\ a # 0
      BY <2>3, Numbers
    <2>8. QED
      BY <1>2, <1>3, <2>5, <2>6, <2>7 DEF EncoderInv
  <1>4. CASE ~(b = a /\ q = r)
    <2>1. enc'[b][q] = enc[b][q]
      BY <1>4, TypedParts DEF SendUpload
    <2>2. QED BY <1>1, <1>2, <2>1 DEF EncoderInv
  <1>5. QED BY <1>3, <1>4

\* What an upload changes: one object, of its own attempt and rendition.
LEMMA LandedObject ==
  ASSUME PublicationTypeOK, UploadsInOrder,
         NEW a \in Attempt, NEW r \in Rendition, NEW n \in Object,
         UploadLands(a, r, n),
         NEW b \in Attempt, NEW q \in Rendition, NEW o \in Object
  PROVE  /\ objects'[b][q][o] = IF b = a /\ q = r /\ o = n THEN a ELSE objects[b][q][o]
         /\ n <= enc[a][r].sent
  <1>1. EncoderInv(a, r) /\ enc[a][r] \in Encoder
    BY TypedParts DEF UploadsInOrder
  <1>2. n \in 1..enc[a][r].sent /\ enc[a][r].sent \in 0..Result
    BY <1>1 DEF UploadLands, Encoder
  <1>3. enc[a][r].prefix = a /\ n <= enc[a][r].sent
    BY <1>1, <1>2, Numbers DEF EncoderInv
  <1>4. objects' = [objects EXCEPT ![a][r][n] = a]
    BY <1>3 DEF UploadLands, Uploaded
  <1>5. QED
    BY <1>3, <1>4, TypedParts

\* A landing keeps the order.
LEMMA LandOrdered ==
  ASSUME PublicationTypeOK, UploadsInOrder,
         NEW a \in Attempt, NEW r \in Rendition, NEW n \in Object,
         UploadLands(a, r, n)
  PROVE  UploadsInOrder'
  <1> SUFFICES ASSUME NEW b \in Attempt, NEW q \in Rendition
               PROVE  EncoderInv(b, q)'
    BY DEF UploadsInOrder
  <1>1. EncoderInv(b, q)
    BY DEF UploadsInOrder
  <1>2. enc' = enc
    BY DEF UploadLands
  <1>3. \A o \in Object :
          /\ objects'[b][q][o] \in {0, b}
          /\ objects'[b][q][o] # 0 => o <= enc[b][q].sent
          /\ o < enc[b][q].sent => objects'[b][q][o] = b
    BY <1>1, LandedObject DEF EncoderInv
  <1>4. QED BY <1>1, <1>2, <1>3 DEF EncoderInv

\* A rendition that is whole stays exactly as it is.
LEMMA WholeStays ==
  ASSUME PublicationTypeOK, UploadsInOrder,
         NEW a \in Attempt, NEW r \in Rendition, NEW n \in Object,
         UploadLands(a, r, n),
         NEW b \in Attempt, NEW q \in Rendition, Whole(b, q)
  PROVE  Whole(b, q)' /\ objects'[b][q] = objects[b][q]
  <1>1. \A o \in Object : objects'[b][q][o] = objects[b][q][o]
    BY LandedObject DEF Whole
  <1>2. objects[b][q] \in [Object -> 0..MaxAttempts]
    BY TypedParts
  <1>3. objects'[b][q] \in [Object -> 0..MaxAttempts]
    <2>1. enc[a][r].prefix = a /\ a \in 0..MaxAttempts
      <3>1. EncoderInv(a, r) /\ enc[a][r] \in Encoder
        BY TypedParts DEF UploadsInOrder
      <3>2. n \in 1..enc[a][r].sent /\ enc[a][r].sent \in 0..Result
        BY <3>1 DEF UploadLands, Encoder
      <3>3. QED
        BY <3>1, <3>2, Numbers, LeaseAssumption DEF EncoderInv, Attempt
    <2>2. objects' = [objects EXCEPT ![a][r][n] = a]
      BY <2>1 DEF UploadLands, Uploaded
    <2>3. QED
      BY <2>1, <2>2, TypedParts
  <1>4. QED BY <1>1, <1>2, <1>3 DEF Whole

\* The result of a rendition is stored after all its other objects.
LEMMA ResultMeansWhole ==
  ASSUME PublicationTypeOK, UploadsInOrder,
         NEW a \in Attempt, NEW r \in Rendition, objects[a][r][Result] # 0
  PROVE  Whole(a, r)
  <1>1. EncoderInv(a, r) /\ enc[a][r] \in Encoder
    BY TypedParts DEF UploadsInOrder
  <1>2. enc[a][r].sent = Result
    BY <1>1, Numbers DEF EncoderInv, Encoder, Object
  <1>3. ASSUME NEW o \in Object
        PROVE  objects[a][r][o] = a
    <2>1. o \in Nat /\ Result \in Nat /\ o <= Result /\ Result \in Object
      BY Numbers
    <2>2. CASE o < Result
      BY <1>1, <1>2, <2>2 DEF EncoderInv
    <2>3. CASE o = Result
      BY <1>1, <2>1, <2>3 DEF EncoderInv
    <2>4. QED BY <2>1, <2>2, <2>3
  <1>4. QED BY <1>3 DEF Whole

-----------------------------------------------------------------------------
(* Types.                                                                  *)

\* Moving a finalizer to a place keeps the types.
LEMMA FinalizerTyped ==
  ASSUME fin \in [Attempt -> Finalizer], NEW a \in Attempt,
         NEW pc \in {"none", "working", "reading", "master", "writing", "locked", "over"},
         NEW w \in Worker \cup {NoWorker}, NEW r \in Rendition, NEW s \in Object
  PROVE  [fin EXCEPT ![a] = FinalizerAt(pc, w, r, s)] \in [Attempt -> Finalizer]
  <1>1. FinalizerAt(pc, w, r, s) \in Finalizer
    BY DEF FinalizerAt, Finalizer
  <1>2. QED BY <1>1

\* So does a move of the finalizer's own.
LEMMA MoveTyped ==
  ASSUME fin \in [Attempt -> Finalizer], NEW a \in Attempt,
         NEW pc \in {"none", "working", "reading", "master", "writing", "locked", "over"},
         NEW r \in Rendition, NEW s \in Object, MoveFinalizer(a, pc, r, s)
  PROVE  fin' \in [Attempt -> Finalizer]
  <1>1. fin[a].worker \in Worker \cup {NoWorker}
    <2>1. fin[a] \in Finalizer
      OBVIOUS
    <2>2. QED BY <2>1 DEF Finalizer
  <1>2. QED BY <1>1, FinalizerTyped DEF MoveFinalizer

\* Moving on to the next read stays within the renditions and the objects.
LEMMA ReadTyped ==
  ASSUME PublicationTypeOK, NEW a \in Attempt, ReadObject(a)
  PROVE  fin' \in [Attempt -> Finalizer]
  <1> DEFINE f == fin[a]
  <1>1. f \in Finalizer /\ fin \in [Attempt -> Finalizer]
    BY DEF PublicationTypeOK
  <1>2. f.rendition \in Rendition /\ f.step \in Object
    BY <1>1 DEF Finalizer
  <1>3. CASE f.step < Result
    <2>1. f.step + 1 \in Object
      BY <1>2, <1>3, PublicationAssumption DEF Object, Result
    <2>2. QED BY <1>1, <1>2, <1>3, <2>1, MoveTyped DEF ReadObject
  <1>4. CASE ~(f.step < Result) /\ f.rendition < NRenditions
    <2>1. f.rendition + 1 \in Rendition
      BY <1>2, <1>4, PublicationAssumption DEF Rendition
    <2>2. QED BY <1>1, <1>4, <2>1, Numbers, MoveTyped DEF ReadObject
  <1>5. CASE ~(f.step < Result) /\ ~(f.rendition < NRenditions)
    BY <1>1, <1>2, <1>5, MoveTyped DEF ReadObject
  <1>6. QED BY <1>3, <1>4, <1>5

\* Every step keeps the types.
LEMMA TypesKept ==
  ASSUME LeaseInv, PublicationTypeOK, UploadsInOrder, [PublicationNext]_publicationVars
  PROVE  PublicationTypeOK'
  <1> USE Numbers
  <1>0. LeaseTypeOK'
    BY LeaseKept DEF LeaseInv
  <1>t. fin \in [Attempt -> Finalizer]
    BY DEF PublicationTypeOK
  <1>1. CASE UNCHANGED publicationVars
    BY <1>0, <1>1 DEF publicationVars, PublicationTypeOK
  <1>2. CASE \E w \in Worker : Acquire(w)
    <2>1. PICK w \in Worker : Acquire(w)
      BY <1>2
    <2>2. row.attempt \in 0..MaxAttempts /\ row.attempt < MaxAttempts
      <3>1. row \in Row
        BY PublicationAssumption DEF row, PublicationTypeOK, LeaseTypeOK
      <3>2. QED
        BY <2>1, <3>1 DEF Acquire, AcquireLease, CanAcquire, row, Row
    <2>3. row.attempt + 1 \in Attempt
      BY <2>2, LeaseAssumption DEF Attempt
    <2>4. fin' \in [Attempt -> Finalizer]
      BY <2>1, <2>3, <1>t, FinalizerTyped DEF Acquire
    <2>5. QED BY <1>0, <2>1, <2>4 DEF Acquire, PublicationTypeOK
  <1>3. CASE OtherStatement
    BY <1>0, <1>3 DEF OtherStatement, PublicationTypeOK
  <1>4. CASE \E a \in Attempt : LoseOwnership(a)
    BY <1>0, <1>4 DEF LoseOwnership, PublicationTypeOK
  <1>5. CASE \E a \in Attempt : BeginFinalize(a)
    BY <1>0, <1>5, <1>t, MoveTyped DEF BeginFinalize, PublicationTypeOK
  <1>6. CASE \E a \in Attempt : ReadObject(a)
    BY <1>0, <1>6, ReadTyped DEF ReadObject, PublicationTypeOK
  <1>7. CASE \E a \in Attempt : WriteMaster(a)
    BY <1>0, <1>7, <1>t, MoveTyped DEF WriteMaster, PublicationTypeOK
  <1>8. CASE \E a \in Attempt : MasterLands(a)
    BY <1>0, <1>8 DEF MasterLands, PublicationTypeOK
  <1>9. CASE \E a \in Attempt : CheckBeforeComplete(a)
    BY <1>0, <1>9, <1>t, MoveTyped DEF CheckBeforeComplete, PublicationTypeOK
  <1>10. CASE \E a \in Attempt : CompleteAttempt(a)
    BY <1>0, <1>10, <1>t, MoveTyped DEF CompleteAttempt, PublicationTypeOK
  <1>11. CASE \E a \in Attempt, r \in Rendition, p \in Payload : Launch(a, r, p)
    <2>1. PICK a \in Attempt, r \in Rendition, p \in Payload : Launch(a, r, p)
      BY <1>11
    <2>2. [prefix |-> p.prefix, sent |-> 0] \in Encoder
      BY <2>1, LeaseAssumption, PublicationAssumption
         DEF Launch, ValidPayload, Encoder, Attempt, Result
    <2>3. enc' \in [Attempt -> [Rendition -> Encoder]]
      BY <2>1, <2>2 DEF Launch, PublicationTypeOK
    <2>4. QED BY <1>0, <2>1, <2>3 DEF Launch, PublicationTypeOK
  <1>12. CASE \E a \in Attempt, r \in Rendition : SendUpload(a, r)
    <2>1. PICK a \in Attempt, r \in Rendition : SendUpload(a, r)
      BY <1>12
    <2>2. enc[a][r] \in Encoder
      BY TypedParts
    <2>3. [prefix |-> enc[a][r].prefix, sent |-> enc[a][r].sent + 1] \in Encoder
      BY <2>1, <2>2, PublicationAssumption DEF SendUpload, Encoder, Result
    <2>4. enc' \in [Attempt -> [Rendition -> Encoder]]
      BY <2>1, <2>3 DEF SendUpload, PublicationTypeOK
    <2>5. QED BY <1>0, <2>1, <2>4 DEF SendUpload, PublicationTypeOK
  <1>13. CASE \E a \in Attempt, r \in Rendition, n \in Object : UploadLands(a, r, n)
    <2>1. PICK a \in Attempt, r \in Rendition, n \in Object : UploadLands(a, r, n)
      BY <1>13
    <2>2. enc[a][r] \in Encoder /\ EncoderInv(a, r)
      BY TypedParts DEF UploadsInOrder
    <2>3. n \in 1..enc[a][r].sent /\ enc[a][r].sent \in 0..Result
      BY <2>1, <2>2 DEF UploadLands, Encoder
    <2>4. enc[a][r].prefix = a
      BY <2>2, <2>3 DEF EncoderInv
    <2>5. objects' = [objects EXCEPT ![a][r][n] = a] /\ a \in 0..MaxAttempts
      BY <2>1, <2>4, LeaseAssumption DEF UploadLands, Uploaded, Attempt
    <2>6. objects' \in [Attempt -> [Rendition -> [Object -> 0..MaxAttempts]]]
      BY <2>5 DEF PublicationTypeOK
    <2>7. QED BY <1>0, <2>1, <2>6 DEF UploadLands, PublicationTypeOK
  <1>14. QED
    BY <1>1, <1>2, <1>3, <1>4, <1>5, <1>6, <1>7, <1>8, <1>9, <1>10, <1>11, <1>12, <1>13
       DEF PublicationNext, FinalizerStep, EncoderStep

-----------------------------------------------------------------------------
(* The finalizer.                                                          *)

\* Whatever happens, a whole rendition stays exactly as it is.
LEMMA WholeKept ==
  ASSUME PublicationTypeOK, UploadsInOrder, [PublicationNext]_publicationVars,
         NEW b \in Attempt, NEW q \in Rendition, Whole(b, q)
  PROVE  Whole(b, q)' /\ objects'[b][q] = objects[b][q]
  <1>1. CASE UNCHANGED objects
    BY <1>1 DEF Whole
  <1>2. CASE \E a \in Attempt, r \in Rendition, n \in Object : UploadLands(a, r, n)
    BY <1>2, WholeStays
  <1>3. QED
    BY <1>1, <1>2
       DEF PublicationNext, publicationVars, Acquire, OtherStatement, LoseOwnership,
           FinalizerStep, EncoderStep, Launch, SendUpload, BeginFinalize, ReadObject,
           WriteMaster, MasterLands, CheckBeforeComplete, CompleteAttempt

\* One finalizer's share of ReadIsWhole.
ReadInv(a) ==
  /\ fin[a].pc = "reading" =>
       \A r \in Rendition :
         r < fin[a].rendition \/ (r = fin[a].rendition /\ fin[a].step > 1)
           => Whole(a, r)
  /\ fin[a].pc \in {"master", "writing", "locked"} =>
       \A r \in Rendition : Whole(a, r)

\* A finalizer that stays where it is, with what it has read kept.
LEMMA ReadInvStays ==
  ASSUME NEW a \in Attempt, ReadInv(a), fin'[a] = fin[a],
         \A r \in Rendition : Whole(a, r) => Whole(a, r)'
  PROVE  ReadInv(a)'
  BY DEF ReadInv

\* A read of the result shows the rendition whole; the reads after it move on
\* within what is known to be whole.
LEMMA ReadKeepsWhole ==
  ASSUME PublicationTypeOK, UploadsInOrder,
         NEW a \in Attempt, ReadInv(a), ReadObject(a)
  PROVE  ReadInv(a)'
  <1> DEFINE f == fin[a]
  <1> USE Numbers
  <1>0. f \in Finalizer /\ DOMAIN fin = Attempt
    BY TypedParts
  <1>1. f.pc = "reading" /\ f.rendition \in Rendition /\ f.step \in Object
    BY <1>0 DEF Finalizer, ReadObject
  <1>2. \A r \in Rendition : Whole(a, r)' <=> Whole(a, r)
    BY DEF ReadObject, Whole
  <1>3. Whole(a, f.rendition)
    <2>1. CASE f.step = 1
      <3>1. objects[a][f.rendition][Result] # 0
        BY <2>1 DEF ReadObject, Acceptable, Wanted
      <3>2. QED BY <1>1, <3>1, ResultMeansWhole
    <2>2. CASE f.step # 1
      <3>1. f.step > 1
        BY <1>1, <2>2 DEF Object
      <3>2. QED BY <1>1, <3>1 DEF ReadInv
    <2>3. QED BY <2>1, <2>2
  <1>4. \A r \in Rendition : r <= f.rendition => Whole(a, r)
    <2>1. \A r \in Rendition : r <= f.rendition => r < f.rendition \/ r = f.rendition
      BY <1>1 DEF Rendition
    <2>2. QED BY <1>1, <1>3, <2>1 DEF ReadInv
  <1>5. CASE f.step < Result
    <2>1. fin'[a] = FinalizerAt("reading", f.worker, f.rendition, f.step + 1)
      BY <1>0, <1>5 DEF ReadObject, MoveFinalizer
    <2>2. fin'[a].pc = "reading" /\ fin'[a].rendition = f.rendition
      BY <2>1 DEF FinalizerAt
    <2>3. \A r \in Rendition : r < f.rendition \/ r = f.rendition => r <= f.rendition
      BY <1>1 DEF Rendition
    <2>4. QED BY <1>2, <1>4, <2>2, <2>3 DEF ReadInv
  <1>6. CASE ~(f.step < Result) /\ f.rendition < NRenditions
    <2>1. fin'[a] = FinalizerAt("reading", f.worker, f.rendition + 1, 1)
      BY <1>0, <1>6 DEF ReadObject, MoveFinalizer
    <2>2. fin'[a].pc = "reading" /\ fin'[a].rendition = f.rendition + 1 /\ fin'[a].step = 1
      BY <2>1 DEF FinalizerAt
    <2>3. \A r \in Rendition : r < f.rendition + 1 => r <= f.rendition
      BY <1>1 DEF Rendition
    <2>4. QED BY <1>2, <1>4, <2>2, <2>3 DEF ReadInv
  <1>7. CASE ~(f.step < Result) /\ ~(f.rendition < NRenditions)
    <2>1. fin'[a] = FinalizerAt("master", f.worker, f.rendition, f.step)
      BY <1>0, <1>7 DEF ReadObject, MoveFinalizer
    <2>2. fin'[a].pc = "master"
      BY <2>1 DEF FinalizerAt
    <2>3. \A r \in Rendition : r <= f.rendition
      BY <1>1, <1>7, PublicationAssumption DEF Rendition
    <2>4. QED BY <1>2, <1>4, <2>2, <2>3 DEF ReadInv
  <1>8. QED BY <1>5, <1>6, <1>7

\* A step leaves every finalizer but one alone, and moves that one as follows.
LEMMA FinalizerMoves ==
  ASSUME PublicationTypeOK, [PublicationNext]_publicationVars, NEW a \in Attempt
  PROVE  \/ fin'[a] = fin[a]
         \/ fin'[a].pc \in {"working", "over"}
         \/ fin'[a].pc = "reading" /\ fin'[a].rendition = 1 /\ fin'[a].step = 1
         \/ ReadObject(a)
         \/ fin[a].pc = "master" /\ fin'[a].pc = "writing"
         \/ fin[a].pc = "writing" /\ fin'[a].pc = "locked" /\ a \in masters
  <1>0. DOMAIN fin = Attempt
    BY DEF PublicationTypeOK
  <1>1. CASE UNCHANGED fin
    BY <1>1
  <1>2. CASE \E w \in Worker : Acquire(w)
    BY <1>0, <1>2 DEF Acquire, FinalizerAt
  <1>3. CASE \E b \in Attempt : BeginFinalize(b)
    BY <1>0, <1>3 DEF BeginFinalize, MoveFinalizer, FinalizerAt
  <1>4. CASE \E b \in Attempt : ReadObject(b)
    <2>1. PICK b \in Attempt : ReadObject(b)
      BY <1>4
    <2>2. b # a => fin'[a] = fin[a]
      BY <1>0, <2>1 DEF ReadObject, MoveFinalizer
    <2>3. QED BY <2>1, <2>2
  <1>5. CASE \E b \in Attempt : WriteMaster(b)
    BY <1>0, <1>5 DEF WriteMaster, MoveFinalizer, FinalizerAt
  <1>6. CASE \E b \in Attempt : CheckBeforeComplete(b)
    BY <1>0, <1>6 DEF CheckBeforeComplete, MoveFinalizer, FinalizerAt, MasterStored
  <1>7. CASE \E b \in Attempt : CompleteAttempt(b)
    BY <1>0, <1>7 DEF CompleteAttempt, MoveFinalizer, FinalizerAt
  <1>8. QED
    BY <1>1, <1>2, <1>3, <1>4, <1>5, <1>6, <1>7, ZenonT(30)
       DEF PublicationNext, publicationVars, OtherStatement, LoseOwnership,
           FinalizerStep, EncoderStep, Launch, SendUpload, UploadLands, MasterLands

\* What finalizers have read stays whole, and they go on only with whole renditions.
LEMMA ReadKept ==
  ASSUME PublicationTypeOK, UploadsInOrder, ReadIsWhole, [PublicationNext]_publicationVars
  PROVE  ReadIsWhole'
  <1> SUFFICES ASSUME NEW a \in Attempt PROVE ReadInv(a)'
    BY DEF ReadIsWhole, ReadInv
  <1>1. ReadInv(a)
    BY DEF ReadIsWhole, ReadInv
  <1>2. \A r \in Rendition : Whole(a, r) => Whole(a, r)'
    BY WholeKept
  <1>3. CASE fin'[a] = fin[a]
    BY <1>1, <1>2, <1>3, ReadInvStays
  <1>4. CASE fin'[a].pc \in {"working", "over"}
    BY <1>4 DEF ReadInv
  <1>5. CASE fin'[a].pc = "reading" /\ fin'[a].rendition = 1 /\ fin'[a].step = 1
    <2>1. \A r \in Rendition : ~(r < 1)
      BY DEF Rendition
    <2>2. QED BY <1>5, <2>1 DEF ReadInv
  <1>6. CASE ReadObject(a)
    BY <1>1, <1>6, ReadKeepsWhole
  <1>7. CASE fin[a].pc \in {"master", "writing"} /\ fin'[a].pc \in {"writing", "locked"}
    BY <1>1, <1>2, <1>7 DEF ReadInv
  <1>8. QED BY <1>3, <1>4, <1>5, <1>6, <1>7, FinalizerMoves

-----------------------------------------------------------------------------
(* Masters and the pointer of the row.                                     *)

\* Masters come from the finalizers that write them.
LEMMA MastersMove ==
  ASSUME [PublicationNext]_publicationVars
  PROVE  UNCHANGED masters \/ \E a \in Attempt : MasterLands(a)
  <1>1. ASSUME NEW a \in Attempt, FinalizerStep(a), ~MasterLands(a) PROVE UNCHANGED masters
    BY <1>1 DEF FinalizerStep, BeginFinalize, ReadObject, WriteMaster,
                CheckBeforeComplete, CompleteAttempt
  <1>2. ASSUME NEW a \in Attempt, NEW r \in Rendition, EncoderStep(a, r)
        PROVE  UNCHANGED masters
    BY <1>2 DEF EncoderStep, Launch, SendUpload, UploadLands
  <1>3. ASSUME NEW w \in Worker, Acquire(w) PROVE UNCHANGED masters
    BY <1>3 DEF Acquire
  <1>4. CASE OtherStatement \/ \E a \in Attempt : LoseOwnership(a)
    BY <1>4 DEF OtherStatement, LoseOwnership
  <1>5. QED
    BY <1>1, <1>2, <1>3, <1>4 DEF PublicationNext, publicationVars

\* A master that was written, or is just written, refers to whole renditions.
LEMMA MastersKept ==
  ASSUME PublicationTypeOK, UploadsInOrder, ReadIsWhole, MastersWhole,
         [PublicationNext]_publicationVars
  PROVE  MastersWhole'
  <1> SUFFICES ASSUME NEW a \in masters', NEW r \in Rendition PROVE Whole(a, r)'
    BY DEF MastersWhole
  <1>1. a \in masters \/ \E b \in Attempt : MasterLands(b) /\ a = b
    BY MastersMove DEF MasterLands
  <1>2. a \in Attempt /\ Whole(a, r)
    BY <1>1 DEF MasterLands, ReadIsWhole, MastersWhole, PublicationTypeOK
  <1>3. QED BY <1>2, WholeKept

\* Masters stay, and come only from a finalizer that writes one.
LEMMA MastersGrow ==
  ASSUME [PublicationNext]_publicationVars
  PROVE  masters \subseteq masters'
  BY MastersMove DEF MasterLands

\* The pointer moves only when a completion names the attempt of its caller.
LEMMA PointerMoves ==
  ASSUME LeaseTypeOK, [PublicationNext]_publicationVars
  PROVE  \/ row'.pointer = row.pointer
         \/ \E a \in Attempt : /\ CompleteAttempt(a)
                              /\ row.pointer = 0 /\ row'.pointer = a
  <1>1. CASE UNCHANGED jobs
    BY <1>1 DEF row
  <1>2. CASE OtherStatement \/ \E w \in Worker : Acquire(w)
    BY <1>2, PointerKept
  <1>3. CASE \E a \in Attempt : CompleteAttempt(a)
    <2>1. PICK a \in Attempt : CompleteAttempt(a)
      BY <1>3
    <2>2. jobs = [j \in Job |-> jobs[j]] /\ TheJob \in Job
      BY PublicationAssumption DEF LeaseTypeOK
    <2>3. row'.pointer = a /\ row.pointer = 0
      BY <2>1, <2>2
         DEF CompleteAttempt, CompleteDistributed, CanCompleteDistributed, EndedRow, row
    <2>4. QED BY <2>1, <2>3
  <1>4. QED
    BY <1>1, <1>2, <1>3, ZenonT(30)
       DEF PublicationNext, publicationVars, LoseOwnership, FinalizerStep, EncoderStep,
           Launch, SendUpload, UploadLands, BeginFinalize, ReadObject, WriteMaster,
           MasterLands, CheckBeforeComplete

\* The master is there before the row names its attempt.
LEMMA PointerAfterMaster ==
  ASSUME LeaseTypeOK, PublicationTypeOK, MasterBeforePointer,
         [PublicationNext]_publicationVars
  PROVE  MasterBeforePointer'
  <1>1. ASSUME NEW a \in Attempt, fin'[a].pc = "locked"
        PROVE  a \in masters'
    <2>1. fin'[a] = fin[a] \/ ReadObject(a) \/ a \in masters
      BY <1>1, FinalizerMoves
    <2>2. ~ReadObject(a)
      <3>1. ASSUME NEW pc \in {"reading", "master"}, NEW r, NEW s,
                   MoveFinalizer(a, pc, r, s)
            PROVE  fin'[a].pc # "locked"
        BY <3>1, TypedParts DEF MoveFinalizer, FinalizerAt, PublicationTypeOK
      <3>2. QED BY <1>1, <3>1 DEF ReadObject
    <2>3. a \in masters
      BY <1>1, <2>1, <2>2 DEF MasterBeforePointer
    <2>4. QED BY <2>3, MastersGrow
  <1>2. ASSUME row'.pointer # 0
        PROVE  row'.pointer \in masters'
    <2>1. CASE row'.pointer = row.pointer
      BY <1>2, <2>1, MastersGrow DEF MasterBeforePointer
    <2>2. CASE \E a \in Attempt : CompleteAttempt(a) /\ row'.pointer = a
      BY <2>2, MastersGrow DEF MasterBeforePointer, CompleteAttempt
    <2>3. QED BY <2>1, <2>2, PointerMoves
  <1>3. QED BY <1>1, <1>2 DEF MasterBeforePointer, row

-----------------------------------------------------------------------------
(* The theorems.                                                           *)

\* The invariant holds of a row and a bucket nobody has worked on.
LEMMA PublicationInitInv == PublicationInit => PublicationInv
  <1> SUFFICES ASSUME PublicationInit PROVE PublicationInv
    OBVIOUS
  <1> USE Numbers DEF PublicationInit
  <1>1. LeaseInv
    BY InitInv
  <1>2. NoEncoder \in Encoder /\ FinalizerAt("none", NoWorker, 1, 1) \in Finalizer
        /\ NoEncoder.prefix = 0 /\ NoEncoder.sent = 0
        /\ FinalizerAt("none", NoWorker, 1, 1).pc = "none"
    BY LeaseAssumption, PublicationAssumption
       DEF NoEncoder, Encoder, FinalizerAt, Finalizer, Result
  <1>3. PublicationTypeOK
    BY <1>1, <1>2, LeaseAssumption DEF PublicationTypeOK, LeaseInv
  <1>4. UploadsInOrder
    <2> SUFFICES ASSUME NEW a \in Attempt, NEW r \in Rendition PROVE EncoderInv(a, r)
      BY DEF UploadsInOrder
    <2>1. enc[a][r] = NoEncoder /\ \A o \in Object : objects[a][r][o] = 0
      OBVIOUS
    <2>2. \A o \in Object : ~(o < 0)
      OBVIOUS
    <2>3. QED BY <1>2, <2>1, <2>2 DEF EncoderInv
  <1>5. ReadIsWhole /\ MastersWhole
    BY <1>2 DEF ReadIsWhole, MastersWhole
  <1>6. row.pointer = 0
    <2>1. row \in LegacyRows \cup {AbsentRow}
      BY PublicationAssumption DEF LeaseInit, row
    <2>2. QED BY <2>1, InitialRow
  <1>7. MasterBeforePointer
    BY <1>2, <1>6 DEF MasterBeforePointer
  <1>8. QED BY <1>1, <1>3, <1>4, <1>5, <1>7 DEF PublicationInv

\* Every step keeps the invariant.
LEMMA PublicationNextInv ==
  PublicationInv /\ [PublicationNext]_publicationVars => PublicationInv'
  <1> SUFFICES ASSUME PublicationInv, [PublicationNext]_publicationVars
               PROVE  PublicationInv'
    OBVIOUS
  <1> USE DEF PublicationInv
  <1>1. LeaseInv' /\ PublicationTypeOK'
    BY LeaseKept, TypesKept
  <1>2. UploadsInOrder'
    <2>1. CASE UNCHANGED <<enc, objects>>
      <3> SUFFICES ASSUME NEW a \in Attempt, NEW r \in Rendition PROVE EncoderInv(a, r)'
        BY DEF UploadsInOrder
      <3>1. QED BY <2>1 DEF UploadsInOrder, EncoderInv
    <2>2. CASE \E a \in Attempt : \E r \in Rendition : EncoderStep(a, r)
      BY <2>2, LaunchOrdered, SendOrdered, LandOrdered DEF EncoderStep
    <2>3. QED
      BY <2>1, <2>2
         DEF PublicationNext, publicationVars, Acquire, OtherStatement, LoseOwnership,
             FinalizerStep, BeginFinalize, ReadObject, WriteMaster, MasterLands,
             CheckBeforeComplete, CompleteAttempt
  <1>3. ReadIsWhole' /\ MastersWhole'
    BY ReadKept, MastersKept
  <1>4. MasterBeforePointer'
    BY PointerAfterMaster DEF LeaseInv
  <1>5. QED BY <1>1, <1>2, <1>3, <1>4

\* Rows, encoders, finalizers and the bucket stay consistent for ever.
THEOREM PublicationInvariant == PublicationSpec => []PublicationInv
  <1>1. QED BY PublicationInitInv, PublicationNextInv, PTL DEF PublicationSpec

\* Encoders, finalizers and the bucket keep to their types.
THEOREM PublicationTypes == PublicationSpec => []PublicationTypeOK
  <1>1. PublicationInv => PublicationTypeOK BY DEF PublicationInv
  <1>2. QED BY <1>1, PublicationInvariant, PTL

\* Nothing the distributed attempts do leaves the table of JobLease: all that
\* is proved of the table holds of their row.
THEOREM PublicationUsesTable == PublicationSpec => LeaseSpec
  <1>1. PublicationInit => LeaseInit
    BY DEF PublicationInit
  <1>2. PublicationInv /\ [PublicationNext]_publicationVars => [LeaseNext]_jobs
    BY LeaseKept DEF PublicationInv
  <1>3. QED
    BY <1>1, <1>2, PublicationInvariant, PTL DEF PublicationSpec, LeaseSpec

\* Whoever finds the result of a rendition finds all of the rendition.
THEOREM ResultsAreLast == PublicationSpec => []ResultLast
  <1>1. PublicationInv => ResultLast
    <2> SUFFICES ASSUME PublicationInv, NEW a \in Attempt, NEW r \in Rendition,
                        objects[a][r][Result] # 0, NEW o \in Object
                 PROVE  objects[a][r][o] # 0
      BY DEF ResultLast
    <2>1. objects[a][r][o] = a
      BY ResultMeansWhole DEF PublicationInv, Whole
    <2>2. QED BY <2>1, Numbers
  <1>2. QED BY <1>1, PublicationInvariant, PTL

\* A viewer of a distributed job finds its master and all it leads to.
THEOREM PublishedIsPlayable == PublicationSpec => []PublishedPlayable
  <1>1. PublicationInv => PublishedPlayable
    <2> SUFFICES ASSUME PublicationInv, row.status = "COMPLETED", row.mode = "distributed"
                 PROVE  row.pointer \in masters
                          /\ \A r \in Rendition : Whole(row.pointer, r)
      BY DEF PublishedPlayable
    <2>1. row.attempt > 0 /\ row.pointer = row.attempt
      BY PublicationAssumption
         DEF PublicationInv, LeaseInv, PlaybackResolvable, row
    <2>2. row.pointer # 0
      BY <2>1
    <2>3. QED BY <2>2 DEF PublicationInv, MasterBeforePointer, MastersWhole
  <1>2. QED BY <1>1, PublicationInvariant, PTL

\* What a stored master leads to, the objects of its renditions, is never changed
\* again.
THEOREM MastersNeverChange == PublicationSpec => MasterImmutable
  <1>1. PublicationInv /\ [PublicationNext]_publicationVars =>
          [\A a \in masters : \A r \in Rendition :
             objects'[a][r] = objects[a][r]]_publicationVars
    <2> SUFFICES ASSUME PublicationInv, [PublicationNext]_publicationVars,
                        NEW a \in masters, NEW r \in Rendition
                 PROVE  objects'[a][r] = objects[a][r]
      OBVIOUS
    <2>1. a \in Attempt /\ Whole(a, r)
      BY DEF PublicationInv, PublicationTypeOK, MastersWhole
    <2>2. QED BY <2>1, WholeKept DEF PublicationInv
  <1>2. QED
    BY <1>1, PublicationInvariant, PTL DEF PublicationSpec, MasterImmutable

\* Every stored master is that of a complete attempt.
LEMMA MastersComplete == MastersWhole => CompleteAttempts = masters
  BY DEF MastersWhole, CompleteAttempts

\* A step of the publication as a viewer sees it.
LEMMA ViewerStep ==
  ASSUME PublicationInv, [PublicationNext]_publicationVars
  PROVE  [Atomic!PublicationNext]_(Atomic!publicationVars)
  <1> USE DEF Atomic!PublicationNext, Atomic!publicationVars
  <1>0. CompleteAttempts = masters /\ CompleteAttempts' = masters'
    <2>1. MastersWhole /\ MastersWhole'
      BY MastersKept DEF PublicationInv
    <2>2. MastersWhole' => CompleteAttempts' = masters'
      BY DEF MastersWhole, CompleteAttempts
    <2>3. QED BY <2>1, <2>2, MastersComplete
  <1>1. CASE row'.pointer = row.pointer /\ UNCHANGED masters
    BY <1>0, <1>1 DEF row
  <1>2. CASE \E a \in Attempt : MasterLands(a)
    <2>1. PICK a \in Attempt : MasterLands(a)
      BY <1>2
    <2>2. Atomic!MakeComplete(a)
      BY <1>0, <2>1 DEF MasterLands, Atomic!MakeComplete, row
    <2>3. QED BY <2>2 DEF Attempt
  <1>3. CASE \E a \in Attempt : CompleteAttempt(a) /\ row.pointer = 0 /\ row'.pointer = a
    <2>1. PICK a \in Attempt : CompleteAttempt(a) /\ row.pointer = 0 /\ row'.pointer = a
      BY <1>3
    <2>2. a \in masters
      BY <2>1 DEF CompleteAttempt, PublicationInv, MasterBeforePointer
    <2>3. Atomic!Switch(a)
      BY <1>0, <2>1, <2>2 DEF CompleteAttempt, Atomic!Switch, row
    <2>4. QED BY <2>3 DEF Attempt
  <1>4. UNCHANGED masters \/ \E a \in Attempt : MasterLands(a)
    BY MastersMove
  <1>5. LeaseTypeOK
    BY DEF PublicationInv, LeaseInv
  <1>6. QED BY <1>1, <1>2, <1>3, <1>4, <1>5, PointerMoves

\* Viewers see one switch, to an attempt that is complete and stays complete,
\* and never another.
THEOREM PublicationIsAtomic == PublicationSpec => ImplementsPublication
  <1>1. PublicationInit => Atomic!PublicationInit
    <2> SUFFICES ASSUME PublicationInit PROVE masters = {} /\ row.pointer = 0
      BY DEF Atomic!PublicationInit, CompleteAttempts
    <2>1. row \in LegacyRows \cup {AbsentRow}
      BY PublicationAssumption DEF PublicationInit, LeaseInit, row
    <2>2. QED BY <2>1, InitialRow DEF PublicationInit
  <1>2. PublicationInv /\ [PublicationNext]_publicationVars =>
          [Atomic!PublicationNext]_(Atomic!publicationVars)
    BY ViewerStep
  <1>3. QED
    BY <1>1, <1>2, PublicationInvariant, PTL
       DEF PublicationSpec, ImplementsPublication, Atomic!PublicationSpec

\* What a viewer is shown is complete, down to the last object it leads to.
ShownIsComplete == row.pointer # 0 => row.pointer \in CompleteAttempts

\* What a viewer has been shown stays what is shown.
ShownOnce == [][row.pointer # 0 => row'.pointer = row.pointer]_publicationVars

\* AtomicPublication promises its viewers, and hence these promise theirs, that
\* what has been shown is shown for ever and was complete from the first.
THEOREM SwitchedOnce == PublicationSpec => []ShownIsComplete /\ ShownOnce
  <1>1. Atomic!PublicationInit => ShownIsComplete
    BY DEF Atomic!PublicationInit, ShownIsComplete
  <1>2. ShownIsComplete /\ [Atomic!PublicationNext]_(Atomic!publicationVars) =>
          ShownIsComplete' /\ (row.pointer # 0 => row'.pointer = row.pointer)
    BY DEF ShownIsComplete, row, Atomic!PublicationNext, Atomic!publicationVars,
           Atomic!MakeComplete, Atomic!Switch
  <1>3. ShownIsComplete /\ [Atomic!PublicationNext]_(Atomic!publicationVars) =>
          [row.pointer # 0 => row'.pointer = row.pointer]_publicationVars
    BY <1>2
  <1>4. QED
    BY <1>1, <1>2, <1>3, PublicationIsAtomic, PTL
       DEF ImplementsPublication, Atomic!PublicationSpec, ShownOnce
=============================================================================
