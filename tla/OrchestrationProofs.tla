------------------------ MODULE OrchestrationProofs ------------------------
(***************************************************************************)
(* Proofs about Orchestration and, below, about ResidualScan.              *)
(*                                                                         *)
(* First that the coordinators of one job never let more encoders run than *)
(* the cap, of those they can account for (Accounted), for every number of *)
(* attempts, set of renditions, cap and number of tries, whatever starts   *)
(* take effect late and whatever encoders run without an ARN beside them;  *)
(* and that they launch for one attempt at a time (EncoderSlots).          *)
(*                                                                         *)
(* The argument: an attempt that is about to start, or has started, an     *)
(* execution has found every earlier attempt without a running execution,  *)
(* but for those started too late to be found (Quiet), and the encoders    *)
(* they left fit with its own under the cap (Clear).  An earlier attempt   *)
(* starts nothing in time any more, so what has been found only shrinks.   *)
(*                                                                         *)
(* Then that a job is completed for an execution that succeeded with every *)
(* encoder's output (SuccessInv): a coordinator finalizes an execution of  *)
(* its own attempt that it has seen succeed, and what has succeeded stays  *)
(* so, with its encoders.                                                  *)
(***************************************************************************)
EXTENDS Orchestration, ResidualScan, FiniteSetTheorems, TLAPS

Started(a) == a \notin Foreign /\ exec[a] # "absent"

\* Encoders of attempt k that run and have an ARN in its history.
InHistory(k) == {r \in Planned : child[k][r] = "recorded"}

\* An execution that an observation of attempt k cannot come too early for.
Present(k) == exec[k] # "absent" /\ ~Overdue(k)

\* Encoders of attempt k that can be accounted for, and those of all attempts
\* before n.
Left(k) == {r \in InHistory(k) : ~Overdue(k)}

Older(n) == {e \in Accounted : e[1] < n}

Quiet(n) == \A k \in Attempt : k < n /\ ~Overdue(k) => exec[k] # "running"

Clear(a) == Quiet(a) /\ Cardinality(Older(a)) + Cardinality(Planned) <= Cap

LookingPcs == {"inspecting", "cancelling_prior", "counting"}

\* Where a coordinator can be, given the attempt the row counts: an earlier
\* one is on its way out.
Place(a, c) ==
  /\ a > current => c.pc = "idle"
  /\ a < current /\ c.pc \in Active => lost[a]

\* What a coordinator with record c knows of the attempts before it.
Knows(a, c) ==
  /\ c.pc \in LookingPcs \cup {"cancelling_priors"} => c.prior < a
  /\ c.pc \in LookingPcs /\ ~c.pending =>
       Quiet(c.prior) /\ Cardinality(Older(c.prior)) <= c.residual
  /\ c.pc = "counting" => Terminal(c.prior)
  /\ c.pc \in {"starting", "resolving"} => Clear(a)

\* It was told that there is no execution no more often than describes have
\* missed one.
Misled(c, m) ==
  c.pc = "inspecting" /\ Present(c.prior) => c.notFound <= m[c.prior]

\* The executions that were started in time, or may yet be; the last of them
\* is for Launcher.
Executions ==
  /\ \A a \in Attempt : InTime(a) \/ late[a] = "pending" => a <= current /\ Clear(a)
  /\ \A a \in Attempt : Overdue(a) => exec[a] # "absent"
  /\ \E m \in 0..Attempts :
       /\ m = 0 \/ InTime(m)
       /\ \A b \in Attempt : InTime(b) => b <= m

Children ==
  \A a \in Attempt : \A r \in Planned :
    child[a][r] # "none" => Started(a)

Coordinators ==
  \A a \in Attempt : Place(a, co[a]) /\ Knows(a, co[a]) /\ Misled(co[a], missed)

OrchestrationIInv ==
  OrchestrationTypeOK /\ Executions /\ Children /\ Coordinators

-----------------------------------------------------------------------------
(* Counting encoders.                                                      *)

\* There are finitely many encoders.
LEMMA EncodersFinite ==
  /\ IsFiniteSet(Accounted)
  /\ \A n : IsFiniteSet(Older(n)) /\ Cardinality(Older(n)) \in Nat
  /\ \A k : IsFiniteSet(InHistory(k)) /\ Cardinality(InHistory(k)) \in Nat
  /\ \A k : IsFiniteSet(Left(k)) /\ Cardinality(Left(k)) \in Nat
  /\ \A k : Cardinality(Left(k)) <= Cardinality(InHistory(k))
  /\ \A k : Cardinality(InHistory(k)) <= Cardinality(Planned)
  /\ Cardinality(Planned) \in Nat
PROOF
<1>1. IsFiniteSet(Attempt) /\ IsFiniteSet(Planned)
  BY FS_Interval, OrchestrationAssumption DEF Attempt
<1>2. IsFiniteSet(Attempt \X Planned)
  BY <1>1, FS_Product
<1>3. IsFiniteSet(Accounted)
  BY <1>2, FS_Subset DEF Accounted
<1>4. \A n : Older(n) \in SUBSET Accounted
  BY DEF Older
<1>5. \A k : InHistory(k) \in SUBSET Planned /\ Left(k) \in SUBSET InHistory(k)
  BY DEF InHistory, Left
<1>6. ASSUME NEW n PROVE IsFiniteSet(Older(n)) /\ Cardinality(Older(n)) \in Nat
  BY <1>3, <1>4, FS_Subset, FS_CardinalityType
<1>7. ASSUME NEW k
      PROVE /\ IsFiniteSet(InHistory(k)) /\ Cardinality(InHistory(k)) \in Nat
            /\ Cardinality(InHistory(k)) <= Cardinality(Planned)
  BY <1>1, <1>5, FS_Subset, FS_CardinalityType
<1>8. ASSUME NEW k
      PROVE /\ IsFiniteSet(Left(k)) /\ Cardinality(Left(k)) \in Nat
            /\ Cardinality(Left(k)) <= Cardinality(InHistory(k))
  BY <1>5, <1>7, FS_Subset, FS_CardinalityType
<1>9. Cardinality(Planned) \in Nat
  BY <1>1, FS_CardinalityType
<1> QED
  BY <1>3, <1>6, <1>7, <1>8, <1>9

\* The encoders before the next attempt are those before this one and its own.
LEMMA OlderNext ==
  ASSUME NEW k \in Attempt
  PROVE  Cardinality(Older(k + 1)) <= Cardinality(Older(k)) + Cardinality(Left(k))
PROOF
<1>1. IsFiniteSet(Older(k)) /\ IsFiniteSet(Left(k))
      /\ Cardinality(Older(k)) \in Nat /\ Cardinality(Left(k)) \in Nat
  BY EncodersFinite
<1>2. IsFiniteSet({k}) /\ Cardinality({k}) = 1
  BY FS_Singleton
<1>3. IsFiniteSet({k} \X Left(k)) /\ Cardinality({k} \X Left(k)) = 1 * Cardinality(Left(k))
  BY <1>1, <1>2, FS_Product
<1>4. Older(k + 1) = Older(k) \cup ({k} \X Left(k))
  BY OrchestrationAssumption DEF Older, Accounted, Attempt, Left, InHistory
<1>5. /\ IsFiniteSet(Older(k) \cap ({k} \X Left(k)))
      /\ Cardinality(Older(k) \cap ({k} \X Left(k))) \in Nat
  BY <1>1, FS_Subset, FS_CardinalityType
<1>6. Cardinality(Older(k + 1)) = Cardinality(Older(k)) + Cardinality({k} \X Left(k))
                                  - Cardinality(Older(k) \cap ({k} \X Left(k)))
  BY <1>1, <1>3, <1>4, FS_Union
<1> QED
  BY <1>1, <1>3, <1>5, <1>6, SMT

\* Nothing runs before the first attempt.
LEMMA OlderFirst == Older(1) = {} /\ Cardinality(Older(1)) = 0 /\ Quiet(1)
PROOF
<1>1. Older(1) = {}
  BY OrchestrationAssumption DEF Older, Accounted, Attempt
<1>2. Quiet(1)
  BY OrchestrationAssumption DEF Quiet, Attempt
<1> QED
  BY <1>1, <1>2, FS_EmptySet

-----------------------------------------------------------------------------
(* What a coordinator can become in one step.                              *)

\* A record the coordinator of attempt a may take on, when describes have
\* missed executions m times.
Good(a, c, m) ==
  /\ c \in Coordinator
  /\ c.pc \notin {"idle"}
  /\ Knows(a, c)
  /\ Misled(c, m)

EndPcs == {"returned", "crashed", "cancelling", "polling", "finalizing", "resolving_last"}

\* The constructor of the tries yields a coordinator.
LEMMA TryingType ==
  ASSUME NEW place \in Active \cup {"idle", "returned", "crashed"},
         NEW t \in 0..(StartTries - 1)
  PROVE  /\ Trying(place, t) \in Coordinator /\ Trying(place, t).pc = place
         /\ Trying(place, t).prior = 1
PROOF
<1>1. /\ 1 \in Attempt /\ 0 \in 0..(Confirmations - 1) /\ FALSE \in BOOLEAN /\ 0 \in Nat
  BY OrchestrationAssumption DEF Attempt
<1>2. Trying(place, t) = [ pc |-> place, prior |-> 1, notFound |-> 0, residual |-> 0,
                        pending |-> FALSE, tries |-> t ]
  BY DEF Trying
<1> QED
  BY <1>1, <1>2 DEF Coordinator

\* And so does its use without a try.
LEMMA EnterType ==
  ASSUME NEW place \in Active \cup {"idle", "returned", "crashed"}
  PROVE  /\ Enter(place) \in Coordinator /\ Enter(place).pc = place /\ Enter(place).prior = 1
PROOF
<1>1. 0 \in 0..(StartTries - 1)
  BY OrchestrationAssumption
<1> QED
  BY <1>1, TryingType DEF Enter

\* Ends of an attempt, polling and the last look presuppose nothing.
LEMMA EnterGood ==
  ASSUME NEW a \in Attempt, NEW m, NEW place \in EndPcs
  PROVE  Good(a, Enter(place), m) /\ Enter(place).pc = place
PROOF
<1>1. place \in Active \cup {"idle", "returned", "crashed"}
  BY DEF EndPcs, Active, Calling, Stopping
<1>2. Enter(place) \in Coordinator /\ Enter(place).pc = place
  BY <1>1, EnterType
<1> QED
  BY <1>2 DEF Good, Knows, Misled, EndPcs, LookingPcs

\* The start loop may be entered once the way is clear.
LEMMA StartGood ==
  ASSUME OrchestrationTypeOK, NEW a \in Attempt, NEW m, NEW t \in 0..StartTries,
         Clear(a), a < current => lost[a]
  PROVE  Good(a, StartHead(a, t), m)
PROOF
<1>1. Good(a, Enter("cancelling"), m) /\ Good(a, Enter("resolving_last"), m)
  BY EnterGood DEF EndPcs
<1>2. ASSUME t # StartTries, ~lost[a] PROVE Good(a, Trying("starting", t), m)
  <2>1. t \in 0..(StartTries - 1)
    BY <1>2, OrchestrationAssumption
  <2>2. "starting" \in Active \cup {"idle", "returned", "crashed"}
    BY DEF Active, Calling
  <2>3. Trying("starting", t) \in Coordinator /\ Trying("starting", t).pc = "starting"
    BY <2>1, <2>2, TryingType
  <2> QED
    BY <1>2, <2>3 DEF Good, Knows, Misled, LookingPcs
<1> QED
  BY <1>1, <1>2 DEF StartHead, Checked

\* Earlier attempts are stopped only where there are any.
LEMMA PriorsGood ==
  ASSUME NEW a \in Attempt, a > 1, NEW m
  PROVE  Good(a, Enter("cancelling_priors"), m)
PROOF
<1>1. "cancelling_priors" \in Active \cup {"idle", "returned", "crashed"}
  BY DEF Active, Stopping
<1>2. /\ Enter("cancelling_priors") \in Coordinator
      /\ Enter("cancelling_priors").pc = "cancelling_priors"
      /\ Enter("cancelling_priors").prior = 1
  BY <1>1, EnterType
<1> QED
  BY <1>2 DEF Good, Knows, Misled, LookingPcs, Attempt

\* What a head that guards the next observation presupposes.
LEMMA InspectionGood ==
  ASSUME NEW a \in Attempt, NEW k \in Attempt, k < a, NEW m,
         NEW n \in 0..(Confirmations - 1), NEW res \in Nat, NEW pend \in BOOLEAN,
         ~pend => Quiet(k) /\ Cardinality(Older(k)) <= res,
         Present(k) => n <= m[k]
  PROVE  Good(a, InspectionHead(a, k, n, res, pend), m)
PROOF
<1>0. /\ 0 \in 0..(StartTries - 1) /\ 1 \in Attempt /\ 0 \in 0..(Confirmations - 1)
      /\ 0 \in Nat /\ FALSE \in BOOLEAN
  BY OrchestrationAssumption DEF Attempt
<1>1. Good(a, Looking("inspecting", k, n, res, pend), m)
  <2>1. Looking("inspecting", k, n, res, pend) =
          [ pc |-> "inspecting", prior |-> k, notFound |-> n, residual |-> res,
            pending |-> pend, tries |-> 0 ]
    BY DEF Looking
  <2>2. Looking("inspecting", k, n, res, pend) \in Coordinator
    BY <1>0, <2>1 DEF Coordinator, Active, Calling, Stopping
  <2> QED
    BY <2>1, <2>2 DEF Good, Knows, Misled, LookingPcs
<1>2. Good(a, Enter("cancelling_priors"), m)
  BY PriorsGood DEF Attempt
<1> QED
  BY <1>1, <1>2 DEF InspectionHead, Checked

\* A pass may always begin anew.
LEMMA BoundGood ==
  ASSUME OrchestrationTypeOK, NEW a \in Attempt, a > 1
  PROVE  Good(a, BoundHead(a), missed)
PROOF
<1>1. /\ 1 \in Attempt /\ 0 \in 0..(Confirmations - 1) /\ 0 \in Nat /\ FALSE \in BOOLEAN
      /\ missed[1] \in 0..Misses
  BY OrchestrationAssumption DEF Attempt, OrchestrationTypeOK
<1>2. 0 <= missed[1] /\ 1 < a /\ Cardinality(Older(1)) <= 0 /\ Quiet(1)
  BY <1>1, OlderFirst, OrchestrationAssumption DEF Attempt
<1>3. Good(a, InspectionHead(a, 1, 0, 0, FALSE), missed)
  BY <1>1, <1>2, InspectionGood
<1> QED
  BY <1>3 DEF BoundHead

\* An earlier attempt without a running execution has been counted, or the
\* pass has learnt that it does not count.
LEMMA NextPriorGood ==
  ASSUME OrchestrationTypeOK, NEW a \in Attempt, NEW n \in Nat, NEW unknown \in BOOLEAN,
         co[a].pc \in LookingPcs, Knows(a, co[a]), a < current => lost[a],
         ~unknown => /\ ~Overdue(co[a].prior) => exec[co[a].prior] # "running"
                     /\ Cardinality(Left(co[a].prior)) <= n
  PROVE  Good(a, NextPrior(a, n, unknown), missed)
PROOF
<1> DEFINE k == co[a].prior
           found == co[a].residual + n
           pending == co[a].pending \/ unknown
<1>0. /\ k \in Attempt /\ co[a].residual \in Nat /\ co[a].pending \in BOOLEAN
  BY DEF OrchestrationTypeOK, Coordinator
<1>1. /\ k \in Attempt /\ k < a /\ k \in Nat /\ a \in Nat
      /\ co[a].residual \in Nat /\ co[a].pending \in BOOLEAN
  <2>1. k < a
    BY DEF Knows
  <2> QED
    BY <1>0, <2>1 DEF Attempt
<1>2. found \in Nat /\ pending \in BOOLEAN /\ a > 1
  BY <1>1 DEF Attempt
<1>3. ASSUME ~pending PROVE Quiet(k + 1) /\ Cardinality(Older(k + 1)) <= found
  <2>1. /\ Quiet(k) /\ Cardinality(Older(k)) <= co[a].residual
        /\ ~Overdue(k) => exec[k] # "running"
        /\ Cardinality(Left(k)) <= n
    BY <1>3 DEF Knows
  <2>2. Quiet(k + 1)
    BY <1>1, <2>1 DEF Quiet, Attempt
  <2>3. Cardinality(Older(k)) \in Nat /\ Cardinality(Left(k)) \in Nat
        /\ Cardinality(Older(k + 1)) \in Nat
    BY EncodersFinite
  <2>4. Cardinality(Older(k + 1)) <= Cardinality(Older(k)) + Cardinality(Left(k))
    BY <1>1, OlderNext
  <2> QED
    BY <1>1, <2>1, <2>2, <2>3, <2>4, SMT
<1>4. CASE k < a - 1
  <2>1. k + 1 \in Attempt /\ k + 1 < a /\ 0 \in 0..(Confirmations - 1)
    BY <1>1, <1>4, OrchestrationAssumption DEF Attempt
  <2>2. missed[k + 1] \in 0..Misses
    BY <2>1 DEF OrchestrationTypeOK
  <2>3. 0 <= missed[k + 1]
    BY <2>2, OrchestrationAssumption
  <2>4. Good(a, InspectionHead(a, k + 1, 0, found, pending), missed)
    BY <1>2, <1>3, <2>1, <2>3, InspectionGood
  <2> QED
    BY <1>4, <2>4 DEF NextPrior
<1>5. CASE ~(k < a - 1) /\ BoundHolds(found, pending)
  <2>1. a = k + 1
    BY <1>1, <1>5
  <2>2. Clear(a)
    <3>1. ~pending /\ found + Cardinality(Planned) <= Cap
      BY <1>5 DEF BoundHolds
    <3>2. Quiet(a) /\ Cardinality(Older(a)) <= found
      BY <1>3, <2>1, <3>1
    <3>3. Cardinality(Older(a)) \in Nat /\ Cardinality(Planned) \in Nat /\ Cap \in Nat
      BY EncodersFinite, OrchestrationAssumption
    <3>4. Cardinality(Older(a)) + Cardinality(Planned) <= Cap
      BY <1>2, <3>1, <3>2, <3>3, SMT
    <3> QED
      BY <3>2, <3>4 DEF Clear
  <2>3. 0 \in 0..StartTries
    BY OrchestrationAssumption
  <2>4. Good(a, StartHead(a, 0), missed)
    BY <2>2, <2>3, StartGood
  <2> QED
    BY <1>5, <2>4 DEF NextPrior
<1>6. CASE ~(k < a - 1) /\ ~BoundHolds(found, pending)
  BY <1>2, <1>6, BoundGood DEF NextPrior
<1> QED
  BY <1>4, <1>5, <1>6

-----------------------------------------------------------------------------
(* What a step may change without touching what is known.                  *)

ExecMoves ==
  /\ exec' \in [Attempt -> {"absent", "running", "succeeded", "failed"}]
  /\ late' \in [Attempt -> {"no", "pending", "overdue"}]
  /\ \A k \in Attempt :
       \/ exec'[k] = exec[k] /\ late'[k] = late[k]
       \/ /\ exec[k] = "running" /\ exec'[k] \in {"succeeded", "failed"}
          /\ late'[k] = late[k]
       \/ /\ exec[k] = "absent" /\ ~Overdue(k)
          /\ \/ /\ exec'[k] = "absent" /\ late'[k] = "pending"
                /\ k <= current /\ Clear(k)
             \/ exec'[k] = "running" /\ late'[k] = "overdue"
             \/ /\ exec'[k] = "running" /\ late'[k] = "no"
                /\ k = current /\ Clear(k)

ChildMoves ==
  /\ child' \in [Attempt -> [Planned -> EncoderState]]
  /\ \A k \in Attempt : \A r \in Planned :
       \/ child'[k][r] = child[k][r]
       \/ Started(k) /\ exec[k] = "running" /\ child'[k][r] # "none"
       \/ Started(k) /\ child'[k][r] \notin {"none", "recorded"}

RestMoves ==
  /\ current' = current
  /\ done' \in 0..Attempts
  /\ lost' \in [Attempt -> BOOLEAN] /\ expired' \in [Attempt -> BOOLEAN]
  /\ missed' \in [Attempt -> 0..Misses]
  /\ \A k \in Attempt : (lost[k] => lost'[k]) /\ missed[k] <= missed'[k]

\* Every coordinator has a record that fits what held before the step.
CoMoves ==
  /\ co' \in [Attempt -> Coordinator]
  /\ \A b \in Attempt : Place(b, co'[b]) /\ Knows(b, co'[b]) /\ Misled(co'[b], missed')

\* What has been found about the attempts before n stays true.
LEMMA QuietKeeps ==
  ASSUME OrchestrationTypeOK, ExecMoves, ChildMoves,
         NEW n \in Attempt, n <= current, Quiet(n)
  PROVE  Quiet(n)' /\ Cardinality(Older(n)') <= Cardinality(Older(n))
PROOF
<1>1. \A k \in Attempt : k < n => k # current
  BY OrchestrationAssumption DEF OrchestrationTypeOK, Attempt
<1>2. \A k \in Attempt : k < n /\ ~Overdue(k)' =>
        ~Overdue(k) /\ exec[k] # "running" /\ exec'[k] # "running"
  BY <1>1 DEF ExecMoves, Quiet, Overdue
<1>3. \A k \in Attempt : k < n /\ ~Overdue(k)' => InHistory(k)' \subseteq InHistory(k)
  BY <1>2 DEF ChildMoves, InHistory
<1>4. Quiet(n)'
  BY <1>2 DEF Quiet
<1>5. Older(n)' \subseteq Older(n)
  <2> SUFFICES ASSUME NEW e \in Older(n)' PROVE e \in Older(n)
    OBVIOUS
  <2>1. /\ e \in Attempt \X Planned /\ ~Overdue(e[1])' /\ e[2] \in InHistory(e[1])'
        /\ e[1] < n
    BY DEF Older, Accounted, InHistory
  <2>2. e[1] \in Attempt
    BY <2>1
  <2>3. ~Overdue(e[1]) /\ e[2] \in InHistory(e[1])
    BY <1>2, <1>3, <2>1, <2>2
  <2> QED
    BY <2>1, <2>3 DEF Older, Accounted, InHistory
<1> QED
  BY <1>4, <1>5, EncodersFinite, FS_Subset

\* And they are finitely many after a step.
LEMMA OlderFinite ==
  ASSUME NEW n
  PROVE  IsFiniteSet(Older(n)') /\ Cardinality(Older(n)') \in Nat
PROOF
<1>1. IsFiniteSet(Attempt) /\ IsFiniteSet(Planned)
  BY FS_Interval, OrchestrationAssumption DEF Attempt
<1>2. IsFiniteSet(Attempt \X Planned) /\ Older(n)' \subseteq Attempt \X Planned
  BY <1>1, FS_Product DEF Older, Accounted
<1> QED
  BY <1>2, FS_Subset, FS_CardinalityType

\* A clear way stays clear.
LEMMA ClearKeeps ==
  ASSUME OrchestrationTypeOK, ExecMoves, ChildMoves,
         NEW n \in Attempt, n <= current, Clear(n)
  PROVE  Clear(n)'
PROOF
<1>1. Quiet(n)' /\ Cardinality(Older(n)') <= Cardinality(Older(n))
  BY QuietKeeps DEF Clear
<1>2. Cardinality(Older(n)) + Cardinality(Planned) <= Cap
  BY DEF Clear
<1>3. Cardinality(Older(n)') \in Nat
  BY OlderFinite
<1>4. Cardinality(Older(n)) \in Nat /\ Cardinality(Planned) \in Nat /\ Cap \in Nat
  BY EncodersFinite, OrchestrationAssumption
<1>5. Cardinality(Older(n)') + Cardinality(Planned) <= Cap
  BY <1>1, <1>2, <1>3, <1>4, SMT
<1> QED
  BY <1>1, <1>5 DEF Clear

\* Executions started in time stay bounded, and a new one is the last.
LEMMA ExecutionsKeep ==
  ASSUME OrchestrationTypeOK, Executions, ExecMoves, ChildMoves, RestMoves
  PROVE  Executions'
PROOF
<1>1. \A k \in Attempt : InTime(k)' => InTime(k) \/ (k = current /\ Clear(k))
  BY DEF ExecMoves, InTime, Overdue
<1>2. \A k \in Attempt : InTime(k) => InTime(k)'
  BY DEF ExecMoves, InTime, Overdue
<1>3. \A k \in Attempt : late'[k] = "pending" =>
        late[k] = "pending" \/ (k <= current /\ Clear(k))
  BY DEF ExecMoves
<1>4. \A k \in Attempt : Overdue(k)' => exec'[k] # "absent"
  BY DEF ExecMoves, Executions, Overdue
<1>5. current \in 0..Attempts /\ Attempts \in Nat /\ current' = current
  BY OrchestrationAssumption DEF OrchestrationTypeOK, RestMoves
<1>6. ASSUME NEW a \in Attempt, InTime(a)' \/ late'[a] = "pending"
      PROVE  a <= current /\ Clear(a)'
  <2>1. a <= current /\ Clear(a)
    BY <1>1, <1>3, <1>5, <1>6 DEF Executions
  <2> QED
    BY <2>1, ClearKeeps
<1>7. PICK m \in 0..Attempts :
        /\ m = 0 \/ InTime(m)
        /\ \A b \in Attempt : InTime(b) => b <= m
  BY DEF Executions
<1>8. \E x \in 0..Attempts :
        /\ x = 0 \/ InTime(x)'
        /\ \A b \in Attempt : InTime(b)' => b <= x
  <2>1. CASE \E a \in Attempt : InTime(a)' /\ ~InTime(a)
    <3>1. PICK a \in Attempt : InTime(a)' /\ ~InTime(a)
      BY <2>1
    <3>2. a = current
      BY <1>1, <3>1
    <3>3. \A b \in Attempt : InTime(b)' => b <= a
      BY <1>6, <3>2
    <3>4. a \in 0..Attempts
      BY <1>5, <3>2
    <3> QED
      BY <3>1, <3>3, <3>4
  <2>2. CASE \A a \in Attempt : InTime(a)' => InTime(a)
    <3>1. m = 0 \/ InTime(m)'
      BY <1>2, <1>7, OrchestrationAssumption DEF Attempt
    <3> QED
      BY <1>7, <2>2, <3>1
  <2> QED
    BY <2>1, <2>2
<1>9. \A a \in Attempt : (InTime(a) \/ late[a] = "pending")' => a <= current' /\ Clear(a)'
  BY <1>5, <1>6
<1> QED
  BY <1>4, <1>8, <1>9 DEF Executions

\* Encoders belong to started executions.
LEMMA ChildrenKeep ==
  ASSUME OrchestrationTypeOK, Children, ExecMoves, ChildMoves
  PROVE  Children'
PROOF
<1>1. \A k \in Attempt : Started(k) => Started(k)'
  BY DEF ExecMoves, Started
<1> SUFFICES ASSUME NEW a \in Attempt, NEW r \in Planned, child'[a][r] # "none"
             PROVE  Started(a)'
  BY DEF Children
<1>2. Started(a)
  BY DEF ChildMoves, Children
<1> QED
  BY <1>1, <1>2

\* What coordinators know stays true.
LEMMA CoordinatorsKeep ==
  ASSUME OrchestrationTypeOK, CoMoves, ExecMoves, ChildMoves, RestMoves
  PROVE  Coordinators'
PROOF
<1> SUFFICES ASSUME NEW b \in Attempt
             PROVE  (Place(b, co[b]) /\ Knows(b, co[b]) /\ Misled(co[b], missed))'
  BY DEF Coordinators
<1> DEFINE c == co'[b]
<1>1. c \in Coordinator /\ Place(b, c) /\ Knows(b, c) /\ Misled(c, missed')
  BY DEF CoMoves
<1>2. current \in Nat /\ b \in Nat /\ current' = current
  BY OrchestrationAssumption DEF OrchestrationTypeOK, Attempt, RestMoves
<1>3. Place(b, co[b])'
  BY <1>1, <1>2 DEF Place, RestMoves
<1>4. c.prior \in Attempt /\ c.prior \in Nat
  BY <1>1 DEF Coordinator, Attempt
<1>5. c.pc \in LookingPcs \cup {"cancelling_priors", "starting", "resolving"} => b <= current
  BY <1>1, <1>2 DEF Place, LookingPcs
<1>6. c.pc \in LookingPcs \cup {"cancelling_priors"} => c.prior < b
  BY <1>1 DEF Knows
<1>7. c.pc \in LookingPcs => c.prior <= current /\ c.prior # current
  BY <1>2, <1>4, <1>5, <1>6
<1>8. c.pc \in LookingPcs /\ ~c.pending =>
        (Quiet(co[b].prior) /\ Cardinality(Older(co[b].prior)) <= co[b].residual)'
  <2> SUFFICES ASSUME c.pc \in LookingPcs, ~c.pending
               PROVE  (Quiet(co[b].prior) /\ Cardinality(Older(co[b].prior)) <= co[b].residual)'
    OBVIOUS
  <2>1. PICK n \in Attempt : n = c.prior
    BY <1>4
  <2>2. Quiet(n) /\ Cardinality(Older(n)) <= c.residual /\ n <= current
    BY <1>1, <1>7, <2>1 DEF Knows
  <2>3. Quiet(n)' /\ Cardinality(Older(n)') <= Cardinality(Older(n))
    BY <2>2, QuietKeeps
  <2>4. IsFiniteSet(Older(n)') /\ Cardinality(Older(n)') \in Nat /\ Cardinality(Older(n)) \in Nat
    BY OlderFinite, EncodersFinite
  <2>5. Cardinality(Older(n)') <= c.residual
    BY <1>1, <2>2, <2>3, <2>4, SMT DEF Coordinator
  <2>6. Older(co[b].prior)' = Older(n)' /\ (Quiet(co[b].prior)' <=> Quiet(n)')
    BY <2>1 DEF Older, Quiet
  <2> QED
    BY <2>3, <2>5, <2>6
<1>9. c.pc = "counting" => exec'[c.prior] \in {"succeeded", "failed"}
  BY <1>1, <1>4 DEF Knows, Terminal, ExecMoves
<1>10. c.pc \in {"starting", "resolving"} => Clear(b)'
  BY <1>1, <1>5, ClearKeeps DEF Knows
<1>11. c.pc = "inspecting" => (Present(co[b].prior)' => c.notFound <= missed'[c.prior])
  <2> SUFFICES ASSUME c.pc = "inspecting", Present(co[b].prior)'
               PROVE  c.notFound <= missed'[c.prior]
    OBVIOUS
  <2>1. PICK n \in Attempt : n = c.prior
    BY <1>4
  <2>2. n # current /\ Present(n)'
    BY <1>7, <2>1 DEF LookingPcs, Present, Overdue
  <2>3. Present(n)
    BY <2>2 DEF Present, ExecMoves, Overdue
  <2> QED
    BY <1>1, <2>1, <2>3 DEF Misled
<1>12. Knows(b, co[b])'
  BY <1>6, <1>8, <1>9, <1>10, Zenon DEF Knows, Terminal
<1>13. Misled(co[b], missed)'
  BY <1>11 DEF Misled
<1> QED
  BY <1>3, <1>12, <1>13

\* So a step made of such moves keeps the invariant.
LEMMA InvariantKeeps ==
  ASSUME OrchestrationIInv, CoMoves, ExecMoves, ChildMoves, RestMoves
  PROVE  OrchestrationIInv'
PROOF
<1>1. OrchestrationTypeOK'
  BY DEF OrchestrationIInv, OrchestrationTypeOK, CoMoves, ExecMoves, ChildMoves,
         RestMoves
<1> QED
  BY <1>1, ExecutionsKeep, ChildrenKeep, CoordinatorsKeep DEF OrchestrationIInv

-----------------------------------------------------------------------------
(* What the steps of coordinators and calls have in common.                *)

\* One coordinator takes on a record that fits.
LEMMA CoStep ==
  ASSUME OrchestrationTypeOK, Coordinators,
         \A k \in Attempt : missed[k] <= missed'[k],
         missed' \in [Attempt -> 0..Misses],
         NEW a \in Attempt, NEW place \in Active, NEW c, Steps(a, place, c),
         Good(a, c, missed) \/ Good(a, c, missed')
  PROVE  CoMoves
PROOF
<1>1. c \in Coordinator /\ Knows(a, c) /\ c.pc # "idle"
  BY DEF Good
<1>2. co[a].pc = place /\ co' = [co EXCEPT ![a] = c] /\ co \in [Attempt -> Coordinator]
  BY DEF Steps, OrchestrationTypeOK
<1>3. co' \in [Attempt -> Coordinator] /\ co'[a] = c
      /\ \A b \in Attempt : b # a => co'[b] = co[b]
  BY <1>1, <1>2
<1>4. Place(a, c)
  BY <1>1, <1>2 DEF Coordinators, Place, Active, Calling, Stopping
<1>5. ASSUME NEW x \in Coordinator, Misled(x, missed) PROVE Misled(x, missed')
  <2>1. x.prior \in Attempt /\ x.notFound \in Nat
    BY <1>5, OrchestrationAssumption DEF Coordinator
  <2>2. missed[x.prior] \in Nat /\ missed'[x.prior] \in Nat /\ missed[x.prior] <= missed'[x.prior]
    BY <2>1, OrchestrationAssumption DEF OrchestrationTypeOK
  <2> QED
    BY <1>5, <2>1, <2>2 DEF Misled
<1>6. Misled(c, missed')
  BY <1>1, <1>5 DEF Good
<1>7. ASSUME NEW b \in Attempt PROVE Place(b, co'[b]) /\ Knows(b, co'[b]) /\ Misled(co'[b], missed')
  <2>1. CASE b = a
    BY <1>1, <1>3, <1>4, <1>6, <2>1
  <2>2. CASE b # a
    BY <1>2, <1>3, <1>5, <2>2 DEF Coordinators
  <2> QED
    BY <2>1, <2>2
<1> QED
  BY <1>3, <1>7 DEF CoMoves

\* No coordinator moves.
LEMMA CoSame ==
  ASSUME OrchestrationTypeOK, Coordinators, UNCHANGED <<co, missed>>
  PROVE  CoMoves
PROOF
  BY DEF OrchestrationTypeOK, Coordinators, CoMoves

\* Executions and encoders stay as they are.
LEMMA ExecSame == ASSUME OrchestrationTypeOK, UNCHANGED <<exec, late>> PROVE ExecMoves
PROOF
  BY DEF OrchestrationTypeOK, ExecMoves

\* The same for encoders.
LEMMA ChildSame == ASSUME OrchestrationTypeOK, UNCHANGED child PROVE ChildMoves
PROOF
  BY DEF OrchestrationTypeOK, ChildMoves

\* The row, the signals and the misses stay as they are.
LEMMA RestSame ==
  ASSUME OrchestrationTypeOK, UNCHANGED <<envVars, missed>>
  PROVE  RestMoves
PROOF
<1>1. \A k \in Attempt : missed[k] \in Nat
  BY OrchestrationAssumption DEF OrchestrationTypeOK
<1> QED
  BY <1>1 DEF OrchestrationTypeOK, RestMoves, envVars

\* A describe may add a miss.
LEMMA DescribeMoves ==
  ASSUME OrchestrationTypeOK, NEW k \in Attempt, Described(k) \/ NotDescribed(k)
  PROVE  /\ missed' \in [Attempt -> 0..Misses]
         /\ \A b \in Attempt : missed[b] <= missed'[b]
PROOF
<1>1. Misses \in Nat /\ missed \in [Attempt -> 0..Misses]
  BY OrchestrationAssumption DEF OrchestrationTypeOK
<1>2. CASE UNCHANGED missed
  BY <1>1, <1>2
<1>3. CASE missed[k] < Misses /\ missed' = [missed EXCEPT ![k] = @ + 1]
  <2>1. missed[k] + 1 \in 0..Misses
    BY <1>1, <1>3
  <2>2. \A b \in Attempt : missed'[b] = IF b = k THEN missed[k] + 1 ELSE missed[b]
    BY <1>1, <1>3
  <2>3. \A b \in Attempt : missed[b] \in Nat
    BY <1>1
  <2> QED
    BY <1>1, <1>3, <2>1, <2>2, <2>3
<1> QED
  BY <1>2, <1>3 DEF Described, NotDescribed

\* A describe leaves the row and the signals as they are.
LEMMA RestDescribed ==
  ASSUME OrchestrationTypeOK, NEW k \in Attempt, Described(k) \/ NotDescribed(k),
         UNCHANGED envVars
  PROVE  RestMoves
PROOF
  BY DescribeMoves DEF OrchestrationTypeOK, RestMoves, envVars

\* StopExecution ends a running execution or has no effect.
LEMMA StopMoves ==
  ASSUME OrchestrationTypeOK, NEW k \in Attempt, Stop(k), UNCHANGED late
  PROVE  ExecMoves
PROOF
  BY DEF OrchestrationTypeOK, ExecMoves, Stop

\* An execution begins overdue, or with the way clear.
LEMMA EffectMoves ==
  ASSUME OrchestrationTypeOK, Executions, NEW a \in Attempt, TakesEffect(a), Clear(a)
  PROVE  ExecMoves
PROOF
<1>1. exec[a] = "absent" /\ ~Overdue(a)
  BY DEF TakesEffect, Executions
<1>2. PICK x \in {"no", "overdue"} :
        late' = [late EXCEPT ![a] = x] /\ (x = "no" => a = current)
  BY DEF TakesEffect
<1> QED
  BY <1>1, <1>2 DEF OrchestrationTypeOK, ExecMoves, TakesEffect

\* Only an attempt with the way clear starts an execution.
LEMMA StartMoves ==
  ASSUME OrchestrationTypeOK, Executions, Coordinators,
         NEW a \in Attempt, co[a].pc = "starting",
         StartInDoubt(a) \/ UNCHANGED <<exec, late>>
  PROVE  ExecMoves
PROOF
<1>1. a <= current /\ Clear(a)
  <2>1. ~(a > current) /\ Clear(a)
    BY DEF Coordinators, Place, Knows
  <2> QED
    BY <2>1, OrchestrationAssumption DEF OrchestrationTypeOK, Attempt
<1>2. CASE UNCHANGED <<exec, late>>
  BY <1>2, ExecSame
<1>3. CASE TakesEffect(a)
  BY <1>1, <1>3, EffectMoves
<1>4. CASE exec[a] = "absent" /\ late' = [late EXCEPT ![a] = "pending"] /\ UNCHANGED exec
  <2>1. ~Overdue(a)
    BY <1>4 DEF Executions
  <2> QED
    BY <1>1, <1>4, <2>1 DEF OrchestrationTypeOK, ExecMoves
<1> QED
  BY <1>2, <1>3, <1>4 DEF StartInDoubt

-----------------------------------------------------------------------------
(* The actions.                                                            *)

Moves == CoMoves /\ ExecMoves /\ ChildMoves /\ RestMoves

\* A step of a coordinator that sees and does nothing outside.
LEMMA QuietStep ==
  ASSUME OrchestrationTypeOK, Coordinators, UNCHANGED <<envVars, awsVars>>,
         NEW a \in Attempt, NEW place \in Active, NEW c, Steps(a, place, c), Good(a, c, missed)
  PROVE  Moves
PROOF
<1>1. UNCHANGED <<envVars, exec, missed, late, child>>
  BY DEF awsVars
<1>2. ExecMoves /\ ChildMoves /\ RestMoves
  BY <1>1, ExecSame, ChildSame, RestSame
<1>3. \A k \in Attempt : missed[k] <= missed'[k]
  BY <1>1, OrchestrationAssumption DEF OrchestrationTypeOK
<1>4. missed' \in [Attempt -> 0..Misses]
  BY <1>1 DEF OrchestrationTypeOK
<1> QED
  BY <1>2, <1>3, <1>4, CoStep DEF Moves

\* A step of a coordinator that describes an execution.
LEMMA LookStep ==
  ASSUME OrchestrationTypeOK, Coordinators, UNCHANGED <<envVars, exec, late, child>>,
         NEW a \in Attempt, NEW place \in Active, NEW c, Steps(a, place, c),
         NEW k \in Attempt, Described(k) \/ NotDescribed(k),
         Good(a, c, missed) \/ Good(a, c, missed')
  PROVE  Moves
PROOF
<1>1. ExecMoves /\ ChildMoves /\ RestMoves
  BY ExecSame, ChildSame, RestDescribed
<1> QED
  BY <1>1, DescribeMoves, CoStep DEF Moves

\* A step of a coordinator that stops an execution.
LEMMA StopStep ==
  ASSUME OrchestrationTypeOK, Coordinators, UNCHANGED <<envVars, missed, late, child>>,
         NEW a \in Attempt, NEW place \in Active, NEW c, Steps(a, place, c),
         NEW k \in Attempt, Stop(k), Good(a, c, missed)
  PROVE  Moves
PROOF
<1>1. ExecMoves /\ ChildMoves /\ RestMoves
  BY StopMoves, ChildSame, RestSame
<1>2. \A b \in Attempt : missed[b] <= missed'[b]
  BY OrchestrationAssumption DEF OrchestrationTypeOK
<1>3. missed' \in [Attempt -> 0..Misses]
  BY DEF OrchestrationTypeOK
<1> QED
  BY <1>1, <1>2, <1>3, CoStep DEF Moves

\* A step of a coordinator whose start may have taken effect.
LEMMA StartingStep ==
  ASSUME OrchestrationTypeOK, Executions, Coordinators, UNCHANGED <<envVars, missed, child>>,
         NEW a \in Attempt, NEW c, Steps(a, "starting", c), Good(a, c, missed),
         StartInDoubt(a) \/ UNCHANGED <<exec, late>>
  PROVE  Moves
PROOF
<1>1. co[a].pc = "starting" /\ "starting" \in Active
  BY DEF Steps, Active, Calling
<1>2. ExecMoves
  BY <1>1, StartMoves
<1>3. ChildMoves /\ RestMoves
  BY ChildSame, RestSame
<1>4. \A k \in Attempt : missed[k] <= missed'[k]
  BY OrchestrationAssumption DEF OrchestrationTypeOK
<1>5. missed' \in [Attempt -> 0..Misses]
  BY DEF OrchestrationTypeOK
<1> QED
  BY <1>1, <1>2, <1>3, <1>4, <1>5, CoStep DEF Moves

\* What a coordinator with this pc knows.
LEMMA Placed ==
  ASSUME OrchestrationTypeOK, Coordinators, NEW a \in Attempt, co[a].pc \in Active
  PROVE  /\ a < current => lost[a]
         /\ co[a] \in Coordinator /\ co[a].prior \in Attempt
         /\ Knows(a, co[a]) /\ Misled(co[a], missed)
         /\ co[a].pc \in LookingPcs \cup {"cancelling_priors"} => co[a].prior < a /\ a > 1
PROOF
<1>1. co[a] \in Coordinator /\ co[a].prior \in Attempt
  BY DEF OrchestrationTypeOK, Coordinator
<1>2. Place(a, co[a]) /\ Knows(a, co[a]) /\ Misled(co[a], missed)
  BY DEF Coordinators
<1>3. a < current => lost[a]
  BY <1>2 DEF Place
<1>4. co[a].pc \in LookingPcs \cup {"cancelling_priors"} => co[a].prior < a
  BY <1>2 DEF Knows
<1> QED
  BY <1>1, <1>2, <1>3, <1>4 DEF Attempt

\* The observation of earlier attempts.
LEMMA BoundMoves ==
  ASSUME OrchestrationTypeOK, Coordinators, Children, NEW a \in Attempt, BoundStep(a)
  PROVE  Moves
PROOF
<1> DEFINE c == co[a]
           k == co[a].prior
           n == co[a].notFound + 1
<1>0. {"inspecting", "cancelling_prior", "counting", "cancelling_priors"} \subseteq Active
      /\ LookingPcs \subseteq Active
  BY DEF Active, Calling, Stopping, LookingPcs
<1>9. 0 \in Nat /\ FALSE \in BOOLEAN /\ TRUE \in BOOLEAN
  OBVIOUS
<1>1. CASE InspectPrior(a)
  <2>1. co[a].pc = "inspecting"
    BY <1>1 DEF InspectPrior, Steps
  <2>2. /\ a < current => lost[a]
        /\ c \in Coordinator /\ k \in Attempt /\ k < a
        /\ Knows(a, c) /\ Misled(c, missed)
    BY <1>0, <2>1, Placed DEF LookingPcs
  <2>3. UNCHANGED <<envVars, exec, late, child>>
    BY <1>1 DEF InspectPrior
  <2>4. CASE NotDescribed(k) /\ n >= Confirmations /\ Steps(a, "inspecting", NextPrior(a, 0, FALSE))
    <3>1. ~Present(k)
      <4> SUFFICES ASSUME Present(k) PROVE FALSE
        OBVIOUS
      <4>1. missed[k] < Misses /\ missed[k] \in Nat /\ c.notFound <= missed[k]
        BY <2>1, <2>2, <2>4, OrchestrationAssumption
           DEF NotDescribed, Misled, Present, OrchestrationTypeOK
      <4>2. c.notFound \in Nat
        BY <2>2, OrchestrationAssumption DEF Coordinator
      <4> QED
        BY <2>4, <4>1, <4>2, OrchestrationAssumption
    <3>2. Left(k) = {} /\ (~Overdue(k) => exec[k] # "running")
      BY <2>2, <3>1 DEF Children, Left, InHistory, Started, Present
    <3>3. Cardinality(Left(k)) <= 0
      BY <3>2, FS_EmptySet
    <3>4. Good(a, NextPrior(a, 0, FALSE), missed)
      BY <1>9, <2>1, <2>2, <3>2, <3>3, NextPriorGood DEF LookingPcs
    <3> QED
      BY <1>0, <2>2, <2>3, <2>4, <3>4, LookStep
  <2>5. CASE /\ NotDescribed(k) /\ n < Confirmations
             /\ Steps(a, "inspecting", InspectionHead(a, k, n, c.residual, c.pending))
    <3>1. n \in 0..(Confirmations - 1) /\ c.residual \in Nat /\ c.pending \in BOOLEAN
      BY <2>2, <2>5, OrchestrationAssumption DEF Coordinator
    <3>2. Present(k) => n <= missed'[k]
      BY <2>1, <2>2, <2>5, OrchestrationAssumption
         DEF NotDescribed, Misled, Present, OrchestrationTypeOK, Coordinator
    <3>3. ~c.pending => Quiet(k) /\ Cardinality(Older(k)) <= c.residual
      BY <2>1, <2>2 DEF Knows, LookingPcs
    <3>4. Good(a, InspectionHead(a, k, n, c.residual, c.pending), missed')
      BY <2>2, <3>1, <3>2, <3>3, InspectionGood
    <3> QED
      BY <1>0, <2>2, <2>3, <2>5, <3>4, LookStep
  <2>6. CASE /\ Described(k) /\ exec[k] = "running"
             /\ Steps(a, "inspecting", At(c, "cancelling_prior"))
    <3>1. At(c, "cancelling_prior") = [c EXCEPT !.pc = "cancelling_prior"]
      BY DEF At
    <3>2. Good(a, At(c, "cancelling_prior"), missed)
      BY <1>0, <2>1, <2>2, <3>1 DEF Good, Coordinator, Knows, Misled, LookingPcs
    <3> QED
      BY <1>0, <2>2, <2>3, <2>6, <3>2, LookStep
  <2>7. CASE Described(k) /\ Terminal(k) /\ Steps(a, "inspecting", At(c, "counting"))
    <3>1. At(c, "counting") = [c EXCEPT !.pc = "counting"]
      BY DEF At
    <3>2. Good(a, At(c, "counting"), missed)
      BY <1>0, <2>1, <2>2, <2>7, <3>1 DEF Good, Coordinator, Knows, Misled, LookingPcs
    <3> QED
      BY <1>0, <2>2, <2>3, <2>7, <3>2, LookStep
  <2> QED
    BY <1>1, <2>4, <2>5, <2>6, <2>7 DEF InspectPrior
<1>2. CASE StopPrior(a)
  <2>1. co[a].pc = "cancelling_prior" /\ Stop(k) /\ UNCHANGED <<envVars, missed, late, child>>
        /\ Steps(a, "cancelling_prior", NextPrior(a, 0, TRUE))
    BY <1>2 DEF StopPrior, Steps
  <2>2. (a < current => lost[a]) /\ k \in Attempt /\ Knows(a, c)
    BY <1>0, <2>1, Placed
  <2>3. Good(a, NextPrior(a, 0, TRUE), missed)
    BY <1>9, <2>1, <2>2, NextPriorGood DEF LookingPcs
  <2> QED
    BY <1>0, <2>1, <2>2, <2>3, StopStep
<1>3. CASE CountResidual(a)
  <2>1. co[a].pc = "counting" /\ UNCHANGED <<envVars, awsVars>>
        /\ Steps(a, "counting", NextPrior(a, ResidualOf(k), FALSE))
    BY <1>3 DEF CountResidual, Steps
  <2>2. (a < current => lost[a]) /\ k \in Attempt /\ Knows(a, c)
    BY <1>0, <2>1, Placed
  <2>3. exec[k] # "running"
    BY <2>1, <2>2 DEF Knows, Terminal
  <2>4. {r \in Recorded(k) : child[k][r] = "recorded"} = InHistory(k)
    BY DEF Recorded, InHistory
  <2>5. ResidualOf(k) = Cardinality(InHistory(k)) /\ ResidualOf(k) \in Nat
    BY <2>4, EncodersFinite DEF ResidualOf
  <2>6. Cardinality(Left(k)) <= ResidualOf(k)
    BY <2>5, EncodersFinite
  <2>7. Good(a, NextPrior(a, ResidualOf(k), FALSE), missed)
    BY <1>9, <2>1, <2>2, <2>3, <2>5, <2>6, NextPriorGood DEF LookingPcs
  <2> QED
    BY <1>0, <2>1, <2>7, QuietStep
<1>4. CASE PriorUnknown(a)
  <2>1. PICK place \in {"inspecting", "counting"} : Steps(a, place, NextPrior(a, 0, TRUE))
    BY <1>4 DEF PriorUnknown
  <2>2. co[a].pc = place /\ place \in LookingPcs /\ UNCHANGED <<envVars, awsVars>>
    BY <1>4, <2>1 DEF PriorUnknown, Steps, LookingPcs
  <2>3. (a < current => lost[a]) /\ Knows(a, c)
    BY <1>0, <2>2, Placed
  <2>4. Good(a, NextPrior(a, 0, TRUE), missed)
    BY <1>9, <2>2, <2>3, NextPriorGood
  <2> QED
    BY <1>0, <2>1, <2>2, <2>4, QuietStep
<1>5. CASE PriorFails(a)
  <2>1. PICK place \in {"inspecting", "counting"} : Steps(a, place, Enter("cancelling_priors"))
    BY <1>5 DEF PriorFails
  <2>2. co[a].pc = place /\ place \in LookingPcs /\ UNCHANGED <<envVars, awsVars>>
    BY <1>5, <2>1 DEF PriorFails, Steps, LookingPcs
  <2>3. a > 1
    BY <1>0, <2>2, Placed
  <2>4. Good(a, Enter("cancelling_priors"), missed)
    BY <2>3, PriorsGood
  <2> QED
    BY <1>0, <2>1, <2>2, <2>4, QuietStep
<1>6. CASE StopPriors(a)
  <2>1. co[a].pc = "cancelling_priors" /\ Stop(k) /\ UNCHANGED <<envVars, missed, late, child>>
        /\ Steps(a, "cancelling_priors",
             IF k < a - 1 THEN [c EXCEPT !.prior = @ + 1] ELSE Enter("returned"))
    BY <1>6 DEF StopPriors, Steps
  <2>2. c \in Coordinator /\ k \in Attempt
    BY <1>0, <2>1, Placed
  <2>3. ASSUME k < a - 1 PROVE Good(a, [c EXCEPT !.prior = @ + 1], missed)
    <3>1. k + 1 \in Attempt /\ k + 1 < a
      BY <2>2, <2>3, OrchestrationAssumption DEF Attempt
    <3> QED
      BY <2>1, <2>2, <3>1 DEF Good, Coordinator, Knows, Misled, LookingPcs
  <2>4. Good(a, Enter("returned"), missed)
    BY EnterGood DEF EndPcs
  <2>5. Good(a, IF k < a - 1 THEN [c EXCEPT !.prior = @ + 1] ELSE Enter("returned"), missed)
    BY <2>3, <2>4
  <2> QED
    BY <1>0, <2>1, <2>2, <2>5, StopStep
<1> QED
  BY <1>1, <1>2, <1>3, <1>4, <1>5, <1>6 DEF BoundStep

\* Heads of the polling loop presuppose nothing.
LEMMA PollGood ==
  ASSUME NEW a \in Attempt, NEW m
  PROVE  /\ Good(a, PollHead(a), m)
         /\ Good(a, Checked(a, Enter("cancelling"), Enter("returned"), Enter("finalizing")), m)
PROOF
  BY EnterGood DEF PollHead, Checked, EndPcs

\* A further try keeps what the tries before it presupposed.
LEMMA NextTryGood ==
  ASSUME OrchestrationTypeOK, Coordinators, NEW a \in Attempt, co[a].pc = "resolving",
         NEW m
  PROVE  Good(a, NextTry(a), m)
PROOF
<1>1. co[a].pc \in Active
  BY DEF Active, Calling
<1>2. (a < current => lost[a]) /\ co[a] \in Coordinator /\ Knows(a, co[a])
  BY <1>1, Placed
<1>3. Clear(a)
  BY <1>2 DEF Knows
<1>4. co[a].tries + 1 \in 0..StartTries
  BY <1>2, OrchestrationAssumption DEF Coordinator
<1> QED
  BY <1>2, <1>3, <1>4, StartGood DEF NextTry

\* Starting or finding the execution.
LEMMA TryMoves ==
  ASSUME OrchestrationTypeOK, Executions, Coordinators, NEW a \in Attempt, StartStep(a)
  PROVE  Moves
PROOF
<1>0. {"starting", "resolving", "resolving_last"} \subseteq Active
  BY DEF Active, Calling
<1>1. CASE StartAccepted(a)
  <2>1. Steps(a, "starting", PollHead(a)) /\ UNCHANGED <<envVars, missed, child>>
    BY <1>1 DEF StartAccepted
  <2>2. StartInDoubt(a) \/ UNCHANGED <<exec, late>>
    BY <1>1 DEF StartAccepted, StartInDoubt
  <2> QED
    BY <2>1, <2>2, PollGood, StartingStep
<1>2. CASE StartFails(a)
  <2>1. /\ Steps(a, "starting", At(co[a], "resolving")) /\ StartInDoubt(a)
        /\ UNCHANGED <<envVars, missed, child>> /\ co[a].pc = "starting"
    BY <1>2 DEF StartFails, Steps
  <2>2. co[a] \in Coordinator /\ Knows(a, co[a])
    BY <1>0, <2>1, Placed
  <2>3. Good(a, At(co[a], "resolving"), missed)
    <3>1. At(co[a], "resolving") = [co[a] EXCEPT !.pc = "resolving"]
      BY DEF At
    <3> QED
      BY <1>0, <2>1, <2>2, <3>1 DEF Good, Coordinator, Knows, Misled, LookingPcs
  <2> QED
    BY <2>1, <2>3, StartingStep
<1>3. CASE StartDenied(a)
  BY <1>0, <1>3, EnterGood, QuietStep DEF StartDenied, EndPcs
<1>4. CASE StartTimesOut(a)
  <2>1. /\ Steps(a, "starting", Enter("cancelling")) /\ StartInDoubt(a)
        /\ UNCHANGED <<envVars, missed, child>>
    BY <1>4 DEF StartTimesOut
  <2>2. Good(a, Enter("cancelling"), missed)
    BY EnterGood DEF EndPcs
  <2> QED
    BY <2>1, <2>2, StartingStep
<1>5. CASE Resolve(a)
  <2>1. PICK place \in {"resolving", "resolving_last"} :
          \/ Described(a) /\ Steps(a, place, PollHead(a))
          \/ Described(a) /\ Steps(a, place, Enter("returned"))
          \/ place = "resolving" /\ NotDescribed(a) /\ Steps(a, place, NextTry(a))
          \/ NotDescribed(a) /\ Steps(a, place, Enter("returned"))
    BY <1>5 DEF Resolve
  <2>2. UNCHANGED <<envVars, exec, late, child>> /\ place \in Active
    BY <1>0, <1>5 DEF Resolve
  <2>3. Good(a, Enter("returned"), missed) /\ Good(a, PollHead(a), missed)
    BY EnterGood, PollGood DEF EndPcs
  <2>4. ASSUME place = "resolving", Steps(a, place, NextTry(a)) PROVE Good(a, NextTry(a), missed)
    BY <2>4, NextTryGood DEF Steps
  <2> QED
    BY <2>1, <2>2, <2>3, <2>4, LookStep
<1>6. CASE ResolveUnknown(a)
  <2>1. \/ Steps(a, "resolving", NextTry(a))
        \/ Steps(a, "resolving_last", Enter("returned"))
    BY <1>6 DEF ResolveUnknown
  <2>2. UNCHANGED <<envVars, awsVars>> /\ Good(a, Enter("returned"), missed)
    BY <1>6, EnterGood DEF ResolveUnknown, EndPcs
  <2>3. ASSUME Steps(a, "resolving", NextTry(a)) PROVE Good(a, NextTry(a), missed)
    BY <2>3, NextTryGood DEF Steps
  <2> QED
    BY <1>0, <2>1, <2>2, <2>3, QuietStep
<1>7. CASE ResolveDenied(a)
  BY <1>0, <1>7, EnterGood, QuietStep DEF ResolveDenied, EndPcs
<1>8. CASE ResolveTimesOut(a)
  BY <1>0, <1>8, EnterGood, QuietStep DEF ResolveTimesOut, EndPcs
<1> QED
  BY <1>1, <1>2, <1>3, <1>4, <1>5, <1>6, <1>7, <1>8 DEF StartStep

\* Polling, finalizing and stopping the own execution.
LEMMA PollMoves ==
  ASSUME OrchestrationTypeOK, Coordinators, NEW a \in Attempt, PollStep(a)
  PROVE  Moves
PROOF
<1>0. /\ {"polling", "finalizing", "cancelling"} \subseteq Active
      /\ Good(a, Enter("returned"), missed) /\ Good(a, Enter("cancelling"), missed)
      /\ Good(a, PollHead(a), missed)
      /\ Good(a, Checked(a, Enter("cancelling"), Enter("returned"), Enter("finalizing")), missed)
  BY EnterGood, PollGood DEF Active, Calling, Stopping, EndPcs
<1>1. CASE Poll(a)
  <2>1. UNCHANGED <<envVars, exec, late, child>> /\ (Described(a) \/ NotDescribed(a))
    BY <1>1 DEF Poll
  <2>2. PICK c : Steps(a, "polling", c) /\ Good(a, c, missed)
    BY <1>0, <1>1 DEF Poll
  <2> QED
    BY <1>0, <2>1, <2>2, LookStep
<1>2. CASE PollUnknown(a)
  BY <1>0, <1>2, QuietStep DEF PollUnknown
<1>3. CASE PollFails(a)
  BY <1>0, <1>3, QuietStep DEF PollFails
<1>4. CASE Finalize(a)
  <2>1. /\ Steps(a, "finalizing", Enter("returned")) /\ done' = a
        /\ UNCHANGED <<current, lost, expired, awsVars>>
    BY <1>4 DEF Finalize
  <2>2. UNCHANGED <<current, lost, expired, exec, missed, late, child>>
    BY <2>1 DEF awsVars
  <2>3. a \in 0..Attempts
    BY OrchestrationAssumption DEF Attempt
  <2>4. missed' \in [Attempt -> 0..Misses] /\ \A k \in Attempt : missed[k] <= missed'[k]
    BY <2>2, OrchestrationAssumption DEF OrchestrationTypeOK
  <2>5. RestMoves
    BY <2>1, <2>2, <2>3, <2>4 DEF OrchestrationTypeOK, RestMoves
  <2>6. ExecMoves /\ ChildMoves
    BY <2>2, ExecSame, ChildSame
  <2> QED
    BY <1>0, <2>1, <2>4, <2>5, <2>6, CoStep DEF Moves
<1>5. CASE FinalizeFails(a)
  BY <1>0, <1>5, QuietStep DEF FinalizeFails
<1>6. CASE CancelAnswered(a)
  BY <1>0, <1>6, StopStep DEF CancelAnswered
<1> QED
  BY <1>1, <1>2, <1>3, <1>4, <1>5, <1>6 DEF PollStep

\* The process dies at an await.
LEMMA DieMoves ==
  ASSUME OrchestrationTypeOK, Executions, Coordinators, NEW a \in Attempt, Die(a)
  PROVE  Moves
PROOF
<1>1. PICK place \in Active : Steps(a, place, Enter("crashed"))
  BY DEF Die
<1>2. co[a].pc = place /\ Good(a, Enter("crashed"), missed)
  BY <1>1, EnterGood DEF Steps, EndPcs
<1>3. /\ UNCHANGED <<current, lost, expired, missed, child>>
      /\ done' = done \/ done' \in {0, a}
  BY DEF Die
<1>4. ExecMoves
  <2>1. CASE co[a].pc = "starting"
    BY <2>1, StartMoves DEF Die
  <2>2. CASE co[a].pc # "starting"
    BY <2>2, ExecSame DEF Die
  <2> QED
    BY <2>1, <2>2
<1>5. missed' \in [Attempt -> 0..Misses] /\ \A k \in Attempt : missed[k] <= missed'[k]
  BY <1>3, OrchestrationAssumption DEF OrchestrationTypeOK
<1>6. done' \in 0..Attempts
  BY <1>3, OrchestrationAssumption DEF OrchestrationTypeOK, Attempt
<1>7. ChildMoves /\ RestMoves
  BY <1>3, <1>5, <1>6, ChildSame DEF OrchestrationTypeOK, RestMoves
<1>8. CoMoves
  BY <1>1, <1>2, <1>5, CoStep
<1> QED
  BY <1>4, <1>7, <1>8 DEF Moves

\* Signals, deadlines, executions and encoders.
LEMMA EnvironmentMoves ==
  ASSUME OrchestrationTypeOK, Coordinators, Executions, Children,
         NEW a \in Attempt, Lose(a) \/ Expire(a) \/ Cloud(a)
  PROVE  Moves
PROOF
<1>0. \A k \in Attempt : missed[k] \in Nat
  BY OrchestrationAssumption DEF OrchestrationTypeOK
<1>1. CASE Lose(a) \/ Expire(a)
  <2>1. UNCHANGED <<current, done, late, co, missed, exec, child>>
    BY <1>1 DEF Lose, Expire, awsVars
  <2>2. /\ lost' \in [Attempt -> BOOLEAN] /\ expired' \in [Attempt -> BOOLEAN]
        /\ \A k \in Attempt : lost[k] => lost'[k]
    BY <1>1 DEF Lose, Expire, OrchestrationTypeOK
  <2>3. RestMoves
    BY <1>0, <2>1, <2>2 DEF OrchestrationTypeOK, RestMoves
  <2> QED
    BY <2>1, <2>3, CoSame, ExecSame, ChildSame DEF Moves
<1>2. CASE LateStartLands(a)
  <2>1. TakesEffect(a) /\ Clear(a) /\ UNCHANGED <<envVars, co, missed, child>>
    BY <1>2 DEF LateStartLands, Executions
  <2>2. ExecMoves
    BY <2>1, EffectMoves
  <2> QED
    BY <2>1, <2>2, CoSame, ChildSame, RestSame DEF Moves
<1>3. CASE EndExecution(a)
  <2>1. UNCHANGED <<envVars, co, missed, late, child>>
    BY <1>3 DEF EndExecution
  <2>2. ExecMoves
    BY <1>3 DEF EndExecution, ExecMoves, OrchestrationTypeOK
  <2> QED
    BY <2>1, <2>2, CoSame, ChildSame, RestSame DEF Moves
<1>4. ASSUME NEW r \in Planned, Schedule(a, r) \/ Launch(a, r) \/ Record(a, r) \/ EndChild(a, r)
      PROVE  Moves
  <2>1. UNCHANGED <<envVars, co, exec, missed, late>>
    BY <1>4 DEF Schedule, Launch, Record, EndChild
  <2>2. child[a][r] # "none" => Started(a)
    BY DEF Children
  <2>3. PICK x \in EncoderState :
          /\ child' = [child EXCEPT ![a][r] = x]
          /\ Started(a) /\ x # "none"
          /\ exec[a] = "running" \/ x # "recorded"
    <3>1. CASE Schedule(a, r)
      BY <3>1 DEF Schedule, Started, EncoderState
    <3>2. CASE Launch(a, r)
      BY <2>2, <3>2 DEF Launch, EncoderState
    <3>3. CASE Record(a, r)
      BY <2>2, <3>3 DEF Record, EncoderState
    <3>4. CASE EndChild(a, r)
      BY <2>2, <3>4 DEF EndChild, Running, EncoderState
    <3> QED
      BY <1>4, <3>1, <3>2, <3>3, <3>4
  <2>4. child \in [Attempt -> [Planned -> EncoderState]]
    BY DEF OrchestrationTypeOK
  <2>5. /\ child' \in [Attempt -> [Planned -> EncoderState]] /\ child'[a][r] = x
        /\ \A k \in Attempt : \A s \in Planned : <<k, s>> # <<a, r>> => child'[k][s] = child[k][s]
    BY <2>3, <2>4
  <2>8. ChildMoves
    BY <2>3, <2>5 DEF ChildMoves
  <2> QED
    BY <2>1, <2>8, CoSame, ExecSame, RestSame DEF Moves
<1> QED
  BY <1>1, <1>2, <1>3, <1>4 DEF Cloud

\* The next attempt begins where the one before cannot start anything.
LEMMA BeginKeeps ==
  ASSUME OrchestrationIInv, NEW a \in Attempt, Begin(a)
  PROVE  OrchestrationIInv'
PROOF
<1>0. OrchestrationTypeOK /\ Executions /\ Children /\ Coordinators
  BY DEF OrchestrationIInv
<1>1. a \in Nat /\ current \in Nat /\ current \in 0..Attempts /\ a > current /\ current' = a
      /\ a \in 0..Attempts /\ a >= 1
  BY <1>0, OrchestrationAssumption DEF Begin, OrchestrationTypeOK, Attempt
<1>2. /\ UNCHANGED <<exec, missed, late, child, done>>
      /\ lost' \in [Attempt -> BOOLEAN] /\ expired' \in [Attempt -> BOOLEAN]
      /\ \A k \in Attempt : lost[k] => lost'[k]
  BY <1>0 DEF Begin, awsVars, OrchestrationTypeOK
<1>3. PICK c : Steps(a, "idle", c) /\ Good(a, c, missed)
  <2>1. a = 1 => Clear(a)
    BY OlderFirst, EncodersFinite, OrchestrationAssumption DEF Clear
  <2>2. ~(a < current) /\ 0 \in 0..StartTries
    BY <1>1, OrchestrationAssumption
  <2>3. ASSUME a = 1 PROVE Good(a, StartHead(a, 0), missed)
    BY <1>0, <2>1, <2>2, <2>3, StartGood
  <2>4. ASSUME a # 1 PROVE Good(a, BoundHead(a), missed)
    BY <1>0, <1>1, <2>4, BoundGood
  <2>5. Good(a, Enter("cancelling"), missed) /\ Good(a, Enter("returned"), missed)
    BY EnterGood DEF EndPcs
  <2> QED
    BY <2>3, <2>4, <2>5 DEF Begin
<1>4. /\ co' = [co EXCEPT ![a] = c] /\ c \in Coordinator /\ Knows(a, c) /\ Misled(c, missed)
      /\ co \in [Attempt -> Coordinator]
  BY <1>0, <1>3 DEF Steps, Good, OrchestrationTypeOK
<1>5. co' \in [Attempt -> Coordinator] /\ co'[a] = c
      /\ \A b \in Attempt : b # a => co'[b] = co[b]
  BY <1>4
<1>6. OrchestrationTypeOK'
  BY <1>0, <1>1, <1>2, <1>5 DEF OrchestrationTypeOK
<1>7. Children'
  BY <1>0, <1>2 DEF Children, Started
<1>8. \A n : (Clear(n)' <=> Clear(n)) /\ (Quiet(n)' <=> Quiet(n)) /\ Older(n)' = Older(n)
  BY <1>2 DEF Clear, Quiet, Older, Accounted, InHistory, Overdue
<1>9. Executions'
  <2>1. \A b \in Attempt : /\ InTime(b)' <=> InTime(b)
                           /\ Overdue(b)' <=> Overdue(b)
                           /\ late'[b] = late[b] /\ exec'[b] = exec[b] /\ b \in Nat
    BY <1>2, OrchestrationAssumption DEF InTime, Overdue, Attempt
  <2>2. \A b \in Attempt : (InTime(b) \/ late[b] = "pending")' => b <= current' /\ Clear(b)'
    BY <1>0, <1>1, <1>8, <2>1 DEF Executions
  <2>3. \E m \in 0..Attempts : (m = 0 \/ InTime(m)') /\ \A b \in Attempt : InTime(b)' => b <= m
    <3>1. PICK m \in 0..Attempts : (m = 0 \/ InTime(m)) /\ \A b \in Attempt : InTime(b) => b <= m
      BY <1>0 DEF Executions
    <3>2. m = 0 \/ m \in Attempt
      BY OrchestrationAssumption DEF Attempt
    <3> QED
      BY <2>1, <3>1, <3>2
  <2>4. \A b \in Attempt : Overdue(b)' => exec'[b] # "absent"
    BY <1>0, <2>1 DEF Executions
  <2> QED
    BY <2>2, <2>3, <2>4 DEF Executions
<1>10. ASSUME NEW b \in Attempt PROVE Place(b, co[b])'
  <2>1. b \in Nat /\ Place(b, co[b])
    BY <1>0, OrchestrationAssumption DEF Attempt, Coordinators
  <2>2. CASE b = a
    BY <1>1, <2>2 DEF Place
  <2>3. CASE b # a /\ b # current
    BY <1>1, <1>2, <1>5, <2>1, <2>3 DEF Place, Active, Calling, Stopping
  <2>4. CASE b = current
    <3>1. co[b].pc \in {"returned", "crashed"} \/ lost[b]
      BY <1>1, <2>4, OrchestrationAssumption DEF Begin, Attempt
    <3> QED
      BY <1>1, <1>2, <1>5, <2>1, <2>4, <3>1 DEF Place, Active, Calling, Stopping
  <2> QED
    BY <2>2, <2>3, <2>4
<1>11. ASSUME NEW b \in Attempt PROVE Knows(b, co[b])' /\ Misled(co[b], missed)'
  <2>1. PICK x \in Coordinator : x = co'[b]
    BY <1>5
  <2>2. Knows(b, x) /\ Misled(x, missed)
    BY <1>0, <1>4, <1>5, <2>1 DEF Coordinators
  <2>3. Knows(b, x)' /\ Misled(x, missed)'
    BY <1>2, <1>8, <2>2 DEF Knows, Misled, Terminal, Present, Overdue
  <2> QED
    BY <2>1, <2>3 DEF Knows, Misled, Quiet, Older, Terminal, Present, Overdue
<1> QED
  BY <1>6, <1>7, <1>9, <1>10, <1>11 DEF OrchestrationIInv, Coordinators

\* Initially nothing is known and nothing runs.
LEMMA InitInvariant == OrchestrationInit => OrchestrationIInv
PROOF
<1> SUFFICES ASSUME OrchestrationInit PROVE OrchestrationIInv
  OBVIOUS
<1>1. \A place : Enter(place) = [ pc |-> place, prior |-> 1, notFound |-> 0, residual |-> 0,
                            pending |-> FALSE, tries |-> 0 ]
  BY DEF Enter, Trying
<1>2. Enter("idle") \in Coordinator /\ Enter("idle").pc = "idle"
  BY EnterType
<1>3. \A a \in Attempt : co[a] = Enter("idle")
  BY DEF OrchestrationInit
<1>4. OrchestrationTypeOK
  BY <1>2, OrchestrationAssumption DEF OrchestrationInit, OrchestrationTypeOK, EncoderState
<1>5. \A a \in Attempt : ~InTime(a) /\ late[a] = "no" /\ ~Overdue(a)
  BY DEF OrchestrationInit, InTime, Overdue
<1>6. Executions
  <2>1. 0 \in 0..Attempts
    BY OrchestrationAssumption
  <2> QED
    BY <1>5, <2>1 DEF Executions
<1>7. Children
  BY DEF OrchestrationInit, Children
<1>8. Coordinators
  BY <1>2, <1>3 DEF Coordinators, Place, Knows, Misled, Active, Calling, Stopping, LookingPcs
<1> QED
  BY <1>4, <1>6, <1>7, <1>8 DEF OrchestrationIInv

\* Every step keeps the invariant.
LEMMA NextInvariant ==
  ASSUME OrchestrationIInv, [OrchestrationNext]_orchestrationVars
  PROVE  OrchestrationIInv'
PROOF
<1>0. OrchestrationTypeOK /\ Executions /\ Children /\ Coordinators
  BY DEF OrchestrationIInv
<1>1. CASE UNCHANGED orchestrationVars
  <2>1. UNCHANGED <<envVars, co, exec, missed, late, child>>
    BY <1>1 DEF orchestrationVars, envVars
  <2>2. Moves
    BY <1>0, <2>1, CoSame, ExecSame, ChildSame, RestSame DEF Moves
  <2> QED
    BY <2>2, InvariantKeeps DEF Moves
<1>2. ASSUME NEW a \in Attempt, Begin(a) PROVE OrchestrationIInv'
  BY <1>2, BeginKeeps
<1>3. ASSUME NEW a \in Attempt,
             \/ BoundStep(a) \/ StartStep(a) \/ PollStep(a)
             \/ Die(a) \/ Lose(a) \/ Expire(a) \/ Cloud(a)
      PROVE  OrchestrationIInv'
  <2>1. Moves
    <3>1. CASE BoundStep(a)
      BY <1>0, <3>1, BoundMoves
    <3>2. CASE StartStep(a)
      BY <1>0, <3>2, TryMoves
    <3>3. CASE PollStep(a)
      BY <1>0, <3>3, PollMoves
    <3>4. CASE Die(a)
      BY <1>0, <3>4, DieMoves
    <3>5. CASE Lose(a) \/ Expire(a) \/ Cloud(a)
      BY <1>0, <3>5, EnvironmentMoves
    <3> QED
      BY <1>3, <3>1, <3>2, <3>3, <3>4, <3>5
  <2> QED
    BY <2>1, InvariantKeeps DEF Moves
<1> QED
  BY <1>1, <1>2, <1>3 DEF OrchestrationNext

-----------------------------------------------------------------------------
(* The theorems.                                                           *)

\* The invariant bounds the encoders: those of the last attempt started in time
\* and those before it are all there are.
LEMMA InvariantBounds == OrchestrationIInv => ChildBound
PROOF
<1> SUFFICES ASSUME OrchestrationIInv PROVE Cardinality(Accounted) <= Cap
  BY DEF ChildBound
<1>0. Executions /\ Children
  BY DEF OrchestrationIInv
<1>1. PICK m \in 0..Attempts :
        (m = 0 \/ InTime(m)) /\ \A b \in Attempt : InTime(b) => b <= m
  BY <1>0 DEF Executions
<1>2. \A e \in Accounted : e[1] \in Attempt /\ e[2] \in InHistory(e[1]) /\ InTime(e[1])
  BY <1>0 DEF Accounted, InHistory, Children, Started, InTime
<1>3. CASE m = 0
  <2>1. Accounted = {}
    BY <1>1, <1>2, <1>3, OrchestrationAssumption DEF Attempt
  <2>2. Cardinality(Accounted) = 0
    BY <2>1, FS_EmptySet
  <2> QED
    BY <2>2, OrchestrationAssumption
<1>4. CASE m # 0
  <2>1. m \in Attempt /\ Clear(m)
    BY <1>0, <1>1, <1>4, OrchestrationAssumption DEF Attempt, Executions
  <2>2. Accounted = Older(m + 1)
    BY <1>1, <1>2, <2>1, OrchestrationAssumption DEF Older, Attempt
  <2>3. Cardinality(Older(m + 1)) <= Cardinality(Older(m)) + Cardinality(Left(m))
    BY <2>1, OlderNext
  <2>4. /\ Cardinality(Older(m + 1)) \in Nat /\ Cardinality(Older(m)) \in Nat
        /\ Cardinality(Left(m)) \in Nat /\ Cardinality(InHistory(m)) \in Nat
        /\ Cardinality(Planned) \in Nat /\ Cap \in Nat
        /\ Cardinality(Left(m)) <= Cardinality(InHistory(m))
        /\ Cardinality(InHistory(m)) <= Cardinality(Planned)
    BY EncodersFinite, OrchestrationAssumption
  <2>5. Cardinality(Older(m)) + Cardinality(Planned) <= Cap
    BY <2>1 DEF Clear
  <2>6. Cardinality(Older(m + 1)) <= Cap
    BY <2>3, <2>4, <2>5, SMT
  <2> QED
    BY <2>2, <2>6
<1> QED
  BY <1>3, <1>4

\* What coordinators know of earlier attempts is right at every moment, under
\* every fault of the environment.
THEOREM OrchestrationInvariant == OrchestrationSpec => []OrchestrationIInv
PROOF
<1>1. OrchestrationIInv /\ [OrchestrationNext]_orchestrationVars => OrchestrationIInv'
  BY NextInvariant
<1> QED
  BY <1>1, InitInvariant, PTL DEF OrchestrationSpec

\* The state of coordinators and executions has the type the model gives it:
\* whoever looks at an earlier attempt looks at one that there is, and neither
\* tries, confirmations nor misses exceed their limits.
THEOREM OrchestrationTyped == OrchestrationSpec => []OrchestrationTypeOK
PROOF
<1>1. OrchestrationIInv => OrchestrationTypeOK
  BY DEF OrchestrationIInv
<1> QED
  BY <1>1, OrchestrationInvariant, PTL

\* The encoders of a job that coordinators can account for never exceed the cap,
\* whatever is lost, denied, missed or dies, and also with others beside them:
\* establish_previous_bound does what it can.
THEOREM ChildBoundHolds == OrchestrationSpec => []ChildBound
PROOF
BY OrchestrationInvariant, InvariantBounds, PTL

\* All encoders of a job that run.
Encoders == {e \in Attempt \X Planned : e[2] \in Running(e[1])}

\* Every encoder that runs can be accounted for: none belongs to an execution
\* that began after its attempt was superseded, and none is without an ARN.
AllAccounted ==
  \A e \in Encoders : ~Overdue(e[1]) /\ child[e[1]][e[2]] # "unrecorded"

\* Whenever every encoder that runs can be accounted for, all encoders of the job
\* together stay under the cap, also after there were others.
THEOREM AllEncodersBounded ==
  OrchestrationSpec => [](AllAccounted => Cardinality(Encoders) <= Cap)
PROOF
<1>1. AllAccounted => Encoders = Accounted
  BY DEF AllAccounted, Encoders, Accounted, Running
<1>2. OrchestrationIInv => (AllAccounted => Cardinality(Encoders) <= Cap)
  BY <1>1, InvariantBounds DEF ChildBound
<1> QED
  BY <1>2, OrchestrationInvariant, PTL

-----------------------------------------------------------------------------
(* Coordinators keep the promise of EncoderSlots.                          *)

LastInTime(m) ==
  /\ m \in 0..Attempts
  /\ m = 0 \/ InTime(m)
  /\ \A b \in Attempt : InTime(b) => b <= m

\* The launcher is the last attempt whose execution was started in time.
LEMMA LauncherIsLast ==
  ASSUME NEW m, LastInTime(m)
  PROVE  Launcher = m
PROOF
<1>1. \A x : LastInTime(x) => x = m
  BY OrchestrationAssumption DEF LastInTime, Attempt
<1>2. Launcher = CHOOSE x \in 0..Attempts : LastInTime(x)
  BY DEF Launcher, LastInTime
<1> QED
  BY <1>1, <1>2 DEF LastInTime

\* The same after a step.
LEMMA LauncherIsLastNext ==
  ASSUME NEW m, LastInTime(m)'
  PROVE  Launcher' = m
PROOF
<1>1. \A x : LastInTime(x)' => x = m
  BY OrchestrationAssumption DEF LastInTime, Attempt
<1>2. Launcher' = CHOOSE x \in 0..Attempts : LastInTime(x)'
  BY DEF Launcher, LastInTime
<1> QED
  BY <1>1, <1>2 DEF LastInTime

\* Either an execution changes, or an encoder.
LEMMA StepKinds ==
  ASSUME OrchestrationIInv, [OrchestrationNext]_orchestrationVars
  PROVE  \/ ExecMoves /\ UNCHANGED child
         \/ /\ UNCHANGED <<exec, late>>
            /\ \E a \in Attempt : \E r \in Planned :
                 Schedule(a, r) \/ Launch(a, r) \/ Record(a, r) \/ EndChild(a, r)
PROOF
<1>0. OrchestrationTypeOK /\ Executions /\ Children /\ Coordinators
  BY DEF OrchestrationIInv
<1>1. CASE UNCHANGED orchestrationVars
  BY <1>0, <1>1, ExecSame DEF orchestrationVars
<1>2. ASSUME NEW a \in Attempt, Begin(a) PROVE ExecMoves /\ UNCHANGED child
  BY <1>0, <1>2, ExecSame DEF Begin, awsVars
<1>3. ASSUME NEW a \in Attempt, BoundStep(a) PROVE ExecMoves /\ UNCHANGED child
  BY <1>0, <1>3, BoundMoves
     DEF Moves, BoundStep, InspectPrior, StopPrior, CountResidual, PriorUnknown,
         PriorFails, StopPriors, awsVars
<1>4. ASSUME NEW a \in Attempt, StartStep(a) PROVE ExecMoves /\ UNCHANGED child
  BY <1>0, <1>4, TryMoves
     DEF Moves, StartStep, StartAccepted, StartFails, StartDenied, StartTimesOut,
         Resolve, ResolveUnknown, ResolveDenied, ResolveTimesOut, awsVars
<1>5. ASSUME NEW a \in Attempt, PollStep(a) PROVE ExecMoves /\ UNCHANGED child
  BY <1>0, <1>5, PollMoves
     DEF Moves, PollStep, Poll, PollUnknown, PollFails, Finalize, FinalizeFails,
         CancelAnswered, awsVars
<1>6. ASSUME NEW a \in Attempt, Die(a) PROVE ExecMoves /\ UNCHANGED child
  BY <1>0, <1>6, DieMoves DEF Moves, Die
<1>7. ASSUME NEW a \in Attempt, Lose(a) \/ Expire(a) \/ LateStartLands(a) \/ EndExecution(a)
      PROVE  ExecMoves /\ UNCHANGED child
  BY <1>0, <1>7, EnvironmentMoves
     DEF Moves, Cloud, Lose, Expire, LateStartLands, EndExecution, awsVars
<1>8. ASSUME NEW a \in Attempt, NEW r \in Planned,
             Schedule(a, r) \/ Launch(a, r) \/ Record(a, r) \/ EndChild(a, r)
      PROVE  UNCHANGED <<exec, late>>
  BY <1>8 DEF Schedule, Launch, Record, EndChild
<1> QED
  BY <1>1, <1>2, <1>3, <1>4, <1>5, <1>6, <1>7, <1>8 DEF OrchestrationNext, Cloud

\* Where executions change, encoders stay accounted for as they were, and a later
\* attempt takes over only with the way clear.
LEMMA ExecMovesRefine ==
  ASSUME OrchestrationIInv, OrchestrationIInv', ExecMoves, UNCHANGED child
  PROVE  [Slots!SlotNext]_Slots!slotVars
PROOF
<1>0. /\ OrchestrationTypeOK /\ Executions /\ Executions' /\ Children
      /\ Attempts \in Nat /\ Attempt = 1..Attempts
  BY OrchestrationAssumption DEF OrchestrationIInv, Attempt
<1>1. PICK m : LastInTime(m)
  BY <1>0 DEF Executions, LastInTime
<1>2. Launcher = m
  BY <1>1, LauncherIsLast
<1>3. Accounted' = Accounted
  <2>1. \A k \in Attempt : \A r \in Planned :
          r \in InHistory(k) => (Overdue(k)' <=> Overdue(k))
    BY <1>0 DEF Children, Started, InHistory, ExecMoves, Overdue
  <2>2. \A k : InHistory(k)' = InHistory(k)
    BY DEF InHistory
  <2> QED
    BY <2>1, <2>2 DEF Accounted, InHistory
<1>4. CASE \A a \in Attempt : InTime(a)' <=> InTime(a)
  <2>1. LastInTime(m)'
    BY <1>0, <1>1, <1>4 DEF LastInTime
  <2>2. Launcher' = m
    BY <2>1, LauncherIsLastNext
  <2> QED
    BY <1>2, <1>3, <2>2 DEF Slots!slotVars
<1>5. CASE \E a \in Attempt : ~(InTime(a)' <=> InTime(a))
  <2>1. PICK a \in Attempt : ~(InTime(a)' <=> InTime(a))
    BY <1>5
  <2>2. a = current /\ Clear(a) /\ ~InTime(a) /\ InTime(a)'
    BY <2>1 DEF ExecMoves, InTime, Overdue
  <2>3. \A b \in Attempt : InTime(b) => b < a
    <3>1. \A b \in Attempt : InTime(b) => b <= current
      BY <1>0 DEF Executions
    <3> QED
      BY <1>0, <2>2, <3>1
  <2>4. \A b \in Attempt : b # a => (InTime(b)' <=> InTime(b))
    BY <2>2 DEF ExecMoves, InTime, Overdue
  <2>5. LastInTime(a)'
    BY <1>0, <2>2, <2>3, <2>4 DEF LastInTime
  <2>6. Launcher' = a /\ a > m
    BY <1>0, <1>1, <2>3, <2>5, LauncherIsLastNext DEF LastInTime
  <2>7. Accounted = Older(a)
    BY <1>0, <2>3 DEF Older, Accounted, InHistory, Children, Started, InTime
  <2>8. Cardinality(Accounted) + Cardinality(Planned) <= Cap
    BY <2>2, <2>7 DEF Clear
  <2>9. a > Launcher /\ Launcher' = a /\ Accounted' = Accounted
    BY <1>2, <1>3, <2>6
  <2>10. Slots!TakeOver(a)
    <3>1. \A S : Slots!Cardinality(S) = Cardinality(S)
      BY DEF Slots!Cardinality, Cardinality
    <3> QED
      BY <2>8, <2>9, <3>1 DEF Slots!TakeOver
  <2> QED
    BY <1>0, <2>10 DEF Slots!SlotNext
<1> QED
  BY <1>4, <1>5

\* Where an encoder changes, it begins to be accounted for as one of the last
\* attempt, or ends.
LEMMA ChildMovesRefine ==
  ASSUME OrchestrationIInv, UNCHANGED <<exec, late>>,
         NEW a \in Attempt, NEW r \in Planned,
         Schedule(a, r) \/ Launch(a, r) \/ Record(a, r) \/ EndChild(a, r)
  PROVE  [Slots!SlotNext]_Slots!slotVars
PROOF
<1>0. /\ OrchestrationTypeOK /\ Executions /\ Children
      /\ Attempts \in Nat /\ Attempt = 1..Attempts
  BY OrchestrationAssumption DEF OrchestrationIInv, Attempt
<1>1. PICK m : LastInTime(m)
  BY <1>0 DEF Executions, LastInTime
<1>2. LastInTime(m)'
  BY <1>1 DEF LastInTime, InTime, Overdue
<1>3. Launcher = m /\ Launcher' = m
  BY <1>1, <1>2, LauncherIsLast, LauncherIsLastNext
<1>4. PICK x : child' = [child EXCEPT ![a][r] = x]
  BY DEF Schedule, Launch, Record, EndChild
<1>5. child \in [Attempt -> [Planned -> EncoderState]]
  BY <1>0 DEF OrchestrationTypeOK
<1>6. child'[a][r] = x
      /\ \A k \in Attempt : \A s \in Planned : <<k, s>> # <<a, r>> => child'[k][s] = child[k][s]
  BY <1>4, <1>5
<1>7. \A k : Overdue(k)' <=> Overdue(k)
  BY DEF Overdue
<1>8. CASE Overdue(a) \/ (child[a][r] # "recorded" /\ x # "recorded")
  <2>1. Accounted' = Accounted
    BY <1>6, <1>7, <1>8 DEF Accounted, InHistory
  <2> QED
    BY <1>3, <2>1 DEF Slots!slotVars
<1>9. CASE ~Overdue(a) /\ x = "recorded"
  <2>1. exec[a] = "running" /\ child[a][r] # "none"
    BY <1>4, <1>5, <1>9 DEF Schedule, Launch, Record, EndChild
  <2>2. InTime(a)
    BY <1>0, <1>9, <2>1 DEF Children, Started, InTime
  <2>3. a = m
    <3>1. a <= m /\ m \in 0..Attempts /\ m # 0
      BY <1>0, <1>1, <2>2 DEF LastInTime
    <3>2. m \in Attempt /\ InTime(m)
      BY <1>0, <1>1, <3>1 DEF LastInTime
    <3>3. Quiet(m)
      BY <1>0, <3>2 DEF Executions, Clear
    <3> QED
      BY <1>0, <1>9, <2>1, <3>1, <3>3 DEF Quiet
  <2>4. Accounted' = Accounted \cup {<<a, r>>}
    BY <1>6, <1>7, <1>9 DEF Accounted, InHistory
  <2>5. m # 0
    BY <1>0, <2>3
  <2>6. Slots!LaunchEncoder(r)
    BY <1>3, <2>3, <2>4, <2>5 DEF Slots!LaunchEncoder
  <2> QED
    BY <2>6 DEF Slots!SlotNext
<1>10. CASE ~Overdue(a) /\ child[a][r] = "recorded" /\ x # "recorded"
  <2>1. Accounted' = Accounted \ {<<a, r>>} /\ <<a, r>> \in Accounted
    BY <1>6, <1>7, <1>10 DEF Accounted, InHistory
  <2>2. Slots!EndEncoder(<<a, r>>)
    BY <1>3, <2>1 DEF Slots!EndEncoder
  <2> QED
    BY <2>1, <2>2 DEF Slots!SlotNext
<1> QED
  BY <1>8, <1>9, <1>10

\* Coordinators implement EncoderSlots: encoders they can account for begin for
\* one attempt at a time, and the next takes over only when all of them fit.
THEOREM OrchestrationImplementsSlots == OrchestrationSpec => ImplementsSlots
PROOF
<1>1. OrchestrationInit => Slots!SlotInit
  <2> SUFFICES ASSUME OrchestrationInit PROVE Slots!SlotInit
    OBVIOUS
  <2>1. LastInTime(0)
    BY OrchestrationAssumption DEF OrchestrationInit, LastInTime, InTime
  <2>2. Launcher = 0
    BY <2>1, LauncherIsLast
  <2>3. Accounted = {}
    BY DEF OrchestrationInit, Accounted, InHistory
  <2> QED
    BY <2>2, <2>3 DEF Slots!SlotInit
<1>2. /\ OrchestrationIInv /\ OrchestrationIInv' /\ [OrchestrationNext]_orchestrationVars
      => [Slots!SlotNext]_Slots!slotVars
  BY StepKinds, ExecMovesRefine, ChildMovesRefine
<1> QED
  BY <1>1, <1>2, OrchestrationInvariant, PTL
     DEF ImplementsSlots, Slots!SlotSpec, OrchestrationSpec

-----------------------------------------------------------------------------
(* CompletedBySuccess.                                                     *)

Succeeded(k) == k \notin Foreign /\ exec[k] = "succeeded"

\* A record the coordinator of attempt a may have: it polls an execution of
\* this service, and finalizes one that succeeded.
Rightly(a, c) ==
  /\ "pc" \in DOMAIN c
  /\ c.pc = "polling" => a \notin Foreign
  /\ c.pc = "finalizing" => Succeeded(a)

Elsewhere(c) == "pc" \in DOMAIN c /\ c.pc \notin {"polling", "finalizing"}

Shapes ==
  /\ co = [a \in Attempt |-> co[a]]
  /\ exec = [a \in Attempt |-> exec[a]]
  /\ child = [a \in Attempt |-> [r \in Planned |-> child[a][r]]]

SuccessInv ==
  /\ Shapes
  /\ \A a \in Attempt : Rightly(a, co[a])
  /\ \A a \in Attempt : Succeeded(a) => \A r \in Planned : child[a][r] = "encoded"
  /\ done # 0 => done \in Attempt /\ Succeeded(done)

\* A step gives one coordinator a record it may have, or none.
CoRight ==
  \/ co' = co
  \/ \E a \in Attempt : \E c : Rightly(a, c) /\ co' = [co EXCEPT ![a] = c]

\* An execution that has succeeded stays so, and it succeeds with its encoders.
ExecLasts ==
  /\ exec' = [a \in Attempt |-> exec'[a]]
  /\ \A a \in Attempt :
       /\ exec[a] = "succeeded" => exec'[a] = "succeeded"
       /\ /\ exec[a] # "succeeded" /\ exec'[a] = "succeeded" /\ a \notin Foreign
          => \A r \in Planned : child[a][r] = "encoded"

ChildLasts ==
  /\ child' = [a \in Attempt |-> [r \in Planned |-> child'[a][r]]]
  /\ \A a \in Attempt : \A r \in Planned :
       child[a][r] = "encoded" => child'[a][r] = "encoded"

\* Only a coordinator at the finalizer completes the job.
DoneRight ==
  done' = done \/ (done' \in Attempt /\ co[done'].pc = "finalizing")

SuccessMoves == CoRight /\ ExecLasts /\ ChildLasts /\ DoneRight

\* What these moves preserve.
LEMMA SuccessKeeps == ASSUME SuccessInv, SuccessMoves PROVE SuccessInv'
PROOF
<1>1. Shapes'
  <2>1. co' = [a \in Attempt |-> co'[a]]
    BY SMT DEF SuccessInv, Shapes, SuccessMoves, CoRight
  <2> QED
    BY <2>1 DEF Shapes, SuccessMoves, ExecLasts, ChildLasts
<1>2. ASSUME NEW k \in Attempt PROVE Succeeded(k) => Succeeded(k)'
  BY DEF Succeeded, SuccessMoves, ExecLasts
<1>3. ASSUME NEW k \in Attempt PROVE Rightly(k, co'[k])
  BY SMT DEF SuccessInv, Shapes, SuccessMoves, CoRight
<1>4. ASSUME NEW k \in Attempt PROVE Rightly(k, co[k])'
  BY <1>2, <1>3 DEF Rightly
<1>5. ASSUME NEW k \in Attempt, Succeeded(k)', NEW r \in Planned
      PROVE  child'[k][r] = "encoded"
  <2>1. child[k][r] = "encoded"
    BY <1>5 DEF SuccessInv, SuccessMoves, ExecLasts, Succeeded
  <2> QED
    BY <2>1 DEF SuccessMoves, ChildLasts
<1>6. ASSUME done' # 0 PROVE (done \in Attempt /\ Succeeded(done))'
  <2>1. PICK k \in Attempt : k = done' /\ Succeeded(k)
    BY <1>6 DEF SuccessInv, SuccessMoves, DoneRight, Rightly
  <2>2. Succeeded(k)'
    BY <1>2, <2>1
  <2> QED
    BY <2>1, <2>2 DEF Succeeded
<1> QED
  BY <1>1, <1>4, <1>5, <1>6 DEF SuccessInv

\* The heads of the loops lead neither to a poll nor to the finalizer.
LEMMA HeadsElsewhere ==
  ASSUME NEW a, NEW prior, NEW n, NEW found, NEW pending
  PROVE  /\ Elsewhere(StartHead(a, n))
         /\ Elsewhere(InspectionHead(a, prior, n, found, pending))
         /\ Elsewhere(BoundHead(a))
         /\ Elsewhere(NextTry(a))
         /\ Elsewhere(NextPrior(a, n, pending))
PROOF
<1>1. Elsewhere(Enter("cancelling")) /\ Elsewhere(Enter("resolving_last"))
      /\ Elsewhere(Enter("cancelling_priors"))
  BY DEF Elsewhere, Enter, Trying
<1>2. ASSUME NEW m PROVE Elsewhere(StartHead(a, m))
  BY <1>1 DEF StartHead, Checked, Elsewhere, Trying
<1>3. ASSUME NEW p, NEW m, NEW q, NEW u PROVE Elsewhere(InspectionHead(a, p, m, q, u))
  BY <1>1 DEF InspectionHead, Checked, Elsewhere, Looking
<1>4. Elsewhere(BoundHead(a))
  BY <1>3 DEF BoundHead
<1>5. Elsewhere(NextTry(a))
  BY <1>2 DEF NextTry
<1>6. Elsewhere(NextPrior(a, n, pending))
  BY <1>2, <1>3, <1>4 DEF NextPrior
<1> QED
  BY <1>2, <1>3, <1>4, <1>5, <1>6

\* Simple records of coordinators that neither poll nor finalize.
LEMMA EnterElsewhere ==
  /\ Elsewhere(Enter("cancelling")) /\ Elsewhere(Enter("cancelling_priors"))
  /\ Elsewhere(Enter("returned")) /\ Elsewhere(Enter("crashed"))
PROOF
  BY DEF Elsewhere, Enter, Trying

\* A coordinator that is elsewhere is rightly there.
LEMMA ElsewhereRight ==
  ASSUME NEW a \in Attempt, NEW place, NEW c, Elsewhere(c), Steps(a, place, c)
  PROVE  CoRight
PROOF
  BY DEF Elsewhere, Rightly, CoRight, Steps

\* One that goes on to poll an execution of this service is, too.
LEMMA PollRight ==
  ASSUME NEW a \in Attempt, NEW place, a \notin Foreign, Steps(a, place, PollHead(a))
  PROVE  CoRight
PROOF
<1>1. Rightly(a, PollHead(a))
  BY DEF Rightly, PollHead, Checked, Enter, Trying
<1> QED
  BY <1>1 DEF CoRight, Steps

\* What stays as it is keeps.
LEMMA SuccessSame ==
  ASSUME SuccessInv
  PROVE  /\ UNCHANGED exec => ExecLasts
         /\ UNCHANGED child => ChildLasts
         /\ UNCHANGED done => DoneRight
         /\ UNCHANGED co => CoRight
PROOF
<1>1. ASSUME UNCHANGED exec PROVE ExecLasts
  BY <1>1 DEF SuccessInv, Shapes, ExecLasts
<1>2. ASSUME UNCHANGED child PROVE ChildLasts
  BY <1>2 DEF SuccessInv, Shapes, ChildLasts
<1> QED
  BY <1>1, <1>2 DEF DoneRight, CoRight

\* Starting and stopping leave executions that have succeeded alone.
LEMMA StopsLast ==
  ASSUME SuccessInv, NEW k
  PROVE  /\ Stop(k) => ExecLasts
         /\ StartInDoubt(k) => ExecLasts
PROOF
<1>1. ASSUME Stop(k) PROVE ExecLasts
  BY <1>1, SuccessSame, SMT DEF SuccessInv, Shapes, ExecLasts, Stop
<1>2. ASSUME StartInDoubt(k) PROVE ExecLasts
  BY <1>2, SuccessSame, SMT DEF SuccessInv, Shapes, ExecLasts, StartInDoubt, TakesEffect
<1> QED
  BY <1>1, <1>2

\* The bound on earlier attempts decides nothing about completion.
LEMMA BoundRight ==
  ASSUME SuccessInv, NEW a \in Attempt, Begin(a) \/ BoundStep(a)
  PROVE  SuccessMoves
PROOF
<1>1. CoRight
  <2>1. CASE Begin(a)
    BY <2>1, HeadsElsewhere, EnterElsewhere, ElsewhereRight, Zenon DEF Begin
  <2>2. CASE InspectPrior(a)
    <3>1. Elsewhere(At(co[a], "cancelling_prior")) /\ Elsewhere(At(co[a], "counting"))
      BY DEF SuccessInv, Rightly, Elsewhere, At
    <3> QED
      BY <2>2, <3>1, HeadsElsewhere, ElsewhereRight, Zenon DEF InspectPrior
  <2>3. CASE StopPrior(a) \/ CountResidual(a) \/ PriorUnknown(a) \/ PriorFails(a)
    BY <2>3, HeadsElsewhere, EnterElsewhere, ElsewhereRight, Zenon
       DEF StopPrior, CountResidual, PriorUnknown, PriorFails
  <2>4. CASE StopPriors(a)
    <3>1. co[a].pc = "cancelling_priors" => Elsewhere([co[a] EXCEPT !.prior = @ + 1])
      BY DEF SuccessInv, Rightly, Elsewhere
    <3>2. Steps(a, "cancelling_priors",
            IF co[a].prior < a - 1 THEN [co[a] EXCEPT !.prior = @ + 1] ELSE Enter("returned"))
          /\ co[a].pc = "cancelling_priors"
      BY <2>4 DEF StopPriors, Steps
    <3> QED
      BY <3>1, <3>2, EnterElsewhere, ElsewhereRight
  <2> QED
    BY <2>1, <2>2, <2>3, <2>4 DEF BoundStep
<1>2. ExecLasts
  <2>1. CASE StopPrior(a) \/ StopPriors(a)
    BY <2>1, StopsLast, Zenon DEF StopPrior, StopPriors
  <2>2. CASE ~(StopPrior(a) \/ StopPriors(a))
    BY <2>2, SuccessSame
       DEF BoundStep, Begin, InspectPrior, CountResidual, PriorUnknown, PriorFails, awsVars
  <2> QED
    BY <2>1, <2>2
<1>3. UNCHANGED child /\ UNCHANGED done
  BY DEF Begin, BoundStep, InspectPrior, StopPrior, CountResidual, PriorUnknown,
         PriorFails, StopPriors, envVars, awsVars
<1> QED
  BY <1>1, <1>2, <1>3, SuccessSame DEF SuccessMoves

\* A coordinator polls the execution it has started, or one that it has found
\* with its own input.
LEMMA StartRight ==
  ASSUME SuccessInv, NEW a \in Attempt, StartStep(a)
  PROVE  SuccessMoves
PROOF
<1>1. CoRight
  <2>1. CASE StartAccepted(a)
    BY <2>1, PollRight, Zenon DEF StartAccepted
  <2>2. CASE StartFails(a)
    <3>1. Elsewhere(At(co[a], "resolving"))
      BY DEF SuccessInv, Rightly, Elsewhere, At
    <3> QED
      BY <2>2, <3>1, ElsewhereRight, Zenon DEF StartFails
  <2>3. CASE StartDenied(a) \/ StartTimesOut(a)
    BY <2>3, EnterElsewhere, ElsewhereRight, Zenon DEF StartDenied, StartTimesOut
  <2>4. CASE Resolve(a)
    BY <2>4, PollRight, HeadsElsewhere, EnterElsewhere, ElsewhereRight, Zenon
       DEF Resolve, Attachable
  <2>5. CASE ResolveUnknown(a) \/ ResolveDenied(a) \/ ResolveTimesOut(a)
    BY <2>5, HeadsElsewhere, EnterElsewhere, ElsewhereRight, Zenon
       DEF ResolveUnknown, ResolveDenied, ResolveTimesOut
  <2> QED
    BY <2>1, <2>2, <2>3, <2>4, <2>5 DEF StartStep
<1>2. ExecLasts
  <2>1. CASE StartAccepted(a)
    <3>1. StartInDoubt(a) \/ UNCHANGED exec
      BY <2>1 DEF StartAccepted, StartInDoubt
    <3> QED
      BY <3>1, StopsLast, SuccessSame
  <2>2. CASE StartFails(a) \/ StartTimesOut(a)
    BY <2>2, StopsLast, Zenon DEF StartFails, StartTimesOut
  <2>3. CASE ~(StartAccepted(a) \/ StartFails(a) \/ StartTimesOut(a))
    BY <2>3, SuccessSame
       DEF StartStep, StartDenied, Resolve, ResolveUnknown, ResolveDenied,
           ResolveTimesOut, awsVars
  <2> QED
    BY <2>1, <2>2, <2>3
<1>3. UNCHANGED child /\ UNCHANGED done
  BY DEF StartStep, StartAccepted, StartFails, StartDenied, StartTimesOut, Resolve,
         ResolveUnknown, ResolveDenied, ResolveTimesOut, envVars, awsVars
<1> QED
  BY <1>1, <1>2, <1>3, SuccessSame DEF SuccessMoves

\* The finalizer is called for an execution that is seen to have succeeded.
LEMMA PollStepRight ==
  ASSUME SuccessInv, NEW a \in Attempt, PollStep(a)
  PROVE  SuccessMoves
PROOF
<1>1. CASE Poll(a)
  <2>1. a \notin Foreign
    BY <1>1 DEF Poll, Steps, SuccessInv, Rightly
  <2>2. CoRight
    <3>1. CASE exec[a] = "succeeded"
               /\ Steps(a, "polling", Checked(a, Enter("cancelling"),
                    Enter("returned"), Enter("finalizing")))
      <4>1. Rightly(a, Checked(a, Enter("cancelling"), Enter("returned"), Enter("finalizing")))
        BY <2>1, <3>1 DEF Rightly, Succeeded, Checked, Enter, Trying
      <4> QED
        BY <3>1, <4>1, Zenon DEF CoRight, Steps
    <3>2. CASE Steps(a, "polling", Enter("returned"))
      BY <3>2, EnterElsewhere, ElsewhereRight, Zenon
    <3>3. CASE Steps(a, "polling", PollHead(a))
      BY <2>1, <3>3, PollRight, Zenon
    <3> QED
      BY <1>1, <3>1, <3>2, <3>3, Zenon DEF Poll
  <2> QED
    BY <1>1, <2>2, SuccessSame DEF Poll, envVars, SuccessMoves
<1>2. CASE PollUnknown(a)
  <2>1. a \notin Foreign
    BY <1>2 DEF PollUnknown, Steps, SuccessInv, Rightly
  <2>2. CoRight
    BY <1>2, <2>1, PollRight DEF PollUnknown
  <2> QED
    BY <1>2, <2>2, SuccessSame DEF PollUnknown, envVars, awsVars, SuccessMoves
<1>3. CASE PollFails(a) \/ FinalizeFails(a)
  <2>1. CoRight
    BY <1>3, EnterElsewhere, ElsewhereRight, Zenon DEF PollFails, FinalizeFails
  <2> QED
    BY <1>3, <2>1, SuccessSame DEF PollFails, FinalizeFails, envVars, awsVars, SuccessMoves
<1>4. CASE Finalize(a)
  <2>1. CoRight
    BY <1>4, EnterElsewhere, ElsewhereRight, Zenon DEF Finalize
  <2>2. DoneRight
    BY <1>4 DEF Finalize, Steps, DoneRight
  <2> QED
    BY <1>4, <2>1, <2>2, SuccessSame DEF Finalize, awsVars, SuccessMoves
<1>5. CASE CancelAnswered(a)
  <2>1. CoRight
    BY <1>5, EnterElsewhere, ElsewhereRight, Zenon DEF CancelAnswered
  <2>2. ExecLasts
    BY <1>5, StopsLast DEF CancelAnswered
  <2> QED
    BY <1>5, <2>1, <2>2, SuccessSame DEF CancelAnswered, envVars, SuccessMoves
<1> QED
  BY <1>1, <1>2, <1>3, <1>4, <1>5 DEF PollStep

\* A process that dies at the finalizer may have completed the job.
LEMMA DieRight ==
  ASSUME SuccessInv, NEW a \in Attempt, Die(a)
  PROVE  SuccessMoves
PROOF
<1>1. CoRight
  BY EnterElsewhere, ElsewhereRight, Zenon DEF Die
<1>2. ExecLasts
  BY StopsLast, SuccessSame DEF Die
<1>3. DoneRight
  BY DEF Die, DoneRight
<1> QED
  BY <1>1, <1>2, <1>3, SuccessSame DEF Die, SuccessMoves

\* Nothing outside undoes an encoder that has ended well, and an execution
\* succeeds with all of them.
LEMMA CloudRight ==
  ASSUME SuccessInv, NEW a \in Attempt, Lose(a) \/ Expire(a) \/ Cloud(a)
  PROVE  SuccessMoves
PROOF
<1>1. CASE Lose(a) \/ Expire(a)
  BY <1>1, SuccessSame DEF Lose, Expire, awsVars, SuccessMoves
<1>2. CASE LateStartLands(a)
  <2>1. StartInDoubt(a)
    BY <1>2 DEF LateStartLands, StartInDoubt
  <2>2. ExecLasts
    BY <2>1, StopsLast
  <2> QED
    BY <1>2, <2>2, SuccessSame DEF LateStartLands, envVars, SuccessMoves
<1>3. CASE EndExecution(a)
  <2>1. ExecLasts
    BY <1>3, SMT DEF EndExecution, SuccessInv, Shapes, ExecLasts
  <2> QED
    BY <1>3, <2>1, SuccessSame DEF EndExecution, envVars, SuccessMoves
<1>4. ASSUME NEW r \in Planned,
             Schedule(a, r) \/ Launch(a, r) \/ Record(a, r) \/ EndChild(a, r)
      PROVE  SuccessMoves
  <2>1. PICK s : child[a][r] # "encoded" /\ child' = [child EXCEPT ![a][r] = s]
    BY <1>4 DEF Schedule, Launch, Record, EndChild, Running
  <2>2. ASSUME NEW k \in Attempt
        PROVE  child'[k] = [q \in Planned |-> IF k = a /\ q = r THEN s ELSE child[k][q]]
    BY <2>1 DEF SuccessInv, Shapes
  <2>3. child' = [k \in Attempt |-> child'[k]]
    BY <2>1 DEF SuccessInv, Shapes
  <2>4. ChildLasts
    BY <2>1, <2>2, <2>3 DEF ChildLasts
  <2> QED
    BY <1>4, <2>4, SuccessSame
       DEF Schedule, Launch, Record, EndChild, envVars, SuccessMoves
<1> QED
  BY <1>1, <1>2, <1>3, <1>4 DEF Cloud

\* Nothing has succeeded at the start.
LEMMA SuccessInit == OrchestrationInit => SuccessInv
PROOF
<1> SUFFICES ASSUME OrchestrationInit PROVE SuccessInv
  OBVIOUS
<1>1. Shapes
  BY DEF OrchestrationInit, Shapes
<1>2. ASSUME NEW a \in Attempt PROVE Rightly(a, co[a]) /\ ~Succeeded(a)
  BY DEF OrchestrationInit, Rightly, Enter, Trying, Succeeded
<1>3. done = 0
  BY DEF OrchestrationInit
<1> QED
  BY <1>1, <1>2, <1>3 DEF SuccessInv

\* The job is completed only with
\* the output of an execution of this service that succeeded with all its
\* encoders.
THEOREM SuccessfulCompletion == OrchestrationSpec => []CompletedBySuccess
PROOF
<1>1. SuccessInv /\ [OrchestrationNext]_orchestrationVars => SuccessInv'
  <2> SUFFICES ASSUME SuccessInv, [OrchestrationNext]_orchestrationVars PROVE SuccessInv'
    OBVIOUS
  <2>1. CASE OrchestrationNext
    <3>1. PICK a \in Attempt :
            \/ Begin(a) \/ BoundStep(a) \/ StartStep(a) \/ PollStep(a)
            \/ Lose(a) \/ Expire(a) \/ Die(a)
            \/ Cloud(a)
      BY <2>1 DEF OrchestrationNext
    <3>2. SuccessMoves
      BY <3>1, BoundRight, StartRight, PollStepRight, DieRight, CloudRight
    <3> QED
      BY <3>2, SuccessKeeps
  <2>2. CASE UNCHANGED orchestrationVars
    BY <2>2, SuccessSame, SuccessKeeps DEF orchestrationVars, SuccessMoves
  <2> QED
    BY <2>1, <2>2
<1>2. SuccessInv => CompletedBySuccess
  BY DEF SuccessInv, CompletedBySuccess, Succeeded
<1> QED
  BY SuccessInit, <1>1, <1>2, PTL DEF OrchestrationSpec

-----------------------------------------------------------------------------
(* ResidualScan: the count of the encoders that an ended execution has      *)
(* left behind, for any number of encoders, clusters and pages and any      *)
(* size of a batch.                                                         *)
(*                                                                          *)
(* An answer is about no single instant, so the argument goes over what     *)
(* can only shrink: the history has stopped to grow, and a task with an ARN *)
(* never starts again.  Whoever is alive and recorded was so at the call,   *)
(* and is either still to be described or among the residual.               *)

\* A recorded task has been running, and without a trace there is no task.
HistoryKnows ==
  \A e \in Encoder :
    /\ named[e] # 0 => requested[e] # 0 /\ task[e] \in {"running", "stopped", "forgotten"}
    /\ requested[e] = 0 => task[e] = "never"

\* What has been read of the history is what its pages show so far.
ReadSoFar ==
  pc = "history" =>
    /\ residual = {} /\ told = {}
    /\ \A e \in Encoder :
         /\ named[e] \in 1..(page - 1) => e \in arns
         /\ requested[e] \in 1..(page - 1) => saw

\* Only ARNs of the history are collected.
ArnsAreNamed == \A e \in arns : named[e] # 0

\* The encoders that are alive become fewer while the call goes on.
AliveOnlyShrinks == pc # "idle" => LiveRecorded \subseteq alive

\* Nobody falls between the batches.
NobodySkipped ==
  pc \in {"describe", "stop", "answered"} =>
    /\ LiveRecorded \subseteq todo \cup residual
    /\ residual \subseteq alive

\* Requests to stop begin when everything is described, and an answer is
\* given when they are through.
StopsAfterCount ==
  /\ pc = "describe" => told = {}
  /\ pc = "stop" => todo = {}
  /\ pc = "answered" => todo = {} /\ told = residual

ScanInv ==
  /\ ScanTypeOK
  /\ HistoryKnows
  /\ ReadSoFar
  /\ ArnsAreNamed
  /\ AliveOnlyShrinks
  /\ NobodySkipped
  /\ StopsAfterCount
  /\ NeverClearedBlindly

\* There is a first page.
LEMMA FirstPage == 1 \in 1..Pages
BY ScanAssumption DEF ScanAssumption

\* Before the first call nothing is counted and nothing is claimed.
LEMMA InitScan == ScanInit => ScanInv
<1> SUFFICES ASSUME ScanInit PROVE ScanInv
  OBVIOUS
<1> USE DEF ScanInit
<1>1. ScanTypeOK
  BY FirstPage DEF ScanTypeOK
<1>2. HistoryKnows
  <2> SUFFICES ASSUME NEW e \in Encoder
               PROVE /\ named[e] # 0 => /\ requested[e] # 0
                                        /\ task[e] \in {"running", "stopped", "forgotten"}
                     /\ requested[e] = 0 => task[e] = "never"
    BY DEF HistoryKnows
  <2>1. named[e] # 0 => requested[e] # 0
    BY DEF Page
  <2> QED
    BY <2>1 DEF PossibleTasks, Page
<1> QED
  BY <1>1, <1>2 DEF ScanInv, ReadSoFar, ArnsAreNamed, AliveOnlyShrinks, NobodySkipped,
                    StopsAfterCount, NeverClearedBlindly

\* A new call forgets what the last one has counted.
LEMMA CallKeeps == ScanInv /\ Call => ScanInv'
<1> SUFFICES ASSUME ScanInv, Call PROVE ScanInv'
  OBVIOUS
<1> USE DEF Call, ScanInv, history
<1>1. ScanTypeOK'
  BY FirstPage DEF ScanTypeOK, LiveRecorded
<1>2. HistoryKnows'
  BY DEF HistoryKnows
<1>3. ReadSoFar'
  BY DEF ReadSoFar, ScanTypeOK, Page
<1> QED
  BY <1>1, <1>2, <1>3
     DEF ArnsAreNamed, AliveOnlyShrinks, NobodySkipped, StopsAfterCount,
         NeverClearedBlindly, LiveRecorded

\* The last page has completed the ARNs, so that nobody alive is missing; no
\* ARN and no trace of a task mean that there never was one.
LEMMA ReadPageKeeps == ScanInv /\ ReadPage => ScanInv'
<1> SUFFICES ASSUME ScanInv, ReadPage PROVE ScanInv'
  OBVIOUS
<1> USE DEF ReadPage, ScanInv, history
<1>1. ScanTypeOK'
  <2>1. pc' \in {"history", "describe", "answered", "failed"}
    BY DEF AfterHistory
  <2>2. page' \in 1..Pages
    BY ScanAssumption DEF ScanTypeOK, ScanAssumption
  <2>3. todo' \subseteq arns' /\ arns' \subseteq Encoder /\ saw' \in BOOLEAN
    BY DEF ScanTypeOK, NamedOn, SeenOn
  <2> QED
    BY <2>1, <2>2, <2>3 DEF ScanTypeOK
<1>2. HistoryKnows'
  BY DEF HistoryKnows
<1>3. residual = {} /\ told = {}
  BY DEF ReadSoFar
<1>4. \A e \in Encoder : /\ named[e] \in 1..page => e \in arns'
                         /\ requested[e] \in 1..page => saw'
  <2> SUFFICES ASSUME NEW e \in Encoder
               PROVE /\ named[e] \in 1..page => e \in arns'
                     /\ requested[e] \in 1..page => saw'
    OBVIOUS
  <2>1. page \in Nat /\ named[e] \in Nat /\ requested[e] \in Nat
    BY ScanAssumption DEF ScanTypeOK, ScanAssumption, Page
  <2>2. /\ named[e] \in 1..(page - 1) => e \in arns
        /\ requested[e] \in 1..(page - 1) => saw
    BY DEF ReadSoFar
  <2>3. named[e] \in 1..page => e \in arns'
    BY <2>1, <2>2 DEF NamedOn
  <2>4. requested[e] = page => saw'
    BY DEF SeenOn
  <2>5. requested[e] \in 1..page => requested[e] = page \/ requested[e] \in 1..(page - 1)
    BY <2>1
  <2>6. saw => saw'
    OBVIOUS
  <2> QED
    BY <2>2, <2>3, <2>4, <2>5, <2>6
<1>5. ArnsAreNamed'
  BY ScanAssumption DEF ArnsAreNamed, NamedOn, ScanTypeOK, ScanAssumption
<1>6. AliveOnlyShrinks'
  BY DEF AliveOnlyShrinks, LiveRecorded
<1>7. CASE page < Pages
  <2>1. ReadSoFar'
    BY <1>3, <1>4, <1>7, ScanAssumption DEF ReadSoFar, ScanTypeOK, ScanAssumption
  <2> QED
    BY <1>1, <1>2, <1>5, <1>6, <1>7, <2>1
       DEF NobodySkipped, StopsAfterCount, NeverClearedBlindly
<1>8. CASE ~(page < Pages)
  <2>1. page = Pages /\ pc' = AfterHistory(saw', arns') /\ todo' = arns'
    BY <1>8, ScanAssumption DEF ScanTypeOK, ScanAssumption
  <2>2. \A e \in Encoder : /\ named[e] # 0 => e \in arns'
                           /\ requested[e] # 0 => saw'
    BY <1>4, <2>1, ScanAssumption DEF ScanTypeOK, ScanAssumption, Page
  <2>3. pc' # "history"
    BY <2>1 DEF AfterHistory
  <2>4. NobodySkipped'
    BY <1>3, <2>1, <2>2 DEF NobodySkipped, LiveRecorded
  <2>5. pc' = "answered" => arns' = {} /\ ~saw'
    BY <2>1 DEF AfterHistory
  <2>6. NeverClearedBlindly'
    BY <2>2, <2>5, <1>2 DEF NeverClearedBlindly, HistoryKnows
  <2>7. StopsAfterCount'
    BY <1>3, <2>1, <2>5 DEF StopsAfterCount, AfterHistory
  <2> QED
    BY <1>1, <1>2, <1>5, <1>6, <2>3, <2>4, <2>6, <2>7 DEF ReadSoFar
<1> QED
  BY <1>7, <1>8

\* A batch moves those that are alive from the open ARNs to the residual.
LEMMA DescribeChunkKeeps == ScanInv /\ DescribeChunk => ScanInv'
<1> SUFFICES ASSUME ScanInv, DescribeChunk PROVE ScanInv'
  OBVIOUS
<1> USE DEF ScanInv, history
<1>1. PICK chunk \in (SUBSET todo) \ {{}} :
        todo' = todo \ chunk /\ residual' = residual \cup Alive(chunk)
  BY DEF DescribeChunk, LeftAfter
<1>2. /\ pc = "describe"
      /\ pc' = IF todo' # {} THEN "describe" ELSE IF residual' = {} THEN "answered" ELSE "stop"
      /\ UNCHANGED <<requested, named, cluster, task, page, saw, arns, told, stopping, alive>>
  BY DEF DescribeChunk
<1>3. arns # {} /\ chunk \subseteq arns
  BY <1>1 DEF ScanTypeOK
<1>4. ScanTypeOK'
  BY <1>1, <1>2, <1>3 DEF ScanTypeOK, Alive
<1>5. Alive(chunk) \subseteq LiveRecorded
  <2> SUFFICES ASSUME NEW e \in Alive(chunk) PROVE e \in LiveRecorded
    OBVIOUS
  <2>1. e \in arns /\ e \in Encoder /\ task[e] \notin {"stopped", "forgotten"}
    BY <1>3 DEF Alive, ScanTypeOK
  <2>2. named[e] # 0 /\ task[e] = "running"
    BY <2>1 DEF ArnsAreNamed, HistoryKnows
  <2> QED
    BY <2>1, <2>2 DEF LiveRecorded
<1>6. NobodySkipped'
  <2>1. LiveRecorded \subseteq todo' \cup residual'
    BY <1>1, <1>2 DEF NobodySkipped, Alive, LiveRecorded
  <2>2. residual' \subseteq alive
    BY <1>1, <1>2, <1>5 DEF NobodySkipped, AliveOnlyShrinks
  <2> QED
    BY <1>2, <2>1, <2>2 DEF NobodySkipped, LiveRecorded
<1>7. StopsAfterCount'
  BY <1>2 DEF StopsAfterCount
<1> QED
  BY <1>2, <1>3, <1>4, <1>6, <1>7
     DEF HistoryKnows, ReadSoFar, ArnsAreNamed, AliveOnlyShrinks, LiveRecorded,
         NeverClearedBlindly

\* The last of the residual has been told when the answer is given.
LEMMA StopOneKeeps == ScanInv /\ StopOne => ScanInv'
<1> SUFFICES ASSUME ScanInv, StopOne PROVE ScanInv'
  OBVIOUS
<1> USE DEF ScanInv, history
<1>1. PICK e \in residual \ told :
        told' = told \cup {e} /\ stopping' \in {stopping, stopping \cup {e}}
  BY DEF StopOne
<1>2. /\ pc = "stop"
      /\ pc' = IF told' = residual THEN "answered" ELSE "stop"
      /\ UNCHANGED <<requested, named, cluster, task, page, saw, arns, todo, residual, alive>>
  BY DEF StopOne, AfterStop
<1>3. ScanTypeOK'
  BY <1>1, <1>2 DEF ScanTypeOK
<1>4. arns # {}
  BY <1>1 DEF ScanTypeOK
<1>5. StopsAfterCount'
  BY <1>2 DEF StopsAfterCount
<1> QED
  BY <1>2, <1>3, <1>4, <1>5
     DEF HistoryKnows, ReadSoFar, ArnsAreNamed, AliveOnlyShrinks, NobodySkipped,
         LiveRecorded, NeverClearedBlindly

\* A scan that has failed claims nothing.
LEMMA ScanFailsKeeps == ScanInv /\ ScanFails => ScanInv'
BY DEF ScanInv, ScanFails, history, ScanTypeOK, HistoryKnows, ReadSoFar, ArnsAreNamed,
       AliveOnlyShrinks, NobodySkipped, StopsAfterCount, LiveRecorded, NeverClearedBlindly

\* ECS goes on meanwhile: recorded tasks only end, and tasks without any
\* trace do not start.
LEMMA TasksKeep ==
  ASSUME NEW e \in Encoder, ScanInv, TaskStarts(e) \/ TaskStops(e) \/ TaskForgotten(e)
  PROVE  ScanInv'
<1> USE DEF ScanInv, history, scanVars
<1>1. PICK to \in {"running", "stopped", "forgotten"} :
        /\ task' = [task EXCEPT ![e] = to]
        /\ \/ task[e] = "pending" /\ to = "running"
           \/ task[e] \in {"running", "stopped"} /\ to # "running"
  BY DEF TaskStarts, TaskStops, TaskForgotten, Becomes
<1>2. UNCHANGED <<requested, named, cluster, pc, page, saw, arns, todo, residual, told,
                 stopping, alive>>
  BY DEF TaskStarts, TaskStops, TaskForgotten, Becomes
<1>3. ScanTypeOK'
  BY <1>1, <1>2 DEF ScanTypeOK, TaskState
<1>4. \A d \in Encoder : task'[d] = IF d = e THEN to ELSE task[d]
  BY <1>1 DEF ScanTypeOK
<1>5. HistoryKnows'
  BY <1>1, <1>2, <1>4 DEF HistoryKnows
<1>6. LiveRecorded' \subseteq LiveRecorded
  BY <1>1, <1>2, <1>4 DEF LiveRecorded, HistoryKnows
<1>7. NeverClearedBlindly'
  BY <1>1, <1>2, <1>4 DEF NeverClearedBlindly
<1>8. ReadSoFar' /\ ArnsAreNamed'
  BY <1>2 DEF ReadSoFar, ArnsAreNamed
<1>9. AliveOnlyShrinks' /\ NobodySkipped' /\ StopsAfterCount'
  BY <1>2, <1>6 DEF AliveOnlyShrinks, NobodySkipped, StopsAfterCount
<1> QED
  BY <1>3, <1>5, <1>7, <1>8, <1>9

\* The invariant of a scan holds at every moment, for every number of
\* encoders, clusters and pages and every size of a batch.
THEOREM ScanInvariant == ScanSpec => []ScanInv
<1>1. ScanInv /\ [ScanNext]_residualVars => ScanInv'
  <2> SUFFICES ASSUME ScanInv, [ScanNext]_residualVars PROVE ScanInv'
    OBVIOUS
  <2>1. CASE Call
    BY <2>1, CallKeeps
  <2>2. CASE ReadPage
    BY <2>2, ReadPageKeeps
  <2>3. CASE DescribeChunk
    BY <2>3, DescribeChunkKeeps
  <2>4. CASE StopOne
    BY <2>4, StopOneKeeps
  <2>5. CASE ScanFails
    BY <2>5, ScanFailsKeeps
  <2>6. CASE \E e \in Encoder : TaskStarts(e) \/ TaskStops(e) \/ TaskForgotten(e)
    BY <2>6, TasksKeep
  <2>7. CASE UNCHANGED residualVars
    BY <2>7
       DEF residualVars, scanVars, history, ScanInv, ScanTypeOK, HistoryKnows, ReadSoFar,
           ArnsAreNamed, AliveOnlyShrinks, NobodySkipped, StopsAfterCount, LiveRecorded,
           NeverClearedBlindly
  <2> QED
    BY <2>1, <2>2, <2>3, <2>4, <2>5, <2>6, <2>7 DEF ScanNext
<1> QED
  BY InitScan, <1>1, PTL DEF ScanSpec

\* The scan stays within its types: only ARNs of the history are described,
\* counted and told to stop.
THEOREM ScanTypes == ScanSpec => []ScanTypeOK
<1>1. ScanInv => ScanTypeOK
  BY DEF ScanInv
<1> QED
  BY ScanInvariant, <1>1, PTL

\* An answer counts every recorded encoder that still runs, and none that had
\* ended before the call, however many pages and batches it took; and all it
\* counts have been told to stop.
THEOREM CountsAreBracketed == ScanSpec => []CountBracketed
<1>1. ScanInv => CountBracketed
  BY DEF ScanInv, NobodySkipped, StopsAfterCount, CountBracketed
<1> QED
  BY ScanInvariant, <1>1, PTL

\* No execution is cleared while it may have encoders, unless one of them
\* has an ARN.
THEOREM ClearedKnowingly == ScanSpec => []NeverClearedBlindly
<1>1. ScanInv => NeverClearedBlindly
  BY DEF ScanInv
<1> QED
  BY ScanInvariant, <1>1, PTL
=============================================================================
