--------------------------- MODULE DeliveryProofs ---------------------------
(***************************************************************************)
(* Proofs about deliveries, for any number of messages, records, jobs,     *)
(* workers and concurrent deliveries: what is acknowledged is completed,   *)
(* and what is delayed is released.                                        *)
(*                                                                         *)
(* What a delivery has learnt of a record while it worked through its      *)
(* message is old news by the time it settles.  The argument is that this  *)
(* news keeps: a COMPLETED row stays COMPLETED, the attempts of a row only *)
(* grow, and an attempt that has lost its row never holds it again, in     *)
(* every step of the jobs table (StepByRow of JobLeaseProofs).             *)
(***************************************************************************)
EXTENDS Delivery, JobLeaseProofs

\* The row of record r is COMPLETED.
Finished(r) == r # Malformed /\ jobs[r].status = "COMPLETED"

\* Attempt a of worker w at job j is over.
Over(j, w, a) ==
  jobs[j].attempt >= a /\ ~(HeldBy(j, w) /\ jobs[j].attempt = a)

\* What acquisition noted of record r is so.
Known(r, d) ==
  /\ d.attempt > 0 => r \in Job /\ jobs[r].attempt >= d.attempt
  /\ d.done => Finished(r)

\* Delivery v of worker w is where its records let it be.
SlotOK(v, w) ==
  LET rs == records[v.msg]
  IN /\ v.pc \in {"claim", "acquire"} =>
          v.next = Len(v.got) + 1 /\ v.next <= Len(rs) /\ v.ack /\ ~v.retry
     /\ v.pc = "acquire" => rs[v.next] \in Job
     /\ v.pc \in {"process", "settle"} => Len(v.got) = Len(rs)
     /\ v.pc = "settle" /\ (v.ack \/ (v.retry /\ ~v.lost)) => v.next > Len(rs)
     /\ v.pc # "idle" => \A i \in 1..Len(v.got) : Known(rs[i], v.got[i])
     /\ v.pc \in {"process", "settle"} =>
          \A i \in 1..Len(v.got) : i < v.next =>
            /\ v.ack => Finished(rs[i])
            /\ v.got[i].attempt > 0 => Over(rs[i], w, v.got[i].attempt)

SlotsOK == \A s \in Slot : SlotOK(slot[s], WorkerOf(s))

\* Only messages that exist are in the queue, and each has a record.
QueueOK ==
  \A m \in Message : queue[m].at # "absent" => Len(records[m]) > 0

Typed ==
  /\ records \in [Message -> Seq(Job \cup {Malformed})]
  /\ queue \in [Message -> QueueState]
  /\ slot \in [Slot -> SlotState]

DeliveryInv == LeaseInv /\ Typed /\ QueueOK /\ SlotsOK /\ DeletedMeansCompleted

-----------------------------------------------------------------------------
\* News of a row keeps.
NewsKeeps ==
  \A j \in Job :
    /\ jobs[j].status = "COMPLETED" => jobs'[j].status = "COMPLETED"
    /\ jobs[j].attempt \in Nat /\ jobs'[j].attempt \in Nat
    /\ jobs'[j].attempt >= jobs[j].attempt
    /\ \A w \in Worker :
         HeldBy(j, w)' => HeldBy(j, w) \/ jobs'[j].attempt > jobs[j].attempt

\* Every step of the jobs table keeps it.
LEMMA NewsKeepsInSteps == LeaseInv /\ [LeaseNext]_jobs => LeaseInv' /\ NewsKeeps
  <1> SUFFICES ASSUME LeaseInv, [LeaseNext]_jobs, NEW j \in Job
               PROVE  /\ jobs[j].status = "COMPLETED" => jobs'[j].status = "COMPLETED"
                      /\ jobs[j].attempt \in Nat /\ jobs'[j].attempt \in Nat
                      /\ jobs'[j].attempt >= jobs[j].attempt
                      /\ \A w \in Worker : HeldBy(j, w)' =>
                           HeldBy(j, w) \/ jobs'[j].attempt > jobs[j].attempt
    BY NextInv DEF NewsKeeps
  <1>1. RowInv(jobs[j]) /\ RowInv(jobs'[j])
    BY NextInv, InvByRow DEF LeaseInv, LeaseTypeOK, OwnedOnlyWhileProcessing,
       PlaybackResolvable, Live, RowInv
  <1>2. LeaseMove(jobs[j], jobs'[j])
    BY LeaseMoves
  <1>3. \/ StatusMove(jobs[j], jobs'[j])
        \/ jobs'[j].status = jobs[j].status /\ jobs'[j].attempt = jobs[j].attempt
    BY <1>1, StepByRow, AgedMove DEF GoodMove, RowInv
  <1>4. jobs[j].attempt \in Nat /\ jobs'[j].attempt \in Nat
    BY <1>1, LeaseAssumption DEF RowInv, Row
  <1>5. /\ jobs[j].status = "COMPLETED" => jobs'[j].status = "COMPLETED"
        /\ jobs'[j].attempt >= jobs[j].attempt
    BY <1>3, <1>4 DEF StatusMove
  <1>6. ASSUME NEW w \in Worker, HeldBy(j, w)'
        PROVE  HeldBy(j, w) \/ jobs'[j].attempt > jobs[j].attempt
    <2>1. CASE jobs[j].lease > 0
      BY <1>1, <1>2, <1>6, <2>1, LeaseAssumption DEF LeaseMove, HeldBy, Live, RowInv
    <2>2. CASE ~(jobs[j].lease > 0)
      BY <1>2, <1>4, <1>6, <2>2 DEF LeaseMove, HeldBy, Live
    <2>3. QED BY <2>1, <2>2
  <1>7. QED BY <1>4, <1>5, <1>6

\* What a delivery knows stays so while others work.
LEMMA SlotKeeps ==
  ASSUME Typed, NewsKeeps, UNCHANGED records,
         NEW v \in SlotState, NEW w \in Worker, SlotOK(v, w)
  PROVE  SlotOK(v, w)'
  <1> DEFINE rs == records[v.msg]
  <1>1. rs \in Seq(Job \cup {Malformed}) /\ records' = records
    BY DEF Typed, SlotState
  <1>2. v.got \in Seq(Disposition)
    BY DEF SlotState
  <1>3. ASSUME NEW r \in Job \cup {Malformed} PROVE Finished(r) => Finished(r)'
    BY <1>3 DEF NewsKeeps, Finished
  <1>4. ASSUME NEW r \in Job, NEW a \in Nat PROVE Over(r, w, a) => Over(r, w, a)'
    BY <1>4 DEF NewsKeeps, Over
  <1>5. ASSUME NEW i \in 1..Len(v.got) PROVE v.got[i] \in Disposition /\ v.got[i].attempt \in Nat
    <2>1. v.got[i] \in Disposition
      BY <1>2, <1>5
    <2>2. QED BY <2>1, LeaseAssumption DEF Disposition
  <1>6. ASSUME NEW r \in Job \cup {Malformed}, NEW d \in Disposition, Known(r, d)
        PROVE  Known(r, d)'
    <2>1. d.attempt \in Nat
      BY DEF Disposition
    <2>2. d.attempt > 0 => r \in Job /\ jobs'[r].attempt >= d.attempt
      BY <1>6, <2>1 DEF NewsKeeps, Known
    <2>3. QED BY <1>3, <1>6, <2>2 DEF Known
  <1>7. v.pc \in {"process", "settle"} \/ v.pc # "idle" =>
          \A i \in 1..Len(v.got) : i <= Len(rs) => rs[i] \in Job \cup {Malformed}
    BY <1>1
  <1>8. v.pc # "idle" => Len(v.got) <= Len(rs)
    BY <1>1, <1>2 DEF SlotOK, SlotState
  <1>9. ASSUME v.pc # "idle", NEW i \in 1..Len(v.got)
        PROVE  Known(rs[i], v.got[i])'
    <2>1. rs[i] \in Job \cup {Malformed} /\ v.got[i] \in Disposition
      BY <1>1, <1>2, <1>5, <1>8, <1>9
    <2>2. Known(rs[i], v.got[i])
      BY <1>9 DEF SlotOK
    <2>3. \A r \in Job \cup {Malformed}, d \in Disposition : Known(r, d) => Known(r, d)'
      BY <1>6
    <2>4. Known(rs[i], v.got[i])'
      BY <1>1, <2>1, <2>2, <2>3
    <2>5. QED BY <2>4
  <1>10. ASSUME v.pc \in {"process", "settle"}, NEW i \in 1..Len(v.got), i < v.next
         PROVE  /\ v.ack => Finished(rs[i])'
                /\ v.got[i].attempt > 0 => Over(rs[i], w, v.got[i].attempt)'
    <2>1. rs[i] \in Job \cup {Malformed} /\ Known(rs[i], v.got[i])
      BY <1>1, <1>2, <1>7, <1>8, <1>10 DEF SlotOK
    <2>2. /\ v.ack => Finished(rs[i])
          /\ v.got[i].attempt > 0 => Over(rs[i], w, v.got[i].attempt)
      BY <1>10 DEF SlotOK
    <2>3. v.got[i].attempt > 0 => rs[i] \in Job
      BY <2>1 DEF Known
    <2>4. QED BY <1>1, <1>3, <1>4, <1>5, <2>1, <2>2, <2>3
  <1>11. QED BY <1>1, <1>9, <1>10 DEF SlotOK
-----------------------------------------------------------------------------
\* A delivery field by field.
State(p, m, r, g, n, a, y, l) ==
  [ pc |-> p, msg |-> m, receipt |-> r, got |-> g, next |-> n,
    ack |-> a, retry |-> y, lost |-> l ]

\* Slot s comes to v, and what v says of its records is so.
Becomes(s, v) ==
  /\ v \in SlotState
  /\ slot' = [slot EXCEPT ![s] = v]
  /\ SlotOK(v, WorkerOf(s))'

\* If one slot does so while the news keeps, all slots are as they should be.
LEMMA OthersKeep ==
  ASSUME Typed, SlotsOK, NewsKeeps, UNCHANGED records,
         NEW s \in Slot, NEW v, Becomes(s, v)
  PROVE  slot' \in [Slot -> SlotState] /\ SlotsOK'
  <1>1. slot' \in [Slot -> SlotState]
    BY DEF Becomes, Typed
  <1>2. ASSUME NEW t \in Slot PROVE SlotOK(slot[t], WorkerOf(t))'
    <2>1. CASE t = s
      <3>1. slot'[t] = v
        BY <2>1 DEF Becomes, Typed
      <3>2. PICK u \in SlotState, w \in Worker : u = v /\ w = WorkerOf(s)
        BY DeliveryAssumption DEF Becomes, WorkerOf
      <3>3. SlotOK(v, WorkerOf(s))'
        BY DEF Becomes
      <3>4. SlotOK(u, w)'
        BY <3>2, <3>3 DEF SlotOK, WorkerOf, Known, Finished, Over, HeldBy, Live
      <3>5. slot'[t] = u
        BY <3>1, <3>2
      <3>6. QED BY <2>1, <3>2, <3>4, <3>5 DEF SlotOK, WorkerOf, Known, Finished, Over, HeldBy, Live
    <2>2. CASE t # s
      <3>1. slot'[t] = slot[t] /\ slot[t] \in SlotState /\ WorkerOf(t) \in Worker
        BY <2>2, DeliveryAssumption DEF Becomes, Typed, WorkerOf
      <3>2. PICK u \in SlotState, w \in Worker : u = slot[t] /\ w = WorkerOf(t)
        BY <3>1
      <3>3. SlotOK(u, w)'
        BY <3>2, SlotKeeps DEF SlotsOK
      <3>4. slot'[t] = u
        BY <3>1, <3>2
      <3>5. QED BY <3>2, <3>3, <3>4 DEF SlotOK, WorkerOf, Known, Finished, Over, HeldBy, Live
    <2>3. QED BY <2>1, <2>2
  <1>3. QED BY <1>1, <1>2 DEF SlotsOK

\* A slot whose fields are typed is a state of a slot.
LEMMA StateTyped ==
  ASSUME NEW p \in {"idle", "claim", "acquire", "process", "settle"}, NEW m \in Message,
         NEW r \in 0..MaxReceives, NEW g \in Seq(Disposition), NEW n \in Nat \ {0},
         NEW a \in BOOLEAN, NEW y \in BOOLEAN, NEW l \in BOOLEAN
  PROVE  State(p, m, r, g, n, a, y, l) \in SlotState
  BY DEF State, SlotState

-----------------------------------------------------------------------------
\* A message is received: there is a record to begin with.
LEMMA ReceiveBecomes ==
  ASSUME Typed, QueueOK, UNCHANGED records, NEW s \in Slot, NEW m \in Message,
         ReceiveMessage(s, m)
  PROVE  \E v : Becomes(s, v)
  <1> DEFINE v == State("claim", m, queue[m].receives + 1, <<>>, 1, TRUE, FALSE, FALSE)
  <1>1. slot' = [slot EXCEPT ![s] = v]
    BY DEF ReceiveMessage, Fresh, State
  <1>2. queue[m].receives + 1 \in 0..MaxReceives /\ queue[m].at # "absent"
    BY DeliveryAssumption DEF ReceiveMessage, Typed, QueueState
  <1>3. v \in SlotState
    <2>1. <<>> \in Seq(Disposition) /\ 1 \in Nat \ {0}
      OBVIOUS
    <2>2. QED BY <1>2, <2>1, StateTyped
  <1>4. Len(records[m]) > 0 /\ Len(records[m]) \in Nat
    BY <1>2 DEF QueueOK, Typed
  <1>5. SlotOK(v, WorkerOf(s))'
    BY <1>4 DEF SlotOK, State
  <1>6. Becomes(s, v)
    BY <1>1, <1>3, <1>5 DEF Becomes
  <1>7. QED BY <1>6

\* A slot is idle again.
LEMMA IdleBecomes ==
  ASSUME Typed, UNCHANGED records, NEW s \in Slot,
         slot' = [slot EXCEPT ![s] = Idle(slot[s].msg)]
  PROVE  \E v : Becomes(s, v)
  <1>1. PICK m \in Message : m = slot[s].msg
    BY DEF Typed, SlotState
  <1> DEFINE v == State("idle", m, 0, <<>>, 1, TRUE, FALSE, FALSE)
  <1>2. slot' = [slot EXCEPT ![s] = v]
    BY <1>1 DEF Idle, Fresh, State
  <1>3. v \in SlotState
    <2>1. <<>> \in Seq(Disposition) /\ 1 \in Nat \ {0} /\ 0 \in 0..MaxReceives
      BY DeliveryAssumption
    <2>2. QED BY <2>1, StateTyped
  <1>4. SlotOK(v, WorkerOf(s))'
    BY DEF SlotOK, State
  <1>5. QED BY <1>2, <1>3, <1>4 DEF Becomes

\* One field of a delivery set.
SetPc(u, x) == [u EXCEPT !.pc = x]
SetGot(u, x) == [u EXCEPT !.got = x]
SetNext(u, x) == [u EXCEPT !.next = x]
SetAck(u, x) == [u EXCEPT !.ack = x]
SetRetry(u, x) == [u EXCEPT !.retry = x]
SetLost(u, x) == [u EXCEPT !.lost = x]

\* And no other.
LEMMA PcSet ==
  \A p, m, r, g, n, a, y, l, x :
    SetPc(State(p, m, r, g, n, a, y, l), x) = State(x, m, r, g, n, a, y, l)
  BY DEF State, SetPc

\* The same for the dispositions,
LEMMA GotSet ==
  \A p, m, r, g, n, a, y, l, x :
    SetGot(State(p, m, r, g, n, a, y, l), x) = State(p, m, r, x, n, a, y, l)
  BY DEF State, SetGot

\* the next record,
LEMMA NextSet ==
  \A p, m, r, g, n, a, y, l, x :
    SetNext(State(p, m, r, g, n, a, y, l), x) = State(p, m, r, g, x, a, y, l)
  BY DEF State, SetNext

\* and the three flags.
LEMMA FlagSet ==
  /\ \A p, m, r, g, n, a, y, l, x :
       SetAck(State(p, m, r, g, n, a, y, l), x) = State(p, m, r, g, n, x, y, l)
  /\ \A p, m, r, g, n, a, y, l, x :
       SetRetry(State(p, m, r, g, n, a, y, l), x) = State(p, m, r, g, n, a, x, l)
  /\ \A p, m, r, g, n, a, y, l, x :
       SetLost(State(p, m, r, g, n, a, y, l), x) = State(p, m, r, g, n, a, y, x)
  BY DEF State, SetAck, SetRetry, SetLost

\* A delivery is its fields.
LEMMA Fields ==
  \A u \in SlotState :
    u = State(u.pc, u.msg, u.receipt, u.got, u.next, u.ack, u.retry, u.lost)
  BY DEF State, SlotState

\* A slot, its worker and its records now, and what they know after the step.
LEMMA SlotAfter ==
  ASSUME Typed, SlotsOK, NewsKeeps, UNCHANGED records, NEW s \in Slot
  PROVE  \E u \in SlotState, w \in Worker :
           u = slot[s] /\ w = WorkerOf(s) /\ SlotOK(u, w) /\ SlotOK(u, w)'
  <1>1. slot[s] \in SlotState /\ WorkerOf(s) \in Worker
    BY DeliveryAssumption DEF Typed, WorkerOf
  <1>2. PICK u \in SlotState, w \in Worker : u = slot[s] /\ w = WorkerOf(s)
    BY <1>1
  <1>3. SlotOK(u, w)
    BY <1>2 DEF SlotsOK
  <1>4. SlotOK(u, w)'
    BY <1>3, SlotKeeps
  <1>5. QED BY <1>2, <1>3, <1>4

\* Acquisition notes d of a record, rightly.
LEMMA DisposedBecomes ==
  ASSUME Typed, SlotsOK, NewsKeeps, UNCHANGED records, NEW s \in Slot,
         slot[s].pc \in {"claim", "acquire"},
         NEW d \in Disposition, Disposed(s, d),
         NEW r, r = RecordOf(s), Known(r, d)'
  PROVE  \E v : Becomes(s, v)
  <1>1. PICK u \in SlotState, w \in Worker :
           u = slot[s] /\ w = WorkerOf(s) /\ SlotOK(u, w) /\ SlotOK(u, w)'
    BY SlotAfter
  <1> DEFINE rs == records[u.msg]
             last == u.next = Len(rs)
             p == IF last THEN "process" ELSE "claim"
             n == IF last THEN 1 ELSE u.next + 1
             v == State(p, u.msg, u.receipt, Append(u.got, d), n, u.ack, u.retry, u.lost)
  <1>2. /\ u.got \in Seq(Disposition) /\ u.next \in Nat \ {0} /\ u.msg \in Message
        /\ u.pc \in {"claim", "acquire"}
        /\ rs \in Seq(Job \cup {Malformed}) /\ records' = records
    BY <1>1 DEF SlotState, Typed
  <1>3. /\ Append(u.got, d) \in Seq(Disposition) /\ Len(Append(u.got, d)) = Len(u.got) + 1
        /\ n \in Nat \ {0} /\ p \in {"process", "claim"}
    BY <1>2
  <1>4. v \in SlotState
    <2>1. /\ u.receipt \in 0..MaxReceives /\ u.ack \in BOOLEAN
          /\ u.retry \in BOOLEAN /\ u.lost \in BOOLEAN
      BY DEF SlotState
    <2> DEFINE g == Append(u.got, d)
    <2>2. g \in Seq(Disposition) /\ n \in Nat \ {0} /\ u.msg \in Message
          /\ p \in {"idle", "claim", "acquire", "process", "settle"}
      BY <1>2, <1>3
    <2>3. v = State(p, u.msg, u.receipt, g, n, u.ack, u.retry, u.lost)
      OBVIOUS
    <2> HIDE DEF v, g, n, p
    <2>4. QED BY <2>1, <2>2, <2>3, StateTyped, SMT
  <1>5. slot' = [slot EXCEPT ![s] = v]
    <2>1. slot' = [slot EXCEPT ![s].got = Append(u.got, d), ![s].next = n, ![s].pc = p]
      BY <1>1 DEF Disposed
    <2>2. slot' = [slot EXCEPT ![s] = SetPc(SetNext(SetGot(u, Append(u.got, d)), n), p)]
      BY <1>1, <2>1 DEF Typed, SetPc, SetNext, SetGot
    <2>3. SetPc(SetNext(SetGot(u, Append(u.got, d)), n), p) = v
      BY Fields, GotSet, NextSet, PcSet
    <2>4. QED BY <2>2, <2>3
  <1>6. u.next = Len(u.got) + 1 /\ u.next <= Len(rs) /\ u.ack /\ ~u.retry
    BY <1>1, <1>2 DEF SlotOK
  <1>7. ASSUME NEW i \in 1..Len(Append(u.got, d))
        PROVE  Known(rs[i], Append(u.got, d)[i])'
    <2>1. CASE i = u.next
      <3>1. Append(u.got, d)[i] = d /\ r = rs[i] /\ records'[u.msg][i] = rs[i]
        BY <1>1, <1>2, <1>6, <2>1 DEF RecordOf
      <3>2. QED BY <3>1
    <2>2. CASE i # u.next
      <3>1. i \in 1..Len(u.got) /\ Append(u.got, d)[i] = u.got[i]
        BY <1>2, <1>3, <1>6, <1>7, <2>2
      <3>2. Known(rs[i], u.got[i])'
        BY <1>1, <1>2, <3>1 DEF SlotOK
      <3>3. QED BY <3>1, <3>2
    <2>3. QED BY <2>1, <2>2
  <1>8. SlotOK(v, w)'
    <2>1. Len(rs) \in Nat /\ Len(u.got) \in Nat /\ records'[u.msg] = rs
      BY <1>2
    <2>2. QED BY <1>2, <1>3, <1>6, <1>7, <2>1 DEF SlotOK, State
  <1>9. Becomes(s, v)
    BY <1>1, <1>4, <1>5, <1>8 DEF Becomes, WorkerOf
  <1>10. QED BY <1>9

\* What acquisition may note is a disposition.
LEMMA NotesTyped ==
  /\ \A b \in BOOLEAN : NotAcquired(b) \in Disposition
  /\ \A r : Known(r, NotAcquired(FALSE))'
  <1>1. \A b \in BOOLEAN : NotAcquired(b) \in Disposition
    BY LeaseAssumption DEF NotAcquired, Disposition
  <1>2. ASSUME NEW r PROVE Known(r, NotAcquired(FALSE))'
    BY DEF Known, NotAcquired
  <1>3. QED BY <1>1, <1>2

\* A claim is one of the table's statements, or none, and leaves the slot right.
LEMMA ClaimBecomes ==
  ASSUME DeliveryInv, UNCHANGED records, NEW s \in Slot, ClaimRecord(s)
  PROVE  [LeaseNext]_jobs /\ (NewsKeeps => \E v : Becomes(s, v))
  <1>1. Typed /\ SlotsOK /\ slot[s].pc = "claim"
    BY DEF DeliveryInv, ClaimRecord
  <1>2. PICK u \in SlotState : u = slot[s] /\ SlotOK(u, WorkerOf(s))
    BY <1>1 DEF Typed, SlotsOK
  <1>3. PICK r \in Job \cup {Malformed} : r = RecordOf(s) /\ r = records[u.msg][u.next]
    <2>1. records[u.msg] \in Seq(Job \cup {Malformed}) /\ u.got \in Seq(Disposition)
      BY <1>1 DEF Typed, SlotState
    <2>2. u.next \in 1..Len(records[u.msg])
      BY <1>1, <1>2, <2>1 DEF SlotOK
    <2>3. QED BY <1>2, <2>1, <2>2 DEF RecordOf
  <1>4. [LeaseNext]_jobs
    BY <1>3 DEF ClaimRecord, LeaseNext
  <1>5. CASE Disposed(s, NotAcquired(FALSE))
    BY <1>1, <1>3, <1>4, <1>5, NotesTyped, DisposedBecomes
  <1>6. CASE r # Malformed /\ slot' = [slot EXCEPT ![s].pc = "acquire"]
    <2> SUFFICES ASSUME NewsKeeps PROVE \E v : Becomes(s, v)
      BY <1>4
    <2>1. PICK x \in SlotState, w \in Worker :
             x = slot[s] /\ w = WorkerOf(s) /\ SlotOK(x, w) /\ SlotOK(x, w)'
      BY <1>1, SlotAfter
    <2> DEFINE v == State("acquire", x.msg, x.receipt, x.got, x.next, x.ack, x.retry, x.lost)
    <2>2. v \in SlotState
      <3>1. /\ x.msg \in Message /\ x.receipt \in 0..MaxReceives /\ x.ack \in BOOLEAN
            /\ x.got \in Seq(Disposition) /\ x.next \in Nat \ {0}
            /\ x.retry \in BOOLEAN /\ x.lost \in BOOLEAN
        BY DEF SlotState
      <3>2. QED BY <3>1, StateTyped
    <2>3. slot' = [slot EXCEPT ![s] = v]
      <3>1. slot' = [slot EXCEPT ![s] = SetPc(x, "acquire")]
        BY <1>1, <1>6, <2>1 DEF Typed, SetPc
      <3>2. SetPc(x, "acquire") = v
        BY Fields, PcSet
      <3>3. QED BY <3>1, <3>2
    <2>4. records'[x.msg][x.next] \in Job /\ x.pc = "claim"
      BY <1>1, <1>2, <1>3, <1>6, <2>1
    <2>5. SlotOK(v, w)'
      BY <2>1, <2>4 DEF SlotOK, State
    <2>6. Becomes(s, v)
      BY <2>1, <2>2, <2>3, <2>5 DEF Becomes, WorkerOf
    <2>7. QED BY <2>6
  <1>7. QED
    BY <1>3, <1>5, <1>6 DEF ClaimRecord

\* So is an acquisition.
LEMMA AcquireBecomes ==
  ASSUME DeliveryInv, UNCHANGED records, NEW s \in Slot, AcquireRecord(s)
  PROVE  [LeaseNext]_jobs /\ (NewsKeeps => \E v : Becomes(s, v))
  <1>1. Typed /\ SlotsOK /\ LeaseInv /\ slot[s].pc = "acquire"
    BY DEF DeliveryInv, AcquireRecord
  <1>2. PICK j \in Job, w \in Worker, m \in JobMode :
           j = RecordOf(s) /\ w = WorkerOf(s) /\ m = ModeOf[w]
    BY <1>1, DeliveryAssumption DEF SlotsOK, SlotOK, RecordOf, WorkerOf
  <1>3. [LeaseNext]_jobs
    BY <1>2 DEF AcquireRecord, LeaseNext
  <1>4. CASE Disposed(s, NotAcquired(FALSE))
    BY <1>1, <1>2, <1>3, <1>4, NotesTyped, DisposedBecomes
  <1>5. jobs = [i \in Job |-> jobs[i]] /\ jobs[j] \in Row
    BY <1>1, InvByRow DEF RowInv
  <1>6. CASE AcquireLease(j, w, m) /\ Disposed(s, Acquired(jobs[j].attempt + 1))
    <2>1. jobs[j].attempt + 1 \in 0..MaxAttempts
      BY <1>5, <1>6, LeaseAssumption DEF AcquireLease, CanAcquire, Row
    <2>2. PICK a \in 0..MaxAttempts : a = jobs[j].attempt + 1
      BY <2>1
    <2>3. Acquired(a) \in Disposition
      BY DEF Acquired, Disposition
    <2>4. jobs'[j].attempt = a
      BY <1>5, <1>6, <2>2 DEF AcquireLease, AcquiredRow
    <2>5. Known(j, Acquired(a))'
      BY <2>1, <2>2, <2>4 DEF Known, Acquired
    <2>6. QED BY <1>1, <1>2, <1>3, <1>6, <2>2, <2>3, <2>5, DisposedBecomes
  <1>7. CASE UNCHANGED jobs /\ Disposed(s, NotAcquired(Refusal(j) = "COMPLETED"))
    <2>1. PICK b \in BOOLEAN : b = (Refusal(j) = "COMPLETED")
      OBVIOUS
    <2>2. b => jobs[j].status = "COMPLETED"
      BY <2>1 DEF Refusal, Terminal
    <2>3. Known(j, NotAcquired(b))'
      BY <1>2, <1>7, <2>2, DeliveryAssumption DEF Known, NotAcquired, Finished
    <2>4. NotAcquired(b) \in Disposition
      BY NotesTyped
    <2>5. QED BY <1>1, <1>2, <1>3, <1>7, <2>1, <2>3, <2>4, DisposedBecomes
  <1>8. QED
    BY <1>2, <1>4, <1>6, <1>7 DEF AcquireRecord

-----------------------------------------------------------------------------
\* What a delivery u of worker w has before it when it comes to a record it
\* acquired.
LEMMA CurrentRecord ==
  ASSUME DeliveryInv, NEW s \in Slot, Processing(s)
  PROVE  \E u \in SlotState, r \in Job \cup {Malformed}, d \in Disposition :
           /\ u = slot[s] /\ u.pc = "process" /\ SlotOK(u, WorkerOf(s))
           /\ u.next \in 1..Len(u.got) /\ Len(u.got) = Len(records[u.msg])
           /\ d = u.got[u.next] /\ d = Current(s)
           /\ r = records[u.msg][u.next] /\ r = RecordOf(s) /\ Known(r, d)
  <1>1. Typed /\ SlotsOK
    BY DEF DeliveryInv
  <1>2. PICK u \in SlotState : u = slot[s] /\ SlotOK(u, WorkerOf(s)) /\ u.pc = "process"
    BY <1>1 DEF Typed, SlotsOK, Processing
  <1>3. u.got \in Seq(Disposition) /\ records[u.msg] \in Seq(Job \cup {Malformed}) /\ u.next \in Nat
    BY <1>1 DEF Typed, SlotState
  <1>4. Len(u.got) = Len(records[u.msg]) /\ u.next <= Len(u.got)
    BY <1>2 DEF SlotOK, Processing
  <1>5. u.next \in 1..Len(u.got) /\ Len(u.got) = Len(records[u.msg])
    BY <1>3, <1>4 DEF SlotState
  <1>6. u.got[u.next] \in Disposition /\ records[u.msg][u.next] \in Job \cup {Malformed}
    BY <1>3, <1>5
  <1>7. Known(records[u.msg][u.next], u.got[u.next])
    BY <1>2, <1>5 DEF SlotOK
  <1>8. u.got[u.next] = Current(s) /\ records[u.msg][u.next] = RecordOf(s)
    BY <1>2 DEF Current, RecordOf
  <1>9. QED
    BY <1>2, <1>5, <1>6, <1>7, <1>8

\* The delivery goes on to the next record, having dealt with this one rightly.
LEMMA AdvanceBecomes ==
  ASSUME DeliveryInv, NewsKeeps, UNCHANGED records, NEW s \in Slot, Processing(s),
         NEW u \in SlotState, u = slot[s], NEW w \in Worker, w = WorkerOf(s),
         NEW d \in Disposition, d = Current(s), NEW r, r = RecordOf(s),
         NEW a \in BOOLEAN, NEW y \in BOOLEAN,
         slot' = [slot EXCEPT ![s] =
           State(u.pc, u.msg, u.receipt, u.got, u.next + 1, a, y, u.lost)],
         a => u.ack /\ Finished(r)',
         d.attempt > 0 => Over(r, w, d.attempt)'
  PROVE  \E v : Becomes(s, v)
  <1>1. Typed /\ SlotsOK
    BY DEF DeliveryInv
  <1>2. SlotOK(u, w)'
    <2>1. PICK u2 \in SlotState, w2 \in Worker :
             u2 = slot[s] /\ w2 = WorkerOf(s) /\ SlotOK(u2, w2)'
      BY <1>1, SlotAfter
    <2>2. QED BY <2>1
  <1>3. /\ u.pc = "process" /\ u.next \in 1..Len(u.got) /\ records' = records
        /\ u.got \in Seq(Disposition) /\ u.got[u.next] = d /\ records[u.msg][u.next] = r
    BY CurrentRecord DEF Current, RecordOf, SlotState
  <1> DEFINE v == State(u.pc, u.msg, u.receipt, u.got, u.next + 1, a, y, u.lost)
  <1>4. v \in SlotState
    <2>1. /\ u.msg \in Message /\ u.receipt \in 0..MaxReceives
          /\ u.next + 1 \in Nat \ {0} /\ u.lost \in BOOLEAN
          /\ u.pc \in {"idle", "claim", "acquire", "process", "settle"}
      BY DEF SlotState
    <2>2. QED BY <1>3, <2>1, StateTyped
  <1>5. ASSUME NEW i \in 1..Len(u.got), i < u.next + 1
        PROVE  /\ a => Finished(records[u.msg][i])'
               /\ u.got[i].attempt > 0 => Over(records[u.msg][i], w, u.got[i].attempt)'
    <2>1. CASE i = u.next
      <3>1. records'[u.msg][i] = r /\ u.got[i] = d
        BY <1>3, <2>1
      <3>2. QED BY <3>1
    <2>2. CASE i # u.next
      <3>1. i < u.next
        BY <1>3, <1>5, <2>2
      <3>2. QED BY <1>2, <1>3, <1>5, <3>1 DEF SlotOK
    <2>3. QED BY <2>1, <2>2
  <1>6. SlotOK(v, w)'
    <2>1. Len(u.got) = Len(records'[u.msg]) /\ \A i \in 1..Len(u.got) : Known(records[u.msg][i], u.got[i])'
      BY <1>2, <1>3 DEF SlotOK
    <2>2. QED BY <1>3, <1>5, <2>1 DEF SlotOK, State
  <1>7. Becomes(s, v)
    BY <1>4, <1>6 DEF Becomes, WorkerOf
  <1>8. QED BY <1>7

\* The delivery comes to its end, with nothing to say if records are left.
LEMMA SettleBecomes ==
  ASSUME DeliveryInv, NewsKeeps, UNCHANGED records, NEW s \in Slot,
         slot[s].pc \in {"process", "settle"},
         NEW u \in SlotState, u = slot[s],
         NEW a \in BOOLEAN, NEW y \in BOOLEAN, NEW l \in BOOLEAN,
         slot' = [slot EXCEPT ![s] =
           State("settle", u.msg, u.receipt, u.got, u.next, a, y, l)],
         a => u.ack,
         a \/ (y /\ ~l) => u.next > Len(u.got)
  PROVE  \E v : Becomes(s, v)
  <1>1. Typed /\ SlotsOK
    BY DEF DeliveryInv
  <1>2. PICK w \in Worker : w = WorkerOf(s) /\ SlotOK(u, w)'
    BY <1>1, SlotAfter
  <1> DEFINE v == State("settle", u.msg, u.receipt, u.got, u.next, a, y, l)
  <1>3. v \in SlotState
    <2>1. /\ u.msg \in Message /\ u.receipt \in 0..MaxReceives
          /\ u.got \in Seq(Disposition) /\ u.next \in Nat \ {0}
      BY DEF SlotState
    <2>2. QED BY <2>1, StateTyped
  <1>4. SlotOK(v, w)'
    BY <1>2 DEF SlotOK, State
  <1>5. Becomes(s, v)
    BY <1>2, <1>3, <1>4 DEF Becomes, WorkerOf
  <1>6. QED BY <1>5

-----------------------------------------------------------------------------
\* The end of an attempt is a statement of the table after which it is over.
LEMMA EndsOver ==
  ASSUME LeaseInv, NEW j \in Job, NEW w \in Worker, NEW a \in 0..MaxAttempts,
         jobs[j].attempt >= a
  PROVE  /\ CompletedRow(j, w, a) => LeaseNext /\ Finished(j)' /\ Over(j, w, a)'
         /\ FailedRow(j, w, a) => LeaseNext /\ Over(j, w, a)'
  <1>1. jobs = [i \in Job |-> jobs[i]] /\ j # Malformed /\ w # NoWorker
    BY InvByRow, LeaseAssumption, DeliveryAssumption
  <1>2. ASSUME NEW to, NEW key, jobs' = [jobs EXCEPT ![j] = EndedRow(@, to, key)]
        PROVE  Over(j, w, a)' /\ jobs'[j].status = to
    BY <1>1, <1>2 DEF EndedRow, Over, HeldBy
  <1>3. CompletedRow(j, w, a) => LeaseNext
    BY DEF CompletedRow, LeaseNext
  <1>4. CompletedRow(j, w, a) => Finished(j)' /\ Over(j, w, a)'
    BY <1>1, <1>2 DEF CompletedRow, Complete, CompleteDistributed, Finished
  <1>5. FailedRow(j, w, a) => LeaseNext
    BY DEF FailedRow, LeaseNext
  <1>6. FailedRow(j, w, a) => Over(j, w, a)'
    BY <1>2 DEF FailedRow, ReleaseForRetry, FailJob
  <1>7. QED BY <1>3, <1>4, <1>5, <1>6

\* A delivery at work on a record has an attempt of that record's job.
LEMMA WorkingRecord ==
  ASSUME DeliveryInv, NEW s \in Slot, Working(s)
  PROVE  \E u \in SlotState, w \in Worker, j \in Job, d \in Disposition :
           /\ u = slot[s] /\ w = WorkerOf(s) /\ j = RecordOf(s) /\ d = Current(s)
           /\ d.attempt > 0 /\ d.attempt \in 0..MaxAttempts /\ jobs[j].attempt >= d.attempt
           /\ u.pc = "process"
  <1>1. PICK u \in SlotState, r \in Job \cup {Malformed}, d \in Disposition :
           /\ u = slot[s] /\ u.pc = "process" /\ d = Current(s)
           /\ r = RecordOf(s) /\ Known(r, d)
    BY CurrentRecord DEF Working
  <1>2. WorkerOf(s) \in Worker
    BY DeliveryAssumption DEF WorkerOf
  <1>3. d.attempt > 0 /\ d.attempt \in 0..MaxAttempts
    BY <1>1 DEF Working, Disposition
  <1>4. QED BY <1>1, <1>2, <1>3 DEF Known

\* A record that was not acquired is passed over.
LEMMA SkipBecomes ==
  ASSUME DeliveryInv, NewsKeeps, UNCHANGED records, NEW s \in Slot, SkipRecord(s)
  PROVE  \E v : Becomes(s, v)
  <1>1. PICK u \in SlotState, r \in Job \cup {Malformed}, d \in Disposition :
           /\ u = slot[s] /\ d = Current(s) /\ r = RecordOf(s) /\ Known(r, d)
    BY CurrentRecord DEF SkipRecord
  <1>2. PICK w \in Worker : w = WorkerOf(s)
    BY DeliveryAssumption DEF WorkerOf
  <1>3. PICK a \in BOOLEAN : a = (u.ack /\ d.done)
    OBVIOUS
  <1>4. PICK y \in BOOLEAN : y = u.retry
    BY DEF SlotState
  <1>5. slot' = [slot EXCEPT ![s] =
                   State(u.pc, u.msg, u.receipt, u.got, u.next + 1, a, y, u.lost)]
    <2>1. slot' = [slot EXCEPT ![s].next = u.next + 1, ![s].ack = a]
      BY <1>1, <1>3 DEF SkipRecord
    <2>2. slot' = [slot EXCEPT ![s] = SetAck(SetNext(u, u.next + 1), a)]
      BY <1>1, <2>1 DEF DeliveryInv, Typed, SetAck, SetNext
    <2>3. SetAck(SetNext(u, u.next + 1), a) =
            State(u.pc, u.msg, u.receipt, u.got, u.next + 1, a, y, u.lost)
      BY <1>4, Fields, NextSet, FlagSet
    <2>4. QED BY <2>2, <2>3
  <1>6. a => u.ack /\ Finished(r)'
    BY <1>1, <1>3 DEF Known, SkipRecord, Finished
  <1>7. ~(d.attempt > 0) /\ Processing(s)
    BY <1>1 DEF SkipRecord
  <1>8. QED BY <1>1, <1>2, <1>5, <1>6, <1>7, AdvanceBecomes

\* A completed record is passed, and was finished by this delivery.
LEMMA CompleteBecomes ==
  ASSUME DeliveryInv, UNCHANGED records, NEW s \in Slot, CompleteRecord(s)
  PROVE  [LeaseNext]_jobs /\ (NewsKeeps => \E v : Becomes(s, v))
  <1>1. PICK u \in SlotState, w \in Worker, j \in Job, d \in Disposition :
           /\ u = slot[s] /\ w = WorkerOf(s) /\ j = RecordOf(s) /\ d = Current(s)
           /\ d.attempt > 0 /\ d.attempt \in 0..MaxAttempts /\ jobs[j].attempt >= d.attempt
    BY WorkingRecord DEF CompleteRecord
  <1>2. LeaseNext /\ Finished(j)' /\ Over(j, w, d.attempt)'
    BY <1>1, EndsOver DEF CompleteRecord, DeliveryInv
  <1>3. PICK a \in BOOLEAN, y \in BOOLEAN : a = u.ack /\ y = u.retry
    BY DEF SlotState
  <1>4. slot' = [slot EXCEPT ![s] =
                   State(u.pc, u.msg, u.receipt, u.got, u.next + 1, a, y, u.lost)]
    <2>1. slot' = [slot EXCEPT ![s] = SetNext(u, u.next + 1)]
      BY <1>1 DEF CompleteRecord, DeliveryInv, Typed, SetNext
    <2>2. SetNext(u, u.next + 1) =
            State(u.pc, u.msg, u.receipt, u.got, u.next + 1, a, y, u.lost)
      BY <1>3, Fields, NextSet
    <2>3. QED BY <2>1, <2>2
  <1>5. NewsKeeps => \E v : Becomes(s, v)
    BY <1>1, <1>2, <1>3, <1>4, AdvanceBecomes DEF CompleteRecord, Working
  <1>6. QED BY <1>2, <1>5

\* A failed record is passed, is not acknowledged, and its attempt is over.
LEMMA FailBecomes ==
  ASSUME DeliveryInv, UNCHANGED records, NEW s \in Slot, FailRecord(s)
  PROVE  [LeaseNext]_jobs /\ (NewsKeeps => \E v : Becomes(s, v))
  <1>1. PICK u \in SlotState, w \in Worker, j \in Job, d \in Disposition :
           /\ u = slot[s] /\ w = WorkerOf(s) /\ j = RecordOf(s) /\ d = Current(s)
           /\ d.attempt > 0 /\ d.attempt \in 0..MaxAttempts /\ jobs[j].attempt >= d.attempt
    BY WorkingRecord DEF FailRecord
  <1>2. LeaseNext /\ Over(j, w, d.attempt)'
    BY <1>1, EndsOver DEF FailRecord, DeliveryInv
  <1>3. PICK a \in BOOLEAN, y \in BOOLEAN :
           a = FALSE /\ y = (u.retry \/ d.attempt < MaxAttempts)
    OBVIOUS
  <1>4. slot' = [slot EXCEPT ![s] =
                   State(u.pc, u.msg, u.receipt, u.got, u.next + 1, a, y, u.lost)]
    <2>1. slot' = [slot EXCEPT ![s].next = u.next + 1, ![s].ack = a, ![s].retry = y]
      BY <1>1, <1>3 DEF FailRecord
    <2>2. slot' = [slot EXCEPT ![s] = SetRetry(SetAck(SetNext(u, u.next + 1), a), y)]
      BY <1>1, <2>1 DEF DeliveryInv, Typed, SetNext, SetAck, SetRetry
    <2>3. SetRetry(SetAck(SetNext(u, u.next + 1), a), y) =
            State(u.pc, u.msg, u.receipt, u.got, u.next + 1, a, y, u.lost)
      BY Fields, NextSet, FlagSet
    <2>4. QED BY <2>2, <2>3
  <1>5. NewsKeeps => \E v : Becomes(s, v)
    BY <1>1, <1>2, <1>3, <1>4, AdvanceBecomes DEF FailRecord, Working
  <1>6. QED BY <1>2, <1>5

\* A statement in doubt was applied or not; either way the delivery says nothing.
LEMMA GiveUpBecomes ==
  ASSUME DeliveryInv, UNCHANGED records, NEW s \in Slot, GiveUpUncertain(s)
  PROVE  [LeaseNext]_jobs /\ (NewsKeeps => \E v : Becomes(s, v))
  <1>1. PICK u \in SlotState, w \in Worker, j \in Job, d \in Disposition :
           /\ u = slot[s] /\ w = WorkerOf(s) /\ j = RecordOf(s) /\ d = Current(s)
           /\ d.attempt \in 0..MaxAttempts /\ jobs[j].attempt >= d.attempt
           /\ u.pc = "process"
    BY WorkingRecord DEF GiveUpUncertain, InDoubt
  <1>2. [LeaseNext]_jobs
    BY <1>1, EndsOver DEF GiveUpUncertain, InDoubt, DeliveryInv
  <1>3. PICK a \in BOOLEAN, y \in BOOLEAN, l \in BOOLEAN :
           a = FALSE /\ y = FALSE /\ l = u.lost
    BY DEF SlotState
  <1>4. slot' = [slot EXCEPT ![s] =
                   State("settle", u.msg, u.receipt, u.got, u.next, a, y, l)]
    <2>1. slot' = [slot EXCEPT ![s].pc = "settle", ![s].ack = a, ![s].retry = y]
      BY <1>3 DEF GiveUpUncertain
    <2>2. slot' = [slot EXCEPT ![s] = SetRetry(SetAck(SetPc(u, "settle"), a), y)]
      BY <1>1, <2>1 DEF DeliveryInv, Typed, SetPc, SetAck, SetRetry
    <2>3. SetRetry(SetAck(SetPc(u, "settle"), a), y) =
            State("settle", u.msg, u.receipt, u.got, u.next, a, y, l)
      BY <1>3, Fields, PcSet, FlagSet
    <2>4. QED BY <2>2, <2>3
  <1>5. NewsKeeps => \E v : Becomes(s, v)
    BY <1>1, <1>3, <1>4, SettleBecomes
  <1>6. QED BY <1>2, <1>5

\* A delivery that has lost a heartbeat stops and says nothing.
LEMMA StopBecomes ==
  ASSUME DeliveryInv, NewsKeeps, UNCHANGED records, NEW s \in Slot, StopLost(s)
  PROVE  \E v : Becomes(s, v)
  <1>1. PICK u \in SlotState : u = slot[s] /\ u.pc = "process" /\ u.lost
    BY DEF DeliveryInv, Typed, StopLost, Processing
  <1>2. PICK a \in BOOLEAN, y \in BOOLEAN, l \in BOOLEAN :
           a = FALSE /\ y = u.retry /\ l = u.lost
    BY DEF SlotState
  <1>3. slot' = [slot EXCEPT ![s] =
                   State("settle", u.msg, u.receipt, u.got, u.next, a, y, l)]
    <2>1. slot' = [slot EXCEPT ![s].pc = "settle", ![s].ack = a]
      BY <1>2 DEF StopLost
    <2>2. slot' = [slot EXCEPT ![s] = SetAck(SetPc(u, "settle"), a)]
      BY <1>1, <2>1 DEF DeliveryInv, Typed, SetPc, SetAck
    <2>3. SetAck(SetPc(u, "settle"), a) =
            State("settle", u.msg, u.receipt, u.got, u.next, a, y, l)
      BY <1>2, Fields, PcSet, FlagSet
    <2>4. QED BY <2>2, <2>3
  <1>4. QED BY <1>1, <1>2, <1>3, SettleBecomes

\* A delivery that has looked at every record settles with what it has noted.
LEMMA LookedBecomes ==
  ASSUME DeliveryInv, NewsKeeps, UNCHANGED records, NEW s \in Slot, AllLookedAt(s)
  PROVE  \E v : Becomes(s, v)
  <1>1. PICK u \in SlotState :
           u = slot[s] /\ u.pc = "process" /\ u.next > Len(u.got)
    BY DEF DeliveryInv, Typed, AllLookedAt
  <1>2. PICK a \in BOOLEAN, y \in BOOLEAN, l \in BOOLEAN :
           a = u.ack /\ y = u.retry /\ l = u.lost
    BY DEF SlotState
  <1>3. slot' = [slot EXCEPT ![s] =
                   State("settle", u.msg, u.receipt, u.got, u.next, a, y, l)]
    <2>1. slot' = [slot EXCEPT ![s] = SetPc(u, "settle")]
      BY <1>1 DEF AllLookedAt, DeliveryInv, Typed, SetPc
    <2>2. SetPc(u, "settle") =
            State("settle", u.msg, u.receipt, u.got, u.next, a, y, l)
      BY <1>2, Fields, PcSet
    <2>3. QED BY <2>1, <2>2
  <1>4. QED BY <1>1, <1>2, <1>3, SettleBecomes

\* To lose a heartbeat adds nothing to what a delivery says.
LEMMA LoseBecomes ==
  ASSUME DeliveryInv, NewsKeeps, UNCHANGED records, NEW s \in Slot, LoseOwnership(s)
  PROVE  \E v : Becomes(s, v)
  <1>1. PICK u \in SlotState, w \in Worker :
           /\ u = slot[s] /\ w = WorkerOf(s) /\ SlotOK(u, w)'
           /\ u.pc \in {"process", "settle"}
    BY SlotAfter DEF DeliveryInv, LoseOwnership
  <1>2. PICK l \in BOOLEAN : l = TRUE
    OBVIOUS
  <1> DEFINE v == State(u.pc, u.msg, u.receipt, u.got, u.next, u.ack, u.retry, l)
  <1>3. slot' = [slot EXCEPT ![s] = v]
    <2>1. slot' = [slot EXCEPT ![s] = SetLost(u, l)]
      BY <1>1, <1>2 DEF LoseOwnership, DeliveryInv, Typed, SetLost
    <2>2. SetLost(u, l) = v
      BY Fields, FlagSet
    <2>3. QED BY <2>1, <2>2
  <1>4. v \in SlotState
    <2>1. /\ u.pc \in {"idle", "claim", "acquire", "process", "settle"}
          /\ u.msg \in Message /\ u.receipt \in 0..MaxReceives
          /\ u.got \in Seq(Disposition) /\ u.next \in Nat \ {0}
          /\ u.ack \in BOOLEAN /\ u.retry \in BOOLEAN
      BY DEF SlotState
    <2>2. QED BY <2>1, StateTyped
  <1>5. SlotOK(v, w)'
    BY <1>1, <1>2 DEF SlotOK, State
  <1>6. Becomes(s, v)
    BY <1>1, <1>3, <1>4, <1>5 DEF Becomes, WorkerOf
  <1>7. QED BY <1>6

\* A delivery that ends deletes a message only when all of it is finished.
LEMMA SettleDeletes ==
  ASSUME DeliveryInv, NEW s \in Slot, slot[s].pc = "settle", Update(s),
         NEW i \in DOMAIN records[slot[s].msg]
  PROVE  Finished(records[slot[s].msg][i])
  <1>1. PICK u \in SlotState :
           u = slot[s] /\ u.pc = "settle" /\ u.ack /\ SlotOK(u, WorkerOf(s))
    BY DEF DeliveryInv, Typed, SlotsOK, Update
  <1>2. /\ records[u.msg] \in Seq(Job \cup {Malformed}) /\ u.got \in Seq(Disposition)
        /\ u.next \in Nat
    BY DEF DeliveryInv, Typed, SlotState
  <1>3. u.next > Len(records[u.msg]) /\ Len(u.got) = Len(records[u.msg])
    BY <1>1 DEF SlotOK
  <1>4. i \in 1..Len(u.got) /\ i < u.next
    BY <1>1, <1>2, <1>3
  <1>5. QED BY <1>1, <1>4 DEF SlotOK

-----------------------------------------------------------------------------
\* What a step may do to the queue.
QueueMoves ==
  /\ queue' \in [Message -> QueueState]
  /\ \A m \in Message : queue'[m].at # "absent" => queue[m].at # "absent"
  /\ \A m \in Message : queue'[m].at = "deleted" =>
       \/ queue[m].at = "deleted"
       \/ \A i \in DOMAIN records[m] : Finished(records[m][i])

\* The jobs table takes a step of its own, one slot moves at most, and the
\* queue moves as it may: then the invariant is kept.
LEMMA Combined ==
  ASSUME DeliveryInv, UNCHANGED records, [LeaseNext]_jobs, QueueMoves,
         NewsKeeps => UNCHANGED slot \/ \E s \in Slot : \E v : Becomes(s, v)
  PROVE  DeliveryInv'
  <1>1. Typed /\ SlotsOK /\ QueueOK /\ LeaseInv
    BY DEF DeliveryInv
  <1>2. LeaseInv' /\ NewsKeeps
    BY <1>1, NewsKeepsInSteps
  <1>3. slot' \in [Slot -> SlotState] /\ SlotsOK'
    <2>1. CASE \E s \in Slot : \E v : Becomes(s, v)
      BY <1>1, <1>2, <2>1, OthersKeep
    <2>2. CASE UNCHANGED slot
      <3>1. ASSUME NEW t \in Slot PROVE SlotOK(slot[t], WorkerOf(t))'
        <4>1. PICK u \in SlotState, w \in Worker :
                 u = slot[t] /\ w = WorkerOf(t) /\ SlotOK(u, w)'
          BY <1>1, <1>2, SlotAfter
        <4>2. slot'[t] = u
          BY <2>2, <4>1
        <4>3. QED BY <4>1, <4>2 DEF SlotOK, WorkerOf, Known, Finished, Over, HeldBy, Live
      <3>2. QED BY <1>1, <2>2, <3>1 DEF Typed, SlotsOK
    <2>3. QED BY <1>2, <2>1, <2>2
  <1>4. Typed'
    BY <1>1, <1>3 DEF Typed, QueueMoves
  <1>5. QueueOK'
    BY <1>1 DEF QueueOK, QueueMoves
  <1>6. DeletedMeansCompleted'
    <2> SUFFICES ASSUME NEW m \in Message, queue'[m].at = "deleted",
                        NEW i \in DOMAIN records[m]
                 PROVE  records[m][i] # Malformed /\ jobs'[records[m][i]].status = "COMPLETED"
      BY DEF DeletedMeansCompleted
    <2>1. Finished(records[m][i])
      BY DEF QueueMoves, DeliveryInv, DeletedMeansCompleted, Finished
    <2>2. records[m][i] \in Job \cup {Malformed}
      BY <1>1 DEF Typed
    <2>3. QED BY <1>2, <2>1, <2>2 DEF NewsKeeps, Finished
  <1>7. QED BY <1>2, <1>3, <1>4, <1>5, <1>6 DEF DeliveryInv

\* A message moves in the queue.
LEMMA QueueMoved ==
  ASSUME Typed, NEW m \in Message, NEW to, to \in {"visible", "hidden", "deleted", "dead"},
         queue[m].at # "absent",
         to = "deleted" => \A i \in DOMAIN records[m] : Finished(records[m][i])
  PROVE  /\ queue' = [queue EXCEPT ![m].at = to] => QueueMoves
         /\ \A n \in 0..MaxReceives :
              queue' = [queue EXCEPT ![m] = [at |-> to, receives |-> n]] => QueueMoves
  <1>1. ASSUME NEW n \in 0..MaxReceives,
               queue' = [queue EXCEPT ![m] = [at |-> to, receives |-> n]]
        PROVE  QueueMoves
    <2>1. [at |-> to, receives |-> n] \in QueueState
      BY DEF QueueState
    <2>2. queue' \in [Message -> QueueState]
      BY <1>1, <2>1 DEF Typed
    <2>3. /\ queue'[m].at = to
          /\ \A k \in Message : k # m => queue'[k] = queue[k]
      BY <1>1 DEF Typed
    <2>4. QED BY <2>2, <2>3 DEF QueueMoves
  <1>2. ASSUME queue' = [queue EXCEPT ![m].at = to]
        PROVE  QueueMoves
    <2>1. PICK n \in 0..MaxReceives : n = queue[m].receives
      BY DEF Typed, QueueState
    <2>2. queue' = [queue EXCEPT ![m] = [at |-> to, receives |-> n]]
      <3>1. [queue[m] EXCEPT !.at = to] = [at |-> to, receives |-> n]
        BY <2>1 DEF Typed, QueueState
      <3>2. queue' = [queue EXCEPT ![m] = [queue[m] EXCEPT !.at = to]]
        BY <1>2
      <3>3. QED BY <3>1, <3>2
    <2>3. QED BY <1>1, <2>2
  <1>3. QED BY <1>1, <1>2

\* A step of one slot.
LEMMA SlotStepKeeps ==
  ASSUME DeliveryInv, UNCHANGED records, NEW s \in Slot,
         \/ DeliveryStep(s) \/ DropDelivery(s) \/ LoseOwnership(s)
         \/ \E m \in Message : ReceiveMessage(s, m)
  PROVE  DeliveryInv'
  <1>1. Typed /\ SlotsOK /\ QueueOK
    BY DEF DeliveryInv
  <1>2. UNCHANGED queue => QueueMoves
    BY <1>1 DEF Typed, QueueMoves
  <1>3. CASE ClaimRecord(s)
    BY <1>2, <1>3, ClaimBecomes, Combined DEF ClaimRecord
  <1>4. CASE AcquireRecord(s)
    BY <1>2, <1>4, AcquireBecomes, Combined DEF AcquireRecord
  <1>5. CASE SkipRecord(s)
    BY <1>2, <1>5, SkipBecomes, Combined DEF SkipRecord
  <1>6. CASE CompleteRecord(s)
    BY <1>2, <1>6, CompleteBecomes, Combined DEF CompleteRecord
  <1>7. CASE FailRecord(s)
    BY <1>2, <1>7, FailBecomes, Combined DEF FailRecord
  <1>8. CASE GiveUpUncertain(s)
    BY <1>2, <1>8, GiveUpBecomes, Combined DEF GiveUpUncertain
  <1>9. CASE StopLost(s)
    BY <1>2, <1>9, StopBecomes, Combined DEF StopLost
  <1>10. CASE AllLookedAt(s)
    BY <1>2, <1>10, LookedBecomes, Combined DEF AllLookedAt
  <1>11. CASE LoseOwnership(s)
    BY <1>2, <1>11, LoseBecomes, Combined DEF LoseOwnership
  <1>12. CASE DropDelivery(s)
    BY <1>1, <1>2, <1>12, IdleBecomes, Combined DEF DropDelivery
  <1>13. CASE Settle(s)
    <2>1. QueueMoves
      <3>1. CASE Update(s)
        <4>1. PICK m \in Message : m = slot[s].msg
          BY <1>1 DEF Typed, SlotState
        <4>2. \A i \in DOMAIN records[m] : Finished(records[m][i])
          BY <1>13, <3>1, <4>1, SettleDeletes DEF Settle
        <4>3. queue' = [queue EXCEPT ![m].at = "deleted"] /\ queue[m].at # "absent"
          BY <3>1, <4>1 DEF Update
        <4>4. QED BY <1>1, <4>2, <4>3, QueueMoved
      <3>2. QED BY <1>2, <1>13, <3>1 DEF Settle
    <2>2. QED BY <1>1, <1>13, <2>1, IdleBecomes, Combined DEF Settle
  <1>14. CASE \E m \in Message : ReceiveMessage(s, m)
    <2>1. PICK m \in Message : ReceiveMessage(s, m)
      BY <1>14
    <2>2. queue[m].receives + 1 \in 0..MaxReceives
      BY <1>1, <2>1, DeliveryAssumption DEF ReceiveMessage, Typed, QueueState
    <2>3. QueueMoves
      BY <1>1, <2>1, <2>2, QueueMoved DEF ReceiveMessage
    <2>4. QED BY <1>1, <2>1, <2>3, ReceiveBecomes, Combined DEF ReceiveMessage
  <1>15. QED
    BY <1>3, <1>4, <1>5, <1>6, <1>7, <1>8, <1>9, <1>10, <1>11, <1>12, <1>13, <1>14
       DEF DeliveryStep

\* The invariant is inductive.
LEMMA DeliveryStepKeeps ==
  DeliveryInv /\ [DeliveryNext]_<<deliveryVars, records>> => DeliveryInv'
  <1> SUFFICES ASSUME DeliveryInv, [DeliveryNext]_<<deliveryVars, records>>
               PROVE  DeliveryInv'
    OBVIOUS
  <1>1. Typed
    BY DEF DeliveryInv
  <1>2. UNCHANGED queue => QueueMoves
    BY <1>1 DEF Typed, QueueMoves
  <1>3. UNCHANGED records
    BY DEF DeliveryNext
  <1>4. ASSUME NEW m \in Message, VisibilityEnds(m) \/ Redrive(m)
        PROVE  DeliveryInv'
    <2>1. QueueMoves
      BY <1>1, <1>4, QueueMoved DEF VisibilityEnds, Redrive
    <2>2. QED BY <1>3, <1>4, <2>1, Combined DEF VisibilityEnds, Redrive
  <1>5. CASE PassTime
    BY <1>2, <1>3, <1>5, Combined DEF PassTime, LeaseNext
  <1>6. CASE UNCHANGED <<deliveryVars, records>>
    BY <1>2, <1>6, Combined DEF deliveryVars
  <1>7. QED
    BY <1>3, <1>4, <1>5, <1>6, SlotStepKeeps DEF DeliveryNext

\* It holds before anything is received.
LEMMA DeliveryStarts == DeliveryInit => DeliveryInv
  <1> SUFFICES ASSUME DeliveryInit PROVE DeliveryInv
    OBVIOUS
  <1>1. records \in [Message -> Seq(Job \cup {Malformed})]
    BY DeliveryAssumption DEF DeliveryInit
  <1>2. LeaseInv
    <2>1. ASSUME NEW j \in Job PROVE RowInv(jobs[j])
      BY LeaseAssumption DEF DeliveryInit, AbsentRow, RowInv, Row, Status, JobMode
    <2>2. QED BY <2>1, InvByRow DEF DeliveryInit
  <1>3. queue \in [Message -> QueueState] /\ QueueOK /\ DeletedMeansCompleted
    <2>1. queue \in [Message -> QueueState]
      BY DeliveryAssumption DEF DeliveryInit, QueueState
    <2>2. \A m \in Message : records[m] # <<>> => Len(records[m]) > 0
      BY <1>1
    <2>3. QED BY <2>1, <2>2 DEF DeliveryInit, QueueOK, DeletedMeansCompleted
  <1>4. slot \in [Slot -> SlotState] /\ SlotsOK
    <2>1. PICK m \in Message : m = NoMessage
      BY DeliveryAssumption DEF NoMessage
    <2>2. Idle(m) = State("idle", m, 0, <<>>, 1, TRUE, FALSE, FALSE)
      BY DEF Idle, Fresh, State
    <2>3. Idle(m) \in SlotState
      <3>1. <<>> \in Seq(Disposition) /\ 1 \in Nat \ {0} /\ 0 \in 0..MaxReceives
        BY DeliveryAssumption
      <3>2. PICK g \in Seq(Disposition) : g = <<>>
        BY <3>1
      <3>3. State("idle", m, 0, g, 1, TRUE, FALSE, FALSE) \in SlotState
        BY <3>1 DEF State, SlotState
      <3>4. QED BY <2>2, <3>2, <3>3
    <2>4. \A s \in Slot : SlotOK(Idle(m), WorkerOf(s))
      BY <2>2 DEF SlotOK, State
    <2>5. QED BY <2>1, <2>3, <2>4 DEF DeliveryInit, SlotsOK
  <1>5. QED BY <1>1, <1>2, <1>3, <1>4 DEF DeliveryInv, Typed

\* A slot and its delivery, its queue and the table stay as they should be.
THEOREM DeliveryInvariant == DeliverySpec => []DeliveryInv
  BY DeliveryStarts, DeliveryStepKeeps, PTL DEF DeliverySpec

\* A message is acknowledged only when every record in it is COMPLETED.
THEOREM AcknowledgedIsCompleted == DeliverySpec => []DeletedMeansCompleted
  <1>1. DeliveryInv => DeletedMeansCompleted
    BY DEF DeliveryInv
  <1>2. QED BY <1>1, DeliveryInvariant, PTL

\* A delivery that asks for a delay holds none of its attempts any longer.
THEOREM DelayedIsReleased == DeliverySpec => []DelayOnlyWhenReleased
  <1>1. DeliveryInv => DelayOnlyWhenReleased
    <2> SUFFICES ASSUME DeliveryInv, NEW s \in Slot,
                        slot[s].pc = "settle" /\ slot[s].retry /\ ~slot[s].lost,
                        NEW i \in DOMAIN slot[s].got, slot[s].got[i].attempt > 0
                 PROVE  Over(records[slot[s].msg][i], WorkerOf(s), slot[s].got[i].attempt)
      BY DEF DelayOnlyWhenReleased, Over
    <2>1. PICK u \in SlotState :
             /\ u = slot[s] /\ SlotOK(u, WorkerOf(s))
             /\ u.pc = "settle" /\ u.retry /\ ~u.lost
      BY DEF DeliveryInv, Typed, SlotsOK
    <2>2. /\ records[u.msg] \in Seq(Job \cup {Malformed}) /\ u.got \in Seq(Disposition)
          /\ u.next \in Nat
      BY DEF DeliveryInv, Typed, SlotState
    <2>3. u.next > Len(records[u.msg]) /\ Len(u.got) = Len(records[u.msg])
      BY <2>1 DEF SlotOK
    <2>4. i \in 1..Len(u.got) /\ i < u.next
      BY <2>1, <2>2, <2>3
    <2>5. QED BY <2>1, <2>4 DEF SlotOK
  <1>2. QED BY <1>1, DeliveryInvariant, PTL
-----------------------------------------------------------------------------
\* No delivery looks further than one record past the last of its message.
Within == \A s \in Slot : slot[s].next <= Len(records[slot[s].msg]) + 1

\* Slot s stays with its message and goes on by at most one of its records.
GoesOn(s) ==
  /\ slot' = [slot EXCEPT ![s] = slot'[s]]
  /\ slot'[s].msg = slot[s].msg
  /\ \/ slot'[s].next = slot[s].next
     \/ slot'[s].next = 1
     \/ slot'[s].next = slot[s].next + 1 /\ slot[s].next <= Len(records[slot[s].msg])

\* A slot that goes on stays within.
LEMMA WithinAfter ==
  ASSUME Typed, Within, UNCHANGED records, NEW s \in Slot, GoesOn(s)
  PROVE  Within'
  <1> SUFFICES ASSUME NEW t \in Slot
               PROVE  slot'[t].next <= Len(records[slot'[t].msg]) + 1
    BY DEF Within
  <1>1. slot[t].msg \in Message /\ slot[t].next \in Nat /\ slot \in [Slot -> SlotState]
    BY DEF Typed, SlotState
  <1>2. Len(records[slot[t].msg]) \in Nat
    BY <1>1 DEF Typed
  <1>3. CASE t = s
    BY <1>1, <1>2, <1>3 DEF GoesOn, Within
  <1>4. CASE t # s
    <2>1. slot'[t] = slot[t]
      BY <1>1, <1>4 DEF GoesOn
    <2>2. QED BY <1>1, <1>2, <2>1 DEF Within
  <1>5. QED BY <1>3, <1>4

\* Every step of a delivery that has its message goes on.
LEMMA DeliveryGoesOn ==
  ASSUME DeliveryInv, NEW s \in Slot, DeliveryStep(s) \/ DropDelivery(s) \/ LoseOwnership(s)
  PROVE  GoesOn(s)
  <1>1. slot \in [Slot -> SlotState] /\ SlotOK(slot[s], WorkerOf(s))
    BY DEF DeliveryInv, Typed, SlotsOK
  <1>2. /\ slot[s].pc \in {"claim", "acquire"} =>
             slot[s].next <= Len(records[slot[s].msg])
        /\ slot[s].pc = "process" => Len(slot[s].got) = Len(records[slot[s].msg])
    BY <1>1 DEF SlotOK
  <1>3. ASSUME NEW d, Disposed(s, d), slot[s].pc \in {"claim", "acquire"}
        PROVE  GoesOn(s)
    <2> DEFINE u == slot[s]
               last == u.next = Len(records[u.msg])
               n == IF last THEN 1 ELSE u.next + 1
               p == IF last THEN "process" ELSE "claim"
               g == Append(u.got, d)
    <2>1. slot' = [slot EXCEPT ![s].got = g, ![s].next = n, ![s].pc = p]
      BY <1>3 DEF Disposed
    <2>2. n = 1 \/ (n = u.next + 1 /\ u.next <= Len(records[u.msg]))
      BY <1>2, <1>3
    <2>3. s \in DOMAIN slot /\ u \in SlotState
      BY <1>1
    <2> HIDE DEF g, n, p
    <2>4. slot'[s] = [u EXCEPT !.got = g, !.next = n, !.pc = p]
          /\ slot' = [slot EXCEPT ![s] = slot'[s]]
      BY <2>1, <2>3
    <2>5. slot'[s].msg = u.msg /\ slot'[s].next = n
      BY <2>3, <2>4 DEF SlotState
    <2>6. QED BY <2>2, <2>4, <2>5 DEF GoesOn
  <1>4. CASE ClaimRecord(s)
    <2>1. slot[s].pc = "claim"
      BY <1>4 DEF ClaimRecord
    <2>2. (\E d : Disposed(s, d)) \/ slot' = [slot EXCEPT ![s].pc = "acquire"]
      BY <1>4, Zenon DEF ClaimRecord
    <2>3. CASE slot' = [slot EXCEPT ![s].pc = "acquire"]
      BY <1>1, <2>3 DEF GoesOn, SlotState
    <2>4. QED BY <1>3, <2>1, <2>2, <2>3
  <1>5. CASE AcquireRecord(s)
    BY <1>3, <1>5 DEF AcquireRecord
  <1>6. CASE SkipRecord(s) \/ CompleteRecord(s) \/ FailRecord(s)
    BY <1>1, <1>2, <1>6
       DEF SkipRecord, CompleteRecord, FailRecord, Working, Processing, GoesOn, SlotState
  <1>7. CASE GiveUpUncertain(s) \/ StopLost(s) \/ AllLookedAt(s) \/ LoseOwnership(s)
    BY <1>1, <1>7 DEF GiveUpUncertain, StopLost, AllLookedAt, LoseOwnership, GoesOn, SlotState
  <1>8. CASE Settle(s) \/ DropDelivery(s)
    BY <1>1, <1>8 DEF Settle, DropDelivery, Idle, Fresh, GoesOn, SlotState
  <1>9. QED BY <1>4, <1>5, <1>6, <1>7, <1>8 DEF DeliveryStep

\* No step takes a delivery out.
LEMMA WithinKeeps ==
  DeliveryInv /\ Within /\ [DeliveryNext]_<<deliveryVars, records>> => Within'
  <1> SUFFICES ASSUME DeliveryInv, Within, [DeliveryNext]_<<deliveryVars, records>>
               PROVE  Within'
    OBVIOUS
  <1>1. Typed /\ QueueOK /\ UNCHANGED records
    BY DEF DeliveryInv, DeliveryNext
  <1>2. CASE UNCHANGED slot
    BY <1>1, <1>2 DEF Within
  <1>3. ASSUME NEW s \in Slot, DeliveryStep(s) \/ DropDelivery(s) \/ LoseOwnership(s)
        PROVE  Within'
    BY <1>1, <1>3, DeliveryGoesOn, WithinAfter
  <1>4. ASSUME NEW s \in Slot, NEW m \in Message, ReceiveMessage(s, m)
        PROVE  Within'
    <2> SUFFICES ASSUME NEW t \in Slot
                 PROVE  slot'[t].next <= Len(records[slot'[t].msg]) + 1
      BY <1>1 DEF Within
    <2>1. slot \in [Slot -> SlotState] /\ Len(records[m]) \in Nat
      BY <1>1 DEF Typed
    <2>2. CASE t = s
      BY <1>4, <2>1, <2>2 DEF ReceiveMessage, Fresh
    <2>3. CASE t # s
      BY <1>4, <2>1, <2>3 DEF ReceiveMessage, Within
    <2>4. QED BY <2>2, <2>3
  <1>5. QED
    BY <1>2, <1>3, <1>4 DEF DeliveryNext, VisibilityEnds, Redrive, PassTime, deliveryVars

\* A delivery is always at a record of its message or past the last one, and
\* the table, the queue and the slots hold what they may.
THEOREM DeliveryTypes == DeliverySpec => []DeliveryTypeOK
  <1>1. DeliveryInit => Within
    <2> SUFFICES ASSUME DeliveryInit, NEW s \in Slot
                 PROVE  slot[s].next <= Len(records[slot[s].msg]) + 1
      BY DEF Within
    <2>1. NoMessage \in Message
      BY DeliveryAssumption DEF NoMessage
    <2>2. Len(records[NoMessage]) \in Nat
      BY <2>1, DeliveryAssumption DEF DeliveryInit
    <2>3. QED BY <2>2 DEF DeliveryInit, Idle, Fresh
  <1>2. DeliveryInit => records \in Contents
    BY DEF DeliveryInit
  <1>3. records \in Contents /\ [DeliveryNext]_<<deliveryVars, records>>
          => (records \in Contents)'
    BY DEF DeliveryNext
  <1>4. DeliveryInv /\ Within /\ records \in Contents => DeliveryTypeOK
    BY DEF DeliveryInv, LeaseInv, Typed, Within, DeliveryTypeOK
  <1>5. QED
    BY <1>1, <1>2, <1>3, <1>4, WithinKeeps, DeliveryInvariant, PTL DEF DeliverySpec

\* Whatever deliveries do to the jobs table is a statement of the table or the
\* passing of time, so that what is proved of the statements holds of them.
THEOREM DeliveryKeepsTable == DeliverySpec => [][LeaseNext]_jobs
  <1>1. DeliveryInv /\ [DeliveryNext]_<<deliveryVars, records>> => [LeaseNext]_jobs
    <2> SUFFICES ASSUME DeliveryInv, [DeliveryNext]_<<deliveryVars, records>>
                 PROVE  [LeaseNext]_jobs
      OBVIOUS
    <2>1. ASSUME NEW s \in Slot, DeliveryStep(s), UNCHANGED records
          PROVE  [LeaseNext]_jobs
      <3>1. CASE ClaimRecord(s) \/ AcquireRecord(s)
        BY <2>1, <3>1, ClaimBecomes, AcquireBecomes
      <3>2. CASE CompleteRecord(s) \/ FailRecord(s) \/ GiveUpUncertain(s)
        BY <2>1, <3>2, CompleteBecomes, FailBecomes, GiveUpBecomes
      <3>3. CASE SkipRecord(s) \/ StopLost(s) \/ AllLookedAt(s) \/ Settle(s)
        BY <3>3 DEF SkipRecord, StopLost, AllLookedAt, Settle
      <3>4. QED BY <2>1, <3>1, <3>2, <3>3 DEF DeliveryStep
    <2>2. QED
      BY <2>1 DEF DeliveryNext, DropDelivery, LoseOwnership, ReceiveMessage,
         VisibilityEnds, Redrive, PassTime, LeaseNext, deliveryVars
  <1>2. QED BY <1>1, DeliveryInvariant, PTL DEF DeliverySpec

\* So deliveries that overlap, repeat each other or are dropped keep the promises
\* of the table.
THEOREM DeliveryKeepsPromises ==
  DeliverySpec => PromisesKept /\ LapsedLeaseNeverRevived /\ LiveLeaseNotStolen
  <1>1. DeliveryInv => LeaseInv
    BY DEF DeliveryInv
  <1>2. QED BY <1>1, DeliveryInvariant, DeliveryKeepsTable, TableKeepsPromises, PTL
=============================================================================
