--------------------------- MODULE HeartbeatProofs ---------------------------
(***************************************************************************)
(* What a heartbeat believes is so, an attempt that ends costs nobody the   *)
(* ownership, the last delay is kept, and prompt calls meet no deadline:    *)
(* for any number of records, any lease, visibility, interval and delay,    *)
(* and (but for the last) whatever the calls take.                          *)
(*                                                                         *)
(* The argument for the first: a call carries the deadline it will set, and *)
(* that has run down by as much as the call has taken, so that the answer,  *)
(* however late, promises no more than the server gave.  For the second:    *)
(* the mutex.  For the third: a heartbeat that was joined sends nothing.    *)
(* For the fourth: each cycle begins with a tick of the cadence and ends    *)
(* before the next, so that what one cycle grants lasts through the other.  *)
(***************************************************************************)
EXTENDS Heartbeat, WellFoundedInduction, TLAPS

\* The types the arithmetic needs.
Times ==
  /\ lease \in [Record -> Nat] /\ local \in [Record -> Nat]
  /\ visible \in Nat /\ deadline \in Nat /\ budget \in Nat /\ spent \in Nat
  /\ active \subseteq Record

\* The deadline of a call under way has run down by what the call has taken.
RunsDown ==
  /\ beat \in {"lock", "renew"} => budget = 0 \/ budget + spent <= Lease
  /\ beat = "extend" => budget = 0 \/ budget + spent <= Visibility

\* Deadlines of what the heartbeat tracks.
Covered ==
  beat # "over" =>
    /\ \A i \in active : lease[i] >= local[i]
    /\ visible >= deadline /\ stray = {}

\* A running heartbeat tracks no record that has ended, and works for a
\* delivery that is not at its last call.
Tracked ==
  /\ beat # "over" => active \cap ended = {} /\ lost = "no"
  /\ beat = "over" /\ lost = "no" => main \in {"update", "over"}
  /\ main \in {"update", "over"} => beat = "over"

\* The mutex: who is about to end an attempt is not renewing one.
Exclusive ==
  /\ beat = "renew" <=> mutex = "heartbeat"
  /\ main = "end" <=> mutex = "main"
  /\ beat = "renew" => at \in active
  /\ lost = "lease" => main # "end" /\ at \notin ended

\* Nothing is under way any more when the delay has taken effect, except an
\* extension that was dropped.
LastCalls ==
  /\ stray \subseteq {"extend", "delay", "delete"}
  /\ final # "none" => main = "over"
  /\ "delay" \in stray => final # "delay"
  /\ "delay" \in stray \/ "delete" \in stray => main = "over"

BeatInv == Times /\ RunsDown /\ Covered /\ Tracked /\ Exclusive /\ LastCalls

\* The larger of two numbers is one of them and not smaller than either.
LEMMA MaxOfTwo ==
  ASSUME NEW a \in Int, NEW b \in Int
  PROVE  /\ Max({a, b}) \in {a, b}
         /\ Max({a, b}) >= a /\ Max({a, b}) >= b
<1>1. \E x \in {a, b} : \A y \in {a, b} : x >= y
  <2>1. CASE a >= b
    BY <2>1
  <2>2. CASE b >= a
    BY <2>2
  <2> QED
    BY <2>1, <2>2
<1>2. Max({a, b}) \in {a, b} /\ \A y \in {a, b} : Max({a, b}) >= y
  BY <1>1 DEF Max
<1> QED
  BY <1>2

\* The settings are numbers.
LEMMA Settings ==
  /\ Lease \in Nat /\ Visibility \in Nat /\ RetryDelay \in Nat /\ NRecords \in Nat
  /\ Interval \in Nat
BY HeartbeatAssumption DEF HeartbeatAssumption

\* A new call starts with the whole of what it will be granted.
LEMMA FollowingCall ==
  ASSUME NEW i
  PROVE  \/ Following(i).beat = "extend" /\ Following(i).budget = Visibility
         \/ Following(i).beat = "lock" /\ Following(i).budget = Lease
BY DEF Following

\* A delivery begins with everything leased, hidden and tracked.
LEMMA InitBeat == HeartbeatInit => BeatInv
<1> SUFFICES ASSUME HeartbeatInit PROVE BeatInv
  OBVIOUS
<1> USE Settings DEF HeartbeatInit
<1>1. Times
  BY DEF Times
<1>2. RunsDown /\ Covered /\ Tracked /\ Exclusive /\ LastCalls
  BY DEF RunsDown, Covered, Tracked, Exclusive, LastCalls
<1> QED
  BY <1>1, <1>2 DEF BeatInv

\* Time takes the same from a lease and from what is believed of it.
LEMMA TickKeeps == BeatInv /\ Tick => BeatInv'
<1> SUFFICES ASSUME BeatInv, Tick PROVE BeatInv'
  OBVIOUS
<1> USE Settings DEF BeatInv, Tick, Less, mainVars
<1>1. Times'
  BY DEF Times
<1>2. RunsDown'
  BY DEF RunsDown, Times
<1>3. Covered'
  <2> SUFFICES ASSUME beat # "over" PROVE Covered'
    BY DEF Covered
  <2>1. visible' >= deadline' /\ stray' = {}
    BY DEF Covered, Times
  <2>2. ASSUME NEW i \in active PROVE lease'[i] >= local'[i]
    BY DEF Covered, Times
  <2> QED
    BY <2>1, <2>2 DEF Covered
<1>4. Tracked' /\ Exclusive' /\ LastCalls'
  BY DEF Tracked, Exclusive, LastCalls
<1> QED
  BY <1>1, <1>2, <1>3, <1>4

\* A heartbeat that ends claims nothing any more; it holds the mutex while it
\* gives up the lease of a record, so that nobody is about to end that.
LEMMA RevokeKeeps ==
  ASSUME NEW why, BeatInv, Revoke(why), beat # "over",
         why # "no", why = "lease" => beat = "renew"
  PROVE  BeatInv'
<1> USE DEF BeatInv, Revoke, mainVars
<1>1. Times' /\ RunsDown' /\ Covered'
  BY DEF Times, RunsDown, Covered
<1>2. Tracked'
  BY DEF Tracked
<1>3. Exclusive'
  BY DEF Exclusive, Tracked
<1>4. stray' \subseteq stray \cup {"extend"}
  BY DEF LeaveStray
<1>5. LastCalls'
  BY <1>4 DEF LastCalls
<1> QED
  BY <1>1, <1>2, <1>3, <1>5

\* The watchdog and calls that fail end the heartbeat.
LEMMA LossKeeps == BeatInv /\ (Watchdog \/ RenewalFails \/ ExtensionFails) => BeatInv'
<1> SUFFICES ASSUME BeatInv, Watchdog \/ RenewalFails \/ ExtensionFails PROVE BeatInv'
  OBVIOUS
<1>1. CASE Watchdog
  BY <1>1, RevokeKeeps DEF Watchdog
<1>2. CASE RenewalFails
  <2>1. beat = "renew" /\ (Revoke("database") \/ Revoke("lease"))
    BY <1>2 DEF RenewalFails
  <2> QED
    BY <2>1, RevokeKeeps
<1>3. CASE ExtensionFails
  BY <1>3, RevokeKeeps DEF ExtensionFails
<1> QED
  BY <1>1, <1>2, <1>3

\* A cycle begins with a call that has taken no time.
LEMMA BeginCycleKeeps == BeatInv /\ BeginCycle => BeatInv'
<1> SUFFICES ASSUME BeatInv, BeginCycle PROVE BeatInv'
  OBVIOUS
<1> USE Settings, FollowingCall DEF BeatInv, BeginCycle, Continue, serverVars, mainVars
<1>1. Times'
  BY DEF Times
<1>2. RunsDown'
  BY DEF RunsDown
<1>3. Covered' /\ Tracked' /\ Exclusive' /\ LastCalls'
  BY DEF Covered, Tracked, Exclusive, LastCalls
<1> QED
  BY <1>1, <1>2, <1>3

\* Only a record that is tracked is renewed, and only under the mutex.
LEMMA LockToRenewKeeps == BeatInv /\ LockToRenew => BeatInv'
<1> SUFFICES ASSUME BeatInv, LockToRenew PROVE BeatInv'
  OBVIOUS
<1> USE Settings DEF BeatInv, LockToRenew, serverVars, mainVars
<1>1. CASE StillTracked(at)
  <2>1. Times' /\ RunsDown' /\ Covered'
    BY <1>1 DEF Times, RunsDown, Covered
  <2>2. Tracked' /\ Exclusive' /\ LastCalls'
    BY <1>1 DEF Tracked, Exclusive, LastCalls, StillTracked
  <2> QED
    BY <2>1, <2>2
<1>2. CASE ~StillTracked(at)
  <2> USE FollowingCall DEF Continue
  <2>1. local' = [local EXCEPT ![at] = budget] /\ at \notin active /\ active' = active
    BY <1>2 DEF StillTracked
  <2>2. Times'
    <3>1. local' \in [Record -> Nat]
      BY <2>1 DEF Times
    <3>2. budget' \in Nat /\ spent' \in Nat
      BY <1>2
    <3>3. UNCHANGED <<lease, visible, deadline, current, active>>
      OBVIOUS
    <3> QED
      BY <3>1, <3>2, <3>3 DEF Times
  <2>3. RunsDown'
    BY <1>2 DEF RunsDown
  <2>4. \A i \in active : local'[i] = local[i]
    BY <2>1 DEF Times
  <2>5. Covered'
    BY <1>2, <2>4 DEF Covered
  <2>6. Tracked' /\ Exclusive' /\ LastCalls'
    BY <1>2 DEF Tracked, Exclusive, LastCalls
  <2> QED
    BY <2>2, <2>3, <2>5, <2>6
<1> QED
  BY <1>1, <1>2

\* The answer promises what was granted when the statement was executed, and
\* counts from before it was sent.
LEMMA RenewedKeeps == BeatInv /\ Renewed => BeatInv'
<1> SUFFICES ASSUME BeatInv, Renewed PROVE BeatInv'
  OBVIOUS
<1> USE Settings, FollowingCall DEF BeatInv
<1>1. PICK ago \in 0..spent : lease' = [lease EXCEPT ![at] = Max({@, Lease - ago})]
  BY DEF Renewed
<1>2. /\ beat = "renew" /\ mutex' = "free"
      /\ local' = [local EXCEPT ![at] = budget]
      /\ beat' = Following(at + 1).beat /\ at' = Following(at + 1).at
      /\ budget' = Following(at + 1).budget /\ spent' = 0
      /\ UNCHANGED <<latency, ended, visible, stray, final, deadline, active, lost, due,
                     grid, main, current, retry>>
  BY DEF Renewed, RenewedBudget, Continue, mainVars
<1>3. at \in active /\ at \in Record /\ lease[at] \in Nat /\ spent \in Nat /\ budget \in Nat
  BY <1>2 DEF Exclusive, Times
<1> DEFINE granted == Max({lease[at], Lease - ago})
<1>4. granted \in Nat /\ granted >= Lease - ago /\ granted >= lease[at]
  <2>1. lease[at] \in Int /\ Lease - ago \in Int
    BY <1>3
  <2>2. granted \in {lease[at], Lease - ago} /\ granted >= lease[at] /\ granted >= Lease - ago
    BY <2>1, MaxOfTwo
  <2> QED
    BY <1>3, <2>1, <2>2
<1>5. granted >= budget
  <2>1. budget = 0 \/ budget + spent <= Lease
    BY <1>2 DEF RunsDown
  <2> HIDE DEF granted
  <2> QED
    BY <1>3, <1>4, <2>1
<1>6. lease' = [lease EXCEPT ![at] = granted]
  BY <1>1, <1>3 DEF Times
<1> HIDE DEF granted
<1>7. Times'
  BY <1>2, <1>3, <1>4, <1>6 DEF Times
<1>8. RunsDown'
  BY <1>2 DEF RunsDown
<1>9. Covered'
  BY <1>2, <1>3, <1>5, <1>6 DEF Covered, Times
<1>10. Tracked' /\ Exclusive' /\ LastCalls'
  BY <1>2 DEF Tracked, Exclusive, LastCalls
<1> QED
  BY <1>7, <1>8, <1>9, <1>10

\* The same for the visibility of the message.
LEMMA ExtendedKeeps == BeatInv /\ Extended => BeatInv'
<1> SUFFICES ASSUME BeatInv, Extended PROVE BeatInv'
  OBVIOUS
<1> USE Settings DEF BeatInv
<1>1. PICK ago \in 0..spent : visible' = Max({visible, Visibility - ago})
  BY DEF Extended
<1>2. /\ beat = "extend" /\ deadline' = budget /\ beat' = "wait" /\ budget' = 0 /\ spent' = 0
      /\ UNCHANGED <<latency, lease, ended, stray, final, local, active, lost, at, due, grid,
                     mutex, main, current, retry>>
  BY DEF Extended, mainVars
<1>3. visible \in Nat /\ spent \in Nat /\ budget \in Nat
  BY DEF Times
<1>4. visible' \in Nat /\ visible' >= Visibility - ago
  <2>1. visible \in Int /\ Visibility - ago \in Int
    BY <1>3
  <2>2. /\ Max({visible, Visibility - ago}) \in {visible, Visibility - ago}
        /\ Max({visible, Visibility - ago}) >= visible
        /\ Max({visible, Visibility - ago}) >= Visibility - ago
    BY <2>1, MaxOfTwo
  <2> QED
    BY <1>1, <1>3, <2>1, <2>2
<1>5. visible' >= deadline'
  <2>1. budget = 0 \/ budget + spent <= Visibility
    BY <1>2 DEF RunsDown
  <2> QED
    BY <1>2, <1>3, <1>4, <2>1
<1>6. Times' /\ RunsDown'
  BY <1>2, <1>4 DEF Times, RunsDown
<1>7. Covered'
  BY <1>2, <1>5 DEF Covered
<1>8. Tracked' /\ Exclusive' /\ LastCalls'
  BY <1>2 DEF Tracked, Exclusive, LastCalls
<1> QED
  BY <1>6, <1>7, <1>8

\* Between its last statements an attempt changes nothing that the heartbeat
\* has read.
LEMMA AttemptKeeps ==
  BeatInv /\ (PipelineOver \/ SendEnd \/ AllProcessed \/ TooLate) => BeatInv'
<1> SUFFICES ASSUME BeatInv, PipelineOver \/ SendEnd \/ AllProcessed \/ TooLate
             PROVE BeatInv'
  OBVIOUS
<1> USE DEF BeatInv, PipelineOver, SendEnd, AllProcessed, TooLate, Keep, beatVars
<1>1. Times' /\ RunsDown' /\ Covered'
  BY DEF Times, RunsDown, Covered
<1>2. Tracked' /\ Exclusive' /\ LastCalls'
  BY DEF Tracked, Exclusive, LastCalls
<1> QED
  BY <1>1, <1>2

\* An attempt that ends leaves the heartbeat under the same mutex, so that no
\* renewal meets its row.
LEMMA EndKeeps == BeatInv /\ (Ended \/ EndInDoubt) => BeatInv'
<1> SUFFICES ASSUME BeatInv, Ended \/ EndInDoubt PROVE BeatInv'
  OBVIOUS
<1> USE DEF BeatInv
<1>1. /\ main = "end" /\ mutex' = "free" /\ main' \in {"work", "settle"}
      /\ ended' \subseteq ended \cup {current} /\ active' = active \ {current}
      /\ current' \in {current, current + 1}
      /\ UNCHANGED <<lease, visible, stray, final>> /\ UNCHANGED beatVars
  BY DEF Ended, EndInDoubt, Keep
<1>2. mutex = "main" /\ beat # "renew" /\ lost # "lease"
  BY <1>1 DEF Exclusive
<1>3. Times' /\ RunsDown' /\ Covered'
  BY <1>1 DEF Times, RunsDown, Covered, beatVars
<1>4. Tracked' /\ Exclusive' /\ LastCalls'
  BY <1>1, <1>2 DEF Tracked, Exclusive, LastCalls, beatVars
<1> QED
  BY <1>3, <1>4

\* The attempt is dropped after the heartbeat has ended.
LEMMA StopLostKeeps == BeatInv /\ StopLost => BeatInv'
<1> SUFFICES ASSUME BeatInv, StopLost PROVE BeatInv'
  OBVIOUS
<1> USE DEF BeatInv
<1>1. /\ main \in {"work", "lock", "end"} /\ lost # "no" /\ main' = "settle"
      /\ mutex' = IF mutex = "main" THEN "free" ELSE mutex
      /\ main # "end" => ended' = ended
      /\ UNCHANGED <<active, current, retry, latency, lease, visible, stray, final>>
      /\ UNCHANGED beatVars
  BY DEF StopLost, Keep
<1>2. beat = "over"
  BY <1>1 DEF Tracked
<1>3. Times' /\ RunsDown' /\ Covered'
  BY <1>1, <1>2 DEF Times, RunsDown, Covered, beatVars
<1>4. Tracked' /\ Exclusive' /\ LastCalls'
  BY <1>1, <1>2 DEF Tracked, Exclusive, LastCalls, beatVars
<1> QED
  BY <1>3, <1>4

\* The heartbeat is over before the last call; what it leaves is an extension.
LEMMA JoinKeeps == BeatInv /\ JoinHeartbeat => BeatInv'
<1> SUFFICES ASSUME BeatInv, JoinHeartbeat PROVE BeatInv'
  OBVIOUS
<1> USE DEF BeatInv
<1>1. /\ main = "settle" /\ main' \in {"update", "over"} /\ beat' = "over"
      /\ mutex' = IF mutex = "heartbeat" THEN "free" ELSE mutex
      /\ stray' \subseteq stray \cup {"extend"}
      /\ budget' = 0 /\ spent' = 0
      /\ UNCHANGED <<lease, ended, visible, final, local, deadline, active, lost, at, current>>
  BY DEF JoinHeartbeat, Join, LeaveStray
<1>2. Times' /\ RunsDown' /\ Covered'
  BY <1>1 DEF Times, RunsDown, Covered
<1>3. Tracked' /\ Exclusive' /\ LastCalls'
  BY <1>1 DEF Tracked, Exclusive, LastCalls
<1> QED
  BY <1>2, <1>3

\* The last call takes effect, or is left behind, once.
LEMMA UpdateKeeps == BeatInv /\ Update => BeatInv'
<1> SUFFICES ASSUME BeatInv, Update PROVE BeatInv'
  OBVIOUS
<1> USE Settings DEF BeatInv
<1>1. /\ main = "update" /\ main' = "over"
      /\ visible' \in {visible, RetryDelay}
      /\ UNCHANGED <<lease, ended, active, current, mutex>> /\ UNCHANGED beatVars
  BY DEF Update
<1>2. beat = "over"
  BY <1>1 DEF Tracked
<1>3. Times' /\ RunsDown' /\ Covered'
  BY <1>1, <1>2 DEF Times, RunsDown, Covered, beatVars
<1>4. Tracked' /\ Exclusive'
  BY <1>1, <1>2 DEF Tracked, Exclusive, beatVars
<1>5. final = "none" /\ "delay" \notin stray
  BY <1>1 DEF LastCalls
<1>6. \/ stray' = stray
      \/ final' = final /\ stray' = stray \cup {LastCall} /\ LastCall # "none"
  BY DEF Update, LeaveStray
<1>7. LastCall \in {"delay", "delete", "none"}
  BY DEF LastCall
<1>8. LastCalls'
  BY <1>1, <1>5, <1>6, <1>7 DEF LastCalls
<1> QED
  BY <1>3, <1>4, <1>8

\* What was left behind arrives when nothing else is to come.
LEMMA StrayKeeps == BeatInv /\ StrayApplied => BeatInv'
<1> SUFFICES ASSUME BeatInv, StrayApplied PROVE BeatInv'
  OBVIOUS
<1> USE Settings DEF BeatInv
<1>1. PICK call \in stray :
        /\ stray' = stray \ {call}
        /\ visible' \in {visible, Visibility, RetryDelay}
        /\ final' = IF call = "extend" THEN final ELSE call
        /\ UNCHANGED <<lease, ended, active, mutex>>
        /\ UNCHANGED beatVars /\ UNCHANGED mainVars
  BY DEF StrayApplied
<1>2. beat = "over"
  BY <1>1 DEF Covered
<1>3. Times' /\ RunsDown' /\ Covered'
  BY <1>1, <1>2 DEF Times, RunsDown, Covered, beatVars, mainVars
<1>4. Tracked' /\ Exclusive'
  BY <1>1, <1>2 DEF Tracked, Exclusive, beatVars, mainVars
<1>5. LastCalls'
  BY <1>1 DEF LastCalls, mainVars
<1> QED
  BY <1>3, <1>4, <1>5

\* The invariant of a delivery and its heartbeat, for every number of records
\* and every choice of the times.
THEOREM HeartbeatInvariant == HeartbeatSpec => []BeatInv
<1>1. BeatInv /\ [HeartbeatNext]_heartbeatVars => BeatInv'
  <2> SUFFICES ASSUME BeatInv, [HeartbeatNext]_heartbeatVars PROVE BeatInv'
    OBVIOUS
  <2>1. CASE Tick
    BY <2>1, TickKeeps
  <2>2. CASE Watchdog \/ RenewalFails \/ ExtensionFails
    BY <2>2, LossKeeps
  <2>3. CASE BeginCycle
    BY <2>3, BeginCycleKeeps
  <2>4. CASE LockToRenew
    BY <2>4, LockToRenewKeeps
  <2>5. CASE Renewed
    BY <2>5, RenewedKeeps
  <2>6. CASE Extended
    BY <2>6, ExtendedKeeps
  <2>7. CASE PipelineOver \/ SendEnd \/ AllProcessed \/ TooLate
    BY <2>7, AttemptKeeps
  <2>8. CASE Ended \/ EndInDoubt
    BY <2>8, EndKeeps
  <2>9. CASE StopLost
    BY <2>9, StopLostKeeps
  <2>10. CASE JoinHeartbeat
    BY <2>10, JoinKeeps
  <2>11. CASE Update
    BY <2>11, UpdateKeeps
  <2>12. CASE StrayApplied
    BY <2>12, StrayKeeps
  <2>13. CASE UNCHANGED heartbeatVars
    BY <2>13
       DEF heartbeatVars, BeatInv, Times, RunsDown, Covered, Tracked, Exclusive, LastCalls
  <2> QED
    BY <2>1, <2>2, <2>3, <2>4, <2>5, <2>6, <2>7, <2>8, <2>9, <2>10, <2>11, <2>12, <2>13
       DEF HeartbeatNext
<1> QED
  BY InitBeat, <1>1, PTL DEF HeartbeatSpec

\* What the process believes of its ownership is so, whatever the calls take:
\* every record it tracks is leased, and the message hidden, at least as long
\* as its own deadlines say.
THEOREM BeliefsAreSound == HeartbeatSpec => []BeliefSound
<1>1. BeatInv => BeliefSound
  <2> SUFFICES ASSUME BeatInv, lost = "no", main \in {"work", "lock", "end"}
               PROVE  /\ \A i \in active : lease[i] >= local[i] /\ i \notin ended
                      /\ visible >= deadline
    BY DEF BeliefSound
  <2>1. beat # "over"
    BY DEF BeatInv, Tracked
  <2> QED
    BY <2>1 DEF BeatInv, Tracked, Covered
<1> QED
  BY HeartbeatInvariant, <1>1, PTL

\* No renewal is refused because the delivery itself has ended the row.
THEOREM EndsCostNobody == HeartbeatSpec => []EndCostsNobody
<1>1. BeatInv => EndCostsNobody
  BY DEF BeatInv, Exclusive, EndCostsNobody
<1> QED
  BY HeartbeatInvariant, <1>1, PTL

\* Once the delay of a retry has taken effect the process sends nothing more,
\* and only the extension under way at the join can still hide the message
\* longer, once.
THEOREM RetrySchedulesAreKept == HeartbeatSpec => RetryScheduleKept
<1> DEFINE Kept ==
      final = "delay" =>
        /\ stray' \subseteq stray
        /\ visible' > visible => "extend" \in stray /\ stray' = stray \ {"extend"}
<1>1. BeatInv /\ [HeartbeatNext]_heartbeatVars => Kept
  <2> SUFFICES ASSUME BeatInv, [HeartbeatNext]_heartbeatVars, final = "delay"
               PROVE  /\ stray' \subseteq stray
                      /\ visible' > visible =>
                           "extend" \in stray /\ stray' = stray \ {"extend"}
    OBVIOUS
  <2>1. /\ main = "over" /\ beat = "over" /\ "delay" \notin stray /\ visible \in Nat
    BY DEF BeatInv, Times, Tracked, LastCalls
  <2>2. CASE StrayApplied
    <3>1. PICK call \in stray :
            /\ stray' = stray \ {call}
            /\ visible' = IF call = "extend" THEN Visibility
                          ELSE IF call = "delay" THEN RetryDelay ELSE visible
      BY <2>2 DEF StrayApplied
    <3>2. CASE call = "extend"
      BY <3>1, <3>2
    <3>3. CASE call # "extend"
      <4>1. visible' = visible
        BY <2>1, <3>1, <3>3
      <4> QED
        BY <2>1, <3>1, <4>1
    <3> QED
      BY <3>2, <3>3
  <2>3. ~StrayApplied => UNCHANGED <<stray, visible>> \/ Tick
    BY <2>1
       DEF HeartbeatNext, Watchdog, BeginCycle, LockToRenew, Renewed, RenewalFails,
           Extended, ExtensionFails, PipelineOver, SendEnd, Ended, EndInDoubt, StopLost,
           AllProcessed, JoinHeartbeat, Update, TooLate, Keep, heartbeatVars, serverVars
  <2>4. CASE Tick
    <3>1. stray' = stray /\ visible' = Less(visible)
      BY <2>4 DEF Tick
    <3>2. ~(visible' > visible)
      BY <2>1, <3>1 DEF Less
    <3> QED
      BY <3>1, <3>2
  <2>5. CASE UNCHANGED <<stray, visible>>
    <3>1. ~(visible' > visible)
      BY <2>1, <2>5
    <3> QED
      BY <2>5, <3>1
  <2> QED
    BY <2>2, <2>3, <2>4, <2>5
<1>2. BeatInv /\ [HeartbeatNext]_heartbeatVars => [Kept]_heartbeatVars
  BY <1>1
<1> QED
  BY HeartbeatInvariant, <1>2, PTL DEF HeartbeatSpec, RetryScheduleKept

-----------------------------------------------------------------------------
(* With prompt calls no deadline is met.                                   *)

\* The ticks since the present cycle was due, as the cadence counts them.
Elapsed == IF due THEN Interval ELSE Interval - grid

Renewing == beat \in {"lock", "renew"}

InCycle == Renewing \/ beat = "extend"

\* What k calls may take.
Calls(k) == k * latency

Cadence ==
  /\ grid \in 1..Interval /\ due \in BOOLEAN /\ (due => grid = Interval)
  /\ beat \in {"wait", "lock", "renew", "extend"}

\* A cycle is no further behind than its calls may have taken, and what the
\* call under way will grant is counted from the beginning of that call.
OnTime ==
  /\ Renewing => /\ at \in Record
                 /\ Elapsed <= Calls(at - 1) + spent
                 /\ budget + spent >= Lease
  /\ beat = "extend" => /\ Elapsed <= Calls(NRecords) + spent
                        /\ budget + spent >= Visibility
  /\ InCycle => spent <= latency /\ spent <= Elapsed

\* What has been renewed in this cycle was granted in full after it began; the
\* rest was in the cycle before.
Ahead ==
  /\ \A i \in active :
       \/ local[i] + Elapsed >= Lease
       \/ Renewing /\ i >= at /\ local[i] + Elapsed + Interval >= Lease
  /\ \/ deadline + Elapsed >= Visibility
     \/ InCycle /\ deadline + Elapsed + Interval >= Visibility

Timely == Cadence /\ OnTime /\ Ahead

PromptInv ==
  /\ latency \in Nat
  /\ Prompt /\ beat # "over" => Timely
  /\ PromptNeverLate

\* A set of numbers that has a member has a least one.
LEMMA LeastMember ==
  ASSUME NEW S \in SUBSET Nat, S # {}
  PROVE  Min(S) \in S /\ \A y \in S : Min(S) <= y
<1>1. IsWellFoundedOn(OpToRel(<, Nat), Nat)
  BY NatLessThanWellFounded
<1>2. \E x \in S : \A y \in S : <<y, x>> \notin OpToRel(<, Nat)
  BY <1>1, WFMin
<1>3. ASSUME NEW x \in S, NEW y \in S, <<y, x>> \notin OpToRel(<, Nat)
      PROVE  x <= y
  <2>1. <<y, x>> \notin {ss \in Nat \X Nat : ss[1] < ss[2]}
    BY <1>3 DEF OpToRel
  <2> QED
    BY <2>1
<1>4. \E x \in S : \A y \in S : x <= y
  BY <1>2, <1>3
<1> QED
  BY <1>4 DEF Min

\* Each call adds its latency.
LEMMA CallTimes ==
  ASSUME latency \in Nat
  PROVE  /\ \A k \in Nat : Calls(k) \in Nat /\ Calls(k + 1) = Calls(k) + latency
         /\ \A j, k \in Nat : j <= k => Calls(j) <= Calls(k)
<1>1. ASSUME NEW k \in Nat PROVE Calls(k) \in Nat /\ Calls(k + 1) = Calls(k) + latency
  BY SMT DEF Calls
<1>2. ASSUME NEW j \in Nat, NEW k \in Nat, j <= k PROVE Calls(j) <= Calls(k)
  <2>1. k - j \in Nat /\ (k - j) * latency \in Nat
    BY <1>2
  <2>2. k * latency = j * latency + (k - j) * latency
    BY <2>1, SMT
  <2> QED
    BY <2>1, <2>2, SMT DEF Calls
<1> QED
  BY <1>1, <1>2

\* Prompt, with the calls of a cycle counted.
LEMMA PromptCalls ==
  ASSUME latency \in Nat, Prompt
  PROVE  /\ Calls(NRecords) + latency <= Interval
         /\ Interval + Calls(NRecords) < Lease
         /\ Interval + Calls(NRecords) + latency < Visibility
         /\ Calls(NRecords) \in Nat
<1>1. Calls(NRecords + 1) = Calls(NRecords) + latency /\ Calls(NRecords) \in Nat
  BY Settings, CallTimes
<1>2. Calls(NRecords + 1) = (NRecords + 1) * latency /\ Calls(NRecords) = NRecords * latency
  BY DEF Calls
<1>3. /\ Calls(NRecords + 1) <= Interval
      /\ Interval + Calls(NRecords) < Lease
      /\ Interval + Calls(NRecords + 1) < Visibility
  BY <1>2, Zenon DEF Prompt
<1> QED
  BY <1>1, <1>3, Settings

\* The record that is looked at next is one the heartbeat tracks, and those
\* between are none.
LEMMA FollowingRecord ==
  ASSUME NEW i \in Nat, active \subseteq Record
  PROVE  \/ /\ Following(i) = [beat |-> "extend", at |-> 1, budget |-> Visibility]
            /\ \A k \in active : k < i
         \/ \E n \in active :
              /\ Following(i) = [beat |-> "lock", at |-> n, budget |-> Lease]
              /\ n >= i
              /\ \A k \in active : k < i \/ k >= n
<1> DEFINE rest == {k \in active : k >= i}
<1>0. \A k \in Record : k \in Nat
  BY Settings DEF Record
<1>1. rest \in SUBSET Nat
  BY <1>0
<1>2. CASE rest = {}
  <2>1. Following(i) = [beat |-> "extend", at |-> 1, budget |-> Visibility]
    BY <1>2 DEF Following
  <2>2. \A k \in active : k < i
    BY <1>2, Settings DEF Record
  <2> QED
    BY <2>1, <2>2
<1>3. CASE rest # {}
  <2>1. Following(i) = [beat |-> "lock", at |-> Min(rest), budget |-> Lease]
    BY <1>3 DEF Following
  <2> HIDE DEF rest
  <2>2. Min(rest) \in rest /\ \A y \in rest : Min(rest) <= y
    BY <1>1, <1>3, LeastMember
  <2>3. Min(rest) \in active /\ Min(rest) >= i
    BY <2>2 DEF rest
  <2>4. ASSUME NEW k \in active PROVE k < i \/ k >= Min(rest)
    <3>1. k \in Nat /\ Min(rest) \in Nat
      BY <1>0, <1>1, <2>2
    <3> QED
      BY <2>2, <3>1 DEF rest
  <2> QED
    BY <2>1, <2>3, <2>4
<1> QED
  BY <1>2, <1>3

\* A heartbeat that is on time has met no deadline.
LEMMA TimelyEarliest ==
  ASSUME BeatInv, latency \in Nat, Prompt, Timely
  PROVE  Earliest > 0
<1> USE Settings DEF BeatInv, Times
<1>p. /\ Calls(NRecords) + latency <= Interval
      /\ Interval + Calls(NRecords) < Lease
      /\ Interval + Calls(NRecords) + latency < Visibility
      /\ Calls(NRecords) \in Nat
  BY PromptCalls
<1>e. Elapsed \in 0..Interval
  BY DEF Timely, Cadence, Elapsed
<1>r. ASSUME Renewing PROVE Elapsed <= Calls(NRecords)
  <2>1. at \in Record /\ Elapsed <= Calls(at - 1) + spent /\ spent <= latency
    BY <1>r DEF Timely, OnTime, InCycle
  <2>2. at \in Nat /\ at - 1 \in Nat /\ at <= NRecords /\ (at - 1) + 1 = at
    BY <2>1 DEF Record
  <2>3. Calls(at - 1) + latency = Calls(at) /\ Calls(at) <= Calls(NRecords)
        /\ Calls(at - 1) \in Nat /\ Calls(at) \in Nat
    BY <2>2, CallTimes
  <2> QED
    BY <1>p, <1>e, <2>1, <2>3
<1>x. ASSUME InCycle PROVE Elapsed <= Calls(NRecords) + latency
  <2>1. CASE Renewing
    BY <1>r, <1>p, <1>e, <2>1
  <2>2. CASE beat = "extend"
    <3>1. Elapsed <= Calls(NRecords) + spent /\ spent <= latency
      BY <2>2 DEF Timely, OnTime, InCycle
    <3> QED
      BY <1>p, <1>e, <3>1
  <2> QED
    BY <1>x, <2>1, <2>2 DEF InCycle
<1>1. ASSUME NEW i \in active PROVE local[i] \in Nat /\ local[i] > 0
  <2>1. local[i] \in Nat
    OBVIOUS
  <2>2. \/ local[i] + Elapsed >= Lease
        \/ Renewing /\ local[i] + Elapsed + Interval >= Lease
    BY DEF Timely, Ahead
  <2> QED
    BY <1>p, <1>e, <1>r, <2>1, <2>2
<1>2. deadline \in Nat /\ deadline > 0
  <2>1. \/ deadline + Elapsed >= Visibility
        \/ InCycle /\ deadline + Elapsed + Interval >= Visibility
    BY DEF Timely, Ahead
  <2> QED
    BY <1>p, <1>e, <1>x, <2>1
<1> DEFINE all == {deadline} \cup {local[i] : i \in active}
<1>3. all \in SUBSET Nat /\ all # {} /\ \A x \in all : x > 0
  BY <1>1, <1>2
<1> HIDE DEF all
<1>4. Min(all) \in all
  BY <1>3, LeastMember
<1> QED
  BY <1>3, <1>4 DEF Earliest, all

\* A delivery begins with full deadlines.
LEMMA InitPrompt == HeartbeatInit => PromptInv
<1> SUFFICES ASSUME HeartbeatInit PROVE PromptInv
  OBVIOUS
<1>1. latency \in Nat /\ Interval \in 1..Interval
  BY HeartbeatAssumption DEF HeartbeatInit
<1>2. Cadence /\ OnTime
  BY <1>1 DEF HeartbeatInit, Cadence, OnTime, Renewing, InCycle
<1>3. Ahead
  BY Settings DEF HeartbeatInit, Ahead, Elapsed
<1>4. PromptNeverLate
  BY DEF HeartbeatInit, PromptNeverLate
<1> QED
  BY <1>1, <1>2, <1>3, <1>4 DEF PromptInv, Timely

\* What a step leaves alone that touches neither the heartbeat nor its times.
LEMMA BesideKeeps ==
  ASSUME PromptInv, UNCHANGED latency, UNCHANGED beatVars, active' \subseteq active
  PROVE  PromptInv'
<1>1. Prompt' = Prompt
  BY DEF Prompt
<1>2. Timely => Timely'
  BY DEF Timely, Cadence, OnTime, Ahead, Elapsed, Renewing, InCycle, Calls, beatVars
<1>3. PromptNeverLate'
  BY <1>1 DEF PromptInv, PromptNeverLate, beatVars
<1> QED
  BY <1>1, <1>2, <1>3 DEF PromptInv, beatVars

\* A tick takes one from each deadline and adds one to the cycle; it does not
\* pass while the cadence is due and the cycle has not begun, or a call has
\* taken its time.
LEMMA TickPrompt == BeatInv /\ PromptInv /\ Tick => PromptInv'
<1> SUFFICES ASSUME BeatInv, PromptInv, Tick PROVE PromptInv'
  OBVIOUS
<1> USE Settings
<1>1. /\ latency' = latency /\ active' = active /\ lost' = lost /\ beat' = beat
      /\ at' = at /\ latency \in Nat
  BY DEF Tick, PromptInv
<1>2. Prompt' = Prompt
  BY <1>1 DEF Prompt
<1>3. PromptNeverLate'
  BY <1>1, <1>2 DEF PromptInv, PromptNeverLate
<1> SUFFICES ASSUME Prompt, beat # "over" PROVE Timely'
  BY <1>1, <1>2, <1>3 DEF PromptInv
<1>t. Timely
  BY DEF PromptInv
<1>p. Calls(NRecords) + latency <= Interval /\ Calls(NRecords) \in Nat
  BY <1>1, PromptCalls
<1>n. /\ local \in [Record -> Nat] /\ deadline \in Nat /\ budget \in Nat /\ spent \in Nat
      /\ active \subseteq Record
  BY DEF BeatInv, Times
<1>g. /\ grid \in 1..Interval /\ due \in BOOLEAN
      /\ due' = (due \/ grid = 1)
      /\ grid' = IF grid = 1 THEN Interval ELSE grid - 1
  BY <1>t DEF Timely, Cadence, Tick
<1>4. ~due
  <2> SUFFICES ASSUME due PROVE FALSE
    BY <1>g
  <2>1. InCycle /\ spent < latency
    BY <1>t DEF Timely, Cadence, InCycle, Renewing, Tick
  <2>2. Elapsed = Interval
    BY DEF Elapsed
  <2>3. CASE Renewing
    <3>1. at \in Record /\ Interval <= Calls(at - 1) + spent
      BY <1>t, <2>2, <2>3 DEF Timely, OnTime
    <3>2. at \in Nat /\ at - 1 \in Nat /\ at <= NRecords /\ (at - 1) + 1 = at
      BY <3>1 DEF Record
    <3>3. Calls(at - 1) + latency = Calls(at) /\ Calls(at) <= Calls(NRecords)
          /\ Calls(at - 1) \in Nat /\ Calls(at) \in Nat
      BY <1>1, <3>2, CallTimes
    <3> QED
      BY <1>1, <1>p, <1>n, <2>1, <3>1, <3>3
  <2>4. CASE beat = "extend"
    <3>1. Interval <= Calls(NRecords) + spent
      BY <1>t, <2>2, <2>4 DEF Timely, OnTime
    <3> QED
      BY <1>1, <1>p, <1>n, <2>1, <3>1
  <2> QED
    BY <2>1, <2>3, <2>4 DEF InCycle
<1>5. Cadence'
  <2>1. grid' \in 1..Interval /\ (due' => grid' = Interval)
    BY <1>g, <1>4
  <2>2. due' \in BOOLEAN
    BY <1>g, Zenon
  <2> QED
    BY <1>1, <1>t, <2>1, <2>2 DEF Timely, Cadence
<1>6. Elapsed' = Elapsed + 1 /\ Elapsed \in Nat
  <2>d. (grid = 1 => due') /\ (grid # 1 => ~due')
    BY <1>g, <1>4, Zenon
  <2>1. CASE grid = 1
    BY <1>g, <1>4, <2>d, <2>1 DEF Elapsed
  <2>2. CASE grid # 1
    BY <1>g, <1>4, <2>d, <2>2 DEF Elapsed
  <2> QED
    BY <2>1, <2>2
<1>7. /\ InCycle' = InCycle /\ Renewing' = Renewing /\ \A k \in Nat : Calls(k)' = Calls(k)
  BY <1>1 DEF InCycle, Renewing, Calls
<1>8. \A i \in active : local'[i] >= local[i] - 1 /\ local'[i] \in Nat
  BY <1>n DEF Tick, Less
<1>b. /\ deadline' >= deadline - 1 /\ budget' >= budget - 1
      /\ deadline' \in Nat /\ budget' \in Nat
      /\ deadline \in Nat /\ budget \in Nat /\ spent \in Nat
  BY <1>n DEF Tick, Less
<1>9. OnTime'
  <2>1. InCycle => spent < latency /\ spent' = spent + 1
    BY DEF InCycle, Renewing, Tick
  <2>2. ASSUME Renewing
        PROVE  at \in Record /\ Elapsed' <= Calls(at - 1) + spent' /\ budget' + spent' >= Lease
    <3>1. at \in Record /\ Elapsed <= Calls(at - 1) + spent /\ budget + spent >= Lease
      BY <1>t, <2>2 DEF Timely, OnTime
    <3>2. Calls(at - 1) \in Nat
      <4>1. at - 1 \in Nat
        BY <3>1 DEF Record
      <4> QED
        BY <1>1, <4>1, CallTimes
    <3> QED
      <4>1. spent' = spent + 1
        BY <2>1, <2>2 DEF InCycle
      <4> DEFINE left == budget'
                 passed == Elapsed'
                 taken == spent'
      <4>2. /\ left \in Nat /\ left >= budget - 1
            /\ passed = Elapsed + 1 /\ taken = spent + 1
        BY <1>6, <1>b, <4>1
      <4> HIDE DEF left, passed, taken
      <4>3. passed <= Calls(at - 1) + taken /\ left + taken >= Lease
        BY <1>6, <1>b, <3>1, <3>2, <4>2
      <4> QED
        BY <3>1, <4>3 DEF left, passed, taken
  <2>3. ASSUME beat = "extend"
        PROVE  Elapsed' <= Calls(NRecords) + spent' /\ budget' + spent' >= Visibility
    <3>1. Elapsed <= Calls(NRecords) + spent /\ budget + spent >= Visibility
      BY <1>t, <2>3 DEF Timely, OnTime
    <3> QED
      <4>1. spent' = spent + 1
        BY <2>1, <2>3 DEF InCycle
      <4> DEFINE left == budget'
                 passed == Elapsed'
                 taken == spent'
      <4>2. /\ left \in Nat /\ left >= budget - 1
            /\ passed = Elapsed + 1 /\ taken = spent + 1
        BY <1>6, <1>b, <4>1
      <4> HIDE DEF left, passed, taken
      <4>3. passed <= Calls(NRecords) + taken /\ left + taken >= Visibility
        BY <1>6, <1>b, <3>1, <1>p, <4>2
      <4> QED
        BY <3>1, <4>3 DEF left, passed, taken
  <2>4. InCycle => spent' <= latency /\ spent' <= Elapsed'
    BY <1>t, <1>1, <1>n, <1>6, <2>1 DEF Timely, OnTime
  <2>5. Renewing => Calls(at - 1)' = Calls(at - 1)
    BY <1>1 DEF Calls
  <2>6. Calls(NRecords)' = Calls(NRecords)
    BY <1>1 DEF Calls
  <2> QED
    BY <1>1, <1>7, <2>2, <2>3, <2>4, <2>5, <2>6 DEF OnTime
<1>10. Ahead'
  <2>1. ASSUME NEW i \in active
        PROVE  \/ local'[i] + Elapsed' >= Lease
               \/ Renewing /\ i >= at /\ local'[i] + Elapsed' + Interval >= Lease
    <3>1. \/ local[i] + Elapsed >= Lease
          \/ Renewing /\ i >= at /\ local[i] + Elapsed + Interval >= Lease
      BY <1>t DEF Timely, Ahead
    <3>2. local[i] \in Nat /\ local'[i] \in Nat /\ local'[i] >= local[i] - 1
      BY <1>n, <1>8
    <3> QED
      BY <1>6, <3>1, <3>2
  <2>2. \/ deadline' + Elapsed' >= Visibility
        \/ InCycle /\ deadline' + Elapsed' + Interval >= Visibility
    <3>1. \/ deadline + Elapsed >= Visibility
          \/ InCycle /\ deadline + Elapsed + Interval >= Visibility
      BY <1>t DEF Timely, Ahead
    <3> QED
      <4> DEFINE left == deadline'
                 passed == Elapsed'
      <4>1. left \in Nat /\ left >= deadline - 1 /\ passed = Elapsed + 1
        BY <1>6, <1>b
      <4> HIDE DEF left, passed
      <4>2. \/ left + passed >= Visibility
            \/ InCycle /\ left + passed + Interval >= Visibility
        BY <1>6, <1>b, <3>1, <4>1
      <4> QED
        BY <4>2 DEF left, passed
  <2> QED
    BY <1>1, <1>7, <2>1, <2>2 DEF Ahead
<1> QED
  BY <1>5, <1>9, <1>10 DEF Timely

\* The watchdog is not polled for a heartbeat that is on time; other losses are
\* no deadlines.
LEMMA LossPrompt ==
  BeatInv /\ PromptInv /\ (Watchdog \/ RenewalFails \/ ExtensionFails) => PromptInv'
<1> SUFFICES ASSUME BeatInv, PromptInv, Watchdog \/ RenewalFails \/ ExtensionFails
             PROVE  PromptInv'
  OBVIOUS
<1>1. latency' = latency /\ beat' = "over" /\ latency \in Nat
  BY DEF PromptInv, Watchdog, RenewalFails, ExtensionFails, Revoke
<1>2. Prompt' = Prompt
  BY <1>1 DEF Prompt
<1>3. ASSUME Prompt PROVE lost' \notin {"leaseDeadline", "visibilityDeadline"}
  <2>1. ASSUME Watchdog PROVE FALSE
    <3>1. beat # "over" /\ Earliest = 0
      BY <2>1 DEF Watchdog
    <3>2. Earliest > 0
      BY <1>1, <1>3, <3>1, TimelyEarliest DEF PromptInv
    <3> QED
      BY <3>1, <3>2
  <2> QED
    BY <2>1 DEF RenewalFails, ExtensionFails, Revoke
<1> QED
  BY <1>1, <1>2, <1>3 DEF PromptInv, PromptNeverLate

\* The cycle begins when the cadence ticks: all that is tracked is still to be
\* renewed in it.
LEMMA BeginCyclePrompt == BeatInv /\ PromptInv /\ BeginCycle => PromptInv'
<1> SUFFICES ASSUME BeatInv, PromptInv, BeginCycle PROVE PromptInv'
  OBVIOUS
<1> USE Settings
<1>1. /\ beat = "wait" /\ due /\ due' = FALSE /\ grid' = grid /\ latency' = latency
      /\ local' = local /\ deadline' = deadline /\ active' = active /\ lost' = lost
      /\ beat' = Following(1).beat /\ at' = Following(1).at
      /\ budget' = Following(1).budget /\ spent' = 0 /\ latency \in Nat
  BY DEF BeginCycle, Continue, PromptInv
<1>2. Prompt' = Prompt
  BY <1>1 DEF Prompt
<1>3. PromptNeverLate'
  BY <1>1, <1>2 DEF PromptInv, PromptNeverLate
<1> SUFFICES ASSUME Prompt PROVE Timely'
  BY <1>1, <1>2, <1>3 DEF PromptInv
<1>t. Timely
  BY <1>1 DEF PromptInv
<1>n. active \subseteq Record /\ local \in [Record -> Nat] /\ deadline \in Nat
  BY DEF BeatInv, Times
<1>4. grid = Interval /\ Elapsed = Interval /\ Elapsed' = 0
  BY <1>1, <1>t DEF Timely, Cadence, Elapsed
<1>5. /\ \A i \in active : local[i] + Interval >= Lease
      /\ deadline + Interval >= Visibility
  BY <1>1, <1>4, <1>t DEF Timely, Ahead, Renewing, InCycle
<1>6. Calls(NRecords) \in Nat /\ \A k \in Nat : Calls(k) \in Nat
  BY <1>1, CallTimes
<1>7. \A k \in Nat : Calls(k)' = Calls(k)
  BY <1>1 DEF Calls
<1>8. \/ /\ beat' = "extend" /\ at' = 1 /\ budget' = Visibility
         /\ \A k \in active : k < 1
      \/ /\ beat' = "lock" /\ at' \in active /\ budget' = Lease
         /\ \A k \in active : k < 1 \/ k >= at'
  BY <1>1, <1>n, FollowingRecord
<1>9. \A k \in active : k \in Nat /\ k >= 1
  BY <1>n DEF Record
<1>10. Cadence'
  BY <1>1, <1>4, <1>8, <1>t DEF Timely, Cadence
<1>11. OnTime'
  <2>1. CASE beat' = "extend"
    BY <1>1, <1>4, <1>6, <1>7, <1>8, <2>1 DEF OnTime, Renewing, InCycle
  <2>2. CASE beat' = "lock"
    <3>1. at' \in Record /\ at' - 1 \in Nat /\ budget' = Lease
      BY <1>8, <1>9, <1>n, <2>2
    <3>2. Calls(at - 1)' = Calls(at' - 1) /\ Calls(at' - 1) \in Nat
      BY <1>1, <1>6, <3>1 DEF Calls
    <3>3. Elapsed' <= Calls(at - 1)' + spent' /\ budget' + spent' >= Lease
      BY <1>1, <1>4, <3>1, <3>2
    <3> QED
      BY <1>1, <1>4, <2>2, <3>1, <3>3 DEF OnTime, Renewing, InCycle
  <2> QED
    BY <1>8, <2>1, <2>2
<1>12. Ahead'
  <2>1. ASSUME NEW i \in active
        PROVE  Renewing' /\ i >= at' /\ local'[i] + Elapsed' + Interval >= Lease
    <3>1. beat' = "lock" /\ i >= at'
      BY <1>8, <1>9
    <3>2. local'[i] + 0 + Interval >= Lease
      BY <1>1, <1>5, <1>n
    <3> QED
      BY <1>4, <3>1, <3>2 DEF Renewing
  <2>2. InCycle' /\ deadline' + Elapsed' + Interval >= Visibility
    <3>1. deadline' + 0 + Interval >= Visibility
      <4>1. deadline + 0 + Interval >= Visibility
        BY <1>5, <1>n
      <4> QED
        BY <1>1, <4>1
    <3> QED
      BY <1>4, <1>8, <3>1 DEF InCycle, Renewing
  <2> QED
    BY <1>1, <2>1, <2>2 DEF Ahead
<1> QED
  BY <1>10, <1>11, <1>12 DEF Timely

\* A record that is done, renewed or retired, is as far ahead as the cycle.
LEMMA NextRecord ==
  ASSUME BeatInv, latency \in Nat, Timely, Renewing,
         Continue(Following(at + 1)), local' = [local EXCEPT ![at] = budget],
         UNCHANGED <<latency, deadline, active, due, grid>>
  PROVE  Timely'
<1> USE Settings
<1>1. /\ beat' = Following(at + 1).beat /\ at' = Following(at + 1).at
      /\ budget' = Following(at + 1).budget /\ spent' = 0
  BY DEF Continue
<1>n. /\ active \subseteq Record /\ local \in [Record -> Nat] /\ deadline \in Nat
      /\ budget \in Nat /\ spent \in Nat
  BY DEF BeatInv, Times
<1>2. /\ at \in Record /\ Elapsed <= Calls(at - 1) + spent /\ budget + spent >= Lease
      /\ spent <= latency /\ spent <= Elapsed
  BY DEF Timely, OnTime, InCycle
<1>3. at \in Nat /\ at - 1 \in Nat /\ at + 1 \in Nat /\ at <= NRecords /\ (at - 1) + 1 = at
  BY <1>2 DEF Record
<1>4. Elapsed \in Nat /\ Elapsed' = Elapsed
  BY DEF Timely, Cadence, Elapsed
<1>5. Elapsed <= Calls(at) /\ Calls(at) \in Nat
  <2>1. Calls(at - 1) \in Nat /\ Calls(at) = Calls(at - 1) + latency /\ Calls(at) \in Nat
    BY <1>3, CallTimes
  <2> QED
    BY <1>2, <1>4, <1>n, <2>1
<1>6. \/ /\ beat' = "extend" /\ at' = 1 /\ budget' = Visibility
         /\ \A k \in active : k < at + 1
      \/ /\ beat' = "lock" /\ at' \in active /\ budget' = Lease /\ at' >= at + 1
         /\ \A k \in active : k < at + 1 \/ k >= at'
  BY <1>1, <1>3, <1>n, FollowingRecord
<1>7. \A k \in active : k \in Nat
  BY <1>n DEF Record
<1>8. Cadence'
  BY <1>6 DEF Timely, Cadence
<1>9. OnTime'
  <2>1. CASE beat' = "extend"
    <3>1. Calls(NRecords)' = Calls(NRecords) /\ Calls(NRecords) \in Nat
          /\ Calls(at) <= Calls(NRecords)
      BY <1>3, CallTimes DEF Calls
    <3>2. Elapsed <= Calls(NRecords) + 0 /\ Visibility + 0 >= Visibility
      BY <1>4, <1>5, <3>1
    <3>3. Elapsed' <= Calls(NRecords)' + spent' /\ budget' + spent' >= Visibility
      BY <1>1, <1>4, <1>6, <2>1, <3>1, <3>2
    <3> QED
      BY <1>1, <1>4, <2>1, <3>3 DEF OnTime, Renewing, InCycle
  <2>2. CASE beat' = "lock"
    <3>1. at' \in Record /\ budget' = Lease
      BY <1>6, <1>n, <2>2
    <3> DEFINE n == at'
    <3>2. n \in Nat /\ n >= at + 1
      BY <1>6, <1>7, <2>2
    <3> HIDE DEF n
    <3>3. n - 1 \in Nat /\ at <= n - 1
      BY <1>3, <3>2
    <3>4. Calls(n - 1) \in Nat /\ Calls(at) <= Calls(n - 1)
      BY <1>3, <3>3, CallTimes
    <3>5. Elapsed <= Calls(n - 1) + 0 /\ Lease + 0 >= Lease
      BY <1>4, <1>5, <3>4
    <3>6. Calls(at - 1)' = Calls(n - 1)
      BY DEF n, Calls
    <3>7. Elapsed' <= Calls(at - 1)' + spent' /\ budget' + spent' >= Lease
      BY <1>1, <1>4, <3>1, <3>5, <3>6
    <3> QED
      BY <1>1, <1>4, <2>2, <3>1, <3>7 DEF OnTime, Renewing, InCycle
  <2> QED
    BY <1>6, <2>1, <2>2
<1>10. Ahead'
  <2>1. ASSUME NEW i \in active
        PROVE  \/ local'[i] + Elapsed >= Lease
               \/ Renewing' /\ i >= at' /\ local'[i] + Elapsed + Interval >= Lease
    <3>1. CASE i = at
      <4>1. local'[i] = budget
        BY <1>2, <1>n, <3>1
      <4>2. budget + Elapsed >= Lease
        BY <1>2, <1>4, <1>n
      <4> QED
        BY <4>1, <4>2
    <3>2. CASE i # at
      <4>1. local'[i] = local[i]
        BY <1>n, <3>2
      <4>2. \/ local[i] + Elapsed >= Lease
            \/ i >= at /\ local[i] + Elapsed + Interval >= Lease
        BY DEF Timely, Ahead
      <4>3. i >= at => i >= at + 1
        BY <1>3, <1>7, <3>2
      <4>4. i >= at => beat' = "lock" /\ i >= at'
        BY <1>3, <1>6, <1>7, <4>3
      <4> QED
        BY <4>1, <4>2, <4>4 DEF Renewing
    <3> QED
      BY <3>1, <3>2
  <2>2. deadline + Elapsed >= Visibility \/ deadline + Elapsed + Interval >= Visibility
    BY DEF Timely, Ahead
  <2>3. InCycle'
    BY <1>6 DEF InCycle, Renewing
  <2> QED
    BY <1>4, <2>1, <2>2, <2>3 DEF Ahead
<1> QED
  BY <1>8, <1>9, <1>10 DEF Timely

\* Waiting for the mutex counts as part of the call.
LEMMA RenewalPrompt == BeatInv /\ PromptInv /\ (LockToRenew \/ Renewed) => PromptInv'
<1> SUFFICES ASSUME BeatInv, PromptInv, LockToRenew \/ Renewed PROVE PromptInv'
  OBVIOUS
<1>1. /\ beat \in {"lock", "renew"} /\ latency' = latency /\ lost' = lost /\ latency \in Nat
      /\ deadline' = deadline /\ active' = active /\ due' = due /\ grid' = grid
  BY DEF LockToRenew, Renewed, PromptInv
<1>2. Prompt' = Prompt
  BY <1>1 DEF Prompt
<1>3. PromptNeverLate'
  BY <1>1, <1>2 DEF PromptInv, PromptNeverLate
<1> SUFFICES ASSUME Prompt PROVE Timely'
  BY <1>1, <1>2, <1>3 DEF PromptInv
<1>t. Timely /\ Renewing
  BY <1>1 DEF PromptInv, Renewing
<1>4. CASE LockToRenew /\ StillTracked(at)
  <2>1. /\ beat' = "renew" /\ UNCHANGED <<local, at, budget, spent>>
    BY <1>4 DEF LockToRenew
  <2> QED
    BY <1>1, <1>t, <2>1 DEF Timely, Cadence, OnTime, Ahead, Elapsed, Renewing, InCycle, Calls
<1>5. CASE LockToRenew /\ ~StillTracked(at)
  <2>1. local' = [local EXCEPT ![at] = budget] /\ Continue(Following(at + 1))
    BY <1>5 DEF LockToRenew
  <2> QED
    BY <1>1, <1>t, <2>1, NextRecord
<1>6. CASE Renewed
  <2>1. local' = [local EXCEPT ![at] = budget] /\ Continue(Following(at + 1))
    BY <1>6 DEF Renewed, RenewedBudget
  <2> QED
    BY <1>1, <1>t, <2>1, NextRecord
<1> QED
  BY <1>4, <1>5, <1>6

\* The cycle ends with the visibility of the message.
LEMMA ExtendedPrompt == BeatInv /\ PromptInv /\ Extended => PromptInv'
<1> SUFFICES ASSUME BeatInv, PromptInv, Extended PROVE PromptInv'
  OBVIOUS
<1> USE Settings
<1>1. /\ beat = "extend" /\ beat' = "wait" /\ deadline' = budget
      /\ UNCHANGED <<latency, local, active, lost, due, grid>> /\ latency \in Nat
  BY DEF Extended, PromptInv
<1>2. Prompt' = Prompt
  BY <1>1 DEF Prompt
<1>3. PromptNeverLate'
  BY <1>1, <1>2 DEF PromptInv, PromptNeverLate
<1> SUFFICES ASSUME Prompt PROVE Timely'
  BY <1>1, <1>2, <1>3 DEF PromptInv
<1>t. Timely
  BY <1>1 DEF PromptInv
<1>4. Elapsed' = Elapsed /\ Elapsed \in Nat
  BY <1>1, <1>t DEF Timely, Cadence, Elapsed
<1>5. budget + Elapsed >= Visibility
  <2>1. budget + spent >= Visibility /\ spent <= Elapsed
    BY <1>1, <1>t DEF Timely, OnTime, InCycle
  <2>2. budget \in Nat /\ spent \in Nat
    BY DEF BeatInv, Times
  <2> QED
    BY <1>4, <2>1, <2>2
<1>6. Cadence' /\ OnTime'
  BY <1>1, <1>t DEF Timely, Cadence, OnTime, Renewing, InCycle
<1>7. Ahead'
  BY <1>1, <1>4, <1>5, <1>t DEF Timely, Ahead, Renewing
<1> QED
  BY <1>6, <1>7 DEF Timely

\* While its calls are prompt a heartbeat stays on time, for every number of
\* records and every choice of the times: no delivery then runs into one of its
\* own deadlines, however long its records take.
THEOREM PromptHeartbeats == HeartbeatSpec => []PromptNeverLate
<1>1. BeatInv /\ PromptInv /\ [HeartbeatNext]_heartbeatVars => PromptInv'
  <2> SUFFICES ASSUME BeatInv, PromptInv, [HeartbeatNext]_heartbeatVars PROVE PromptInv'
    OBVIOUS
  <2>1. CASE Tick
    BY <2>1, TickPrompt
  <2>2. CASE Watchdog \/ RenewalFails \/ ExtensionFails
    BY <2>2, LossPrompt
  <2>3. CASE BeginCycle
    BY <2>3, BeginCyclePrompt
  <2>4. CASE LockToRenew \/ Renewed
    BY <2>4, RenewalPrompt
  <2>5. CASE Extended
    BY <2>5, ExtendedPrompt
  <2>6. CASE \/ PipelineOver \/ SendEnd \/ Ended \/ EndInDoubt \/ StopLost \/ AllProcessed
             \/ Update \/ TooLate \/ StrayApplied
    <3>1. UNCHANGED latency /\ UNCHANGED beatVars
      BY <2>6 DEF PipelineOver, SendEnd, Ended, EndInDoubt, StopLost, AllProcessed, Update,
         TooLate, StrayApplied, Keep
    <3>2. active' \subseteq active
      BY <2>6 DEF PipelineOver, SendEnd, Ended, EndInDoubt, StopLost, AllProcessed, Update,
         TooLate, StrayApplied
    <3> QED
      BY <3>1, <3>2, BesideKeeps
  <2>7. CASE JoinHeartbeat
    <3>1. latency' = latency /\ lost' = lost /\ beat' = "over"
      BY <2>7 DEF JoinHeartbeat, Join
    <3>2. Prompt' = Prompt
      BY <3>1 DEF Prompt
    <3> QED
      BY <3>1, <3>2 DEF PromptInv, PromptNeverLate
  <2>8. CASE UNCHANGED heartbeatVars
    <3>1. UNCHANGED latency /\ UNCHANGED beatVars /\ active' \subseteq active
      BY <2>8 DEF heartbeatVars, beatVars
    <3> QED
      BY <3>1, BesideKeeps
  <2> QED
    BY <2>1, <2>2, <2>3, <2>4, <2>5, <2>6, <2>7, <2>8 DEF HeartbeatNext
<1>2. PromptInv => PromptNeverLate
  BY DEF PromptInv
<1> QED
  BY InitPrompt, HeartbeatInvariant, <1>1, <1>2, PTL DEF HeartbeatSpec

-----------------------------------------------------------------------------
(* Types.                                                                  *)

\* An attempt that is about to end is that of one of the records.
TypeInv == HeartbeatTypeOK /\ (main \in {"lock", "end"} => current <= NRecords)

\* No time that is set is longer than the longest of the three.
LEMMA LongestBounds ==
  /\ Longest \in Nat /\ Longest >= Lease /\ Longest >= Visibility /\ Longest >= RetryDelay
<1>1. Lease \in Nat /\ Visibility \in Nat /\ RetryDelay \in Nat
  BY Settings
<1>2. \E x \in {Lease, Visibility, RetryDelay} :
        \A y \in {Lease, Visibility, RetryDelay} : x >= y
  <2>1. CASE Lease >= Visibility /\ Lease >= RetryDelay
    BY <1>1, <2>1
  <2>2. CASE Visibility >= Lease /\ Visibility >= RetryDelay
    BY <1>1, <2>2
  <2>3. CASE RetryDelay >= Lease /\ RetryDelay >= Visibility
    BY <1>1, <2>3
  <2> QED
    BY <1>1, <2>1, <2>2, <2>3
<1>3. /\ Longest \in {Lease, Visibility, RetryDelay}
      /\ \A y \in {Lease, Visibility, RetryDelay} : Longest >= y
  BY <1>2 DEF Longest, Max
<1> QED
  BY <1>1, <1>3

\* The call after the one for record i - 1.
LEMMA FollowingTyped ==
  ASSUME NEW i \in Nat, active \subseteq Record
  PROVE  /\ Following(i).beat \in {"lock", "extend"} /\ Following(i).at \in Record
         /\ Following(i).budget \in 0..Longest
<1>1. 1 \in Record /\ Lease \in 0..Longest /\ Visibility \in 0..Longest
  BY Settings, LongestBounds, HeartbeatAssumption DEF Record
<1>2. CASE Following(i) = [beat |-> "extend", at |-> 1, budget |-> Visibility]
  BY <1>1, <1>2
<1>3. ASSUME NEW n \in active,
             Following(i) = [beat |-> "lock", at |-> n, budget |-> Lease]
      PROVE  /\ Following(i).beat \in {"lock", "extend"} /\ Following(i).at \in Record
             /\ Following(i).budget \in 0..Longest
  BY <1>1, <1>3
<1> QED
  BY <1>2, <1>3, FollowingRecord

\* A tick takes no time below zero, and no call past its latency.
LEMMA TickTyped == BeatInv /\ TypeInv /\ Tick => TypeInv'
<1> SUFFICES ASSUME BeatInv, TypeInv, Tick PROVE TypeInv'
  OBVIOUS
<1> USE Settings, LongestBounds
<1>1. lease' \in [Record -> 0..Lease] /\ local' \in [Record -> 0..Lease]
  BY DEF TypeInv, HeartbeatTypeOK, Tick, Less
<1>2. visible' \in 0..Longest /\ deadline' \in 0..Visibility /\ budget' \in 0..Longest
  BY DEF TypeInv, HeartbeatTypeOK, Tick, Less
<1>3. due' \in BOOLEAN
  BY DEF Tick
<1>4. grid' \in 1..Interval
  BY HeartbeatAssumption DEF TypeInv, HeartbeatTypeOK, Tick
<1>5. latency \in Nat
  BY HeartbeatAssumption DEF TypeInv, HeartbeatTypeOK
<1>6. spent' \in 0..latency
  BY <1>5 DEF TypeInv, HeartbeatTypeOK, Tick
<1>7. UNCHANGED <<latency, ended, stray, final, active, lost, beat, at, mutex, main, current,
                  retry>>
  BY DEF Tick, mainVars
<1> QED
  BY <1>1, <1>2, <1>3, <1>4, <1>6, <1>7 DEF TypeInv, HeartbeatTypeOK

\* The loop of the heartbeat ends.
LEMMA RevokeTyped ==
  ASSUME TypeInv,
         NEW why \in {"lease", "database", "visibility", "leaseDeadline",
                      "visibilityDeadline"},
         Revoke(why)
  PROVE  TypeInv'
<1>1. latency \in Nat
  BY HeartbeatAssumption DEF TypeInv, HeartbeatTypeOK
<1>2. budget' \in 0..Longest /\ spent' \in 0..latency
  BY <1>1, LongestBounds DEF Revoke
<1>3. stray' \subseteq {"extend", "delay", "delete"}
  BY DEF TypeInv, HeartbeatTypeOK, Revoke, LeaveStray
<1>4. mutex' \in {"free", "main", "heartbeat"} /\ due' \in BOOLEAN
  BY DEF TypeInv, HeartbeatTypeOK, Revoke
<1> QED
  BY <1>2, <1>3, <1>4 DEF TypeInv, HeartbeatTypeOK, Revoke, mainVars

\* The calls of a cycle.
LEMMA CycleTyped ==
  ASSUME BeatInv, TypeInv, BeginCycle \/ LockToRenew \/ Renewed \/ Extended
  PROVE  TypeInv'
<1> USE Settings, LongestBounds
<1>1. latency \in Nat /\ spent \in Nat /\ at \in Nat /\ at + 1 \in Nat
  BY HeartbeatAssumption DEF TypeInv, HeartbeatTypeOK, Record
<1>2. ASSUME NEW i \in Nat, Continue(Following(i))
      PROVE  /\ beat' \in {"wait", "lock", "renew", "extend", "over"} /\ at' \in Record
             /\ budget' \in 0..Longest /\ spent' \in 0..latency
  <2>1. active \subseteq Record
    BY DEF TypeInv, HeartbeatTypeOK
  <2> QED
    BY <1>1, <1>2, <2>1, FollowingTyped DEF Continue
<1>3. beat \in {"lock", "renew"} => budget \in 0..Lease
  BY <1>1 DEF BeatInv, RunsDown, TypeInv, HeartbeatTypeOK
<1>4. CASE BeginCycle
  <2>1. due' \in BOOLEAN
    BY <1>4 DEF BeginCycle
  <2> QED
    BY <1>2, <1>4, <2>1 DEF BeginCycle, serverVars, mainVars, TypeInv, HeartbeatTypeOK
<1>5. CASE LockToRenew
  <2>1. CASE StillTracked(at)
    BY <1>5, <2>1 DEF LockToRenew, serverVars, mainVars, TypeInv, HeartbeatTypeOK
  <2>2. CASE ~StillTracked(at)
    <3>1. local' \in [Record -> 0..Lease]
      BY <1>3, <1>5, <2>2 DEF LockToRenew, TypeInv, HeartbeatTypeOK
    <3>2. Continue(Following(at + 1)) /\ UNCHANGED mutex
      BY <1>5, <2>2 DEF LockToRenew
    <3> QED
      BY <1>1, <1>2, <1>5, <3>1, <3>2
         DEF LockToRenew, serverVars, mainVars, TypeInv, HeartbeatTypeOK
  <2> QED
    BY <2>1, <2>2
<1>6. CASE Renewed
  <2>1. PICK ago \in 0..spent : lease' = [lease EXCEPT ![at] = Max({@, Lease - ago})]
    BY <1>6 DEF Renewed
  <2>2. lease \in [Record -> 0..Lease] /\ at \in Record /\ local \in [Record -> 0..Lease]
    BY DEF TypeInv, HeartbeatTypeOK
  <2>3. lease' = [lease EXCEPT ![at] = Max({lease[at], Lease - ago})]
    BY <2>1, <2>2
  <2>4. Max({lease[at], Lease - ago}) \in 0..Lease
    <3>1. /\ lease[at] \in 0..Lease /\ lease[at] \in Int
          /\ Lease - ago \in Int /\ Lease - ago <= Lease
      BY <1>1, <2>2
    <3>2. /\ Max({lease[at], Lease - ago}) \in {lease[at], Lease - ago}
          /\ Max({lease[at], Lease - ago}) >= lease[at]
      BY <3>1, MaxOfTwo
    <3> QED
      BY <3>1, <3>2
  <2>5. lease' \in [Record -> 0..Lease]
    BY <2>2, <2>3, <2>4
  <2>6. local' \in [Record -> 0..Lease]
    BY <1>3, <1>6, <2>2 DEF Renewed, RenewedBudget
  <2>7. Continue(Following(at + 1)) /\ mutex' = "free"
    BY <1>6 DEF Renewed
  <2> QED
    BY <1>1, <1>2, <1>6, <2>5, <2>6, <2>7 DEF Renewed, mainVars, TypeInv, HeartbeatTypeOK
<1>7. CASE Extended
  <2>1. PICK ago \in 0..spent : visible' = Max({visible, Visibility - ago})
    BY <1>7 DEF Extended
  <2>2. visible' \in 0..Longest
    <3>1. /\ visible \in 0..Longest /\ visible \in Int
          /\ Visibility - ago \in Int /\ Visibility - ago <= Longest
      BY <1>1 DEF TypeInv, HeartbeatTypeOK
    <3>2. /\ Max({visible, Visibility - ago}) \in {visible, Visibility - ago}
          /\ Max({visible, Visibility - ago}) >= visible
      BY <3>1, MaxOfTwo
    <3> QED
      BY <2>1, <3>1, <3>2
  <2>3. deadline' \in 0..Visibility
    BY <1>1, <1>7 DEF Extended, BeatInv, RunsDown, TypeInv, HeartbeatTypeOK
  <2>4. budget' \in 0..Longest /\ spent' \in 0..latency /\ beat' = "wait"
    BY <1>1, <1>7 DEF Extended
  <2> QED
    BY <1>7, <2>2, <2>3, <2>4 DEF Extended, mainVars, TypeInv, HeartbeatTypeOK
<1> QED
  BY <1>4, <1>5, <1>6, <1>7

\* The attempts, one after the other.
LEMMA AttemptTyped ==
  ASSUME TypeInv,
         \/ PipelineOver \/ SendEnd \/ Ended \/ EndInDoubt \/ StopLost \/ AllProcessed
         \/ TooLate
  PROVE  TypeInv'
<1>1. main \in {"lock", "end"} => current \in Record
  BY Settings DEF TypeInv, HeartbeatTypeOK, Record
<1>2. /\ current' \in 1..(NRecords + 1)
      /\ main' \in {"work", "lock", "end", "settle", "update", "over"}
  <2>1. current' = current \/ (main = "end" /\ current' = current + 1)
    BY DEF PipelineOver, SendEnd, Ended, EndInDoubt, StopLost, AllProcessed, TooLate
  <2>2. current \in 1..(NRecords + 1) /\ (main = "end" => current <= NRecords)
    BY DEF TypeInv, HeartbeatTypeOK
  <2>3. current' \in 1..(NRecords + 1)
    BY <2>1, <2>2, Settings
  <2>4. main' \in {"work", "lock", "end", "settle", "update", "over"}
    BY DEF PipelineOver, SendEnd, Ended, EndInDoubt, StopLost, AllProcessed, TooLate
  <2> QED
    BY <2>3, <2>4
<1>3. main' \in {"lock", "end"} => current' <= NRecords
  BY DEF TypeInv, PipelineOver, SendEnd, Ended, EndInDoubt, StopLost, AllProcessed, TooLate
<1>4. ended' \subseteq Record
  BY <1>1 DEF TypeInv, HeartbeatTypeOK, PipelineOver, SendEnd, Ended, EndInDoubt,
     StopLost, AllProcessed, TooLate
<1>5. active' \subseteq Record
  BY DEF TypeInv, HeartbeatTypeOK, PipelineOver, SendEnd, Ended, EndInDoubt,
     StopLost, AllProcessed, TooLate
<1>6. mutex' \in {"free", "main", "heartbeat"} /\ retry' \in BOOLEAN
  BY DEF TypeInv, HeartbeatTypeOK, PipelineOver, SendEnd, Ended, EndInDoubt,
     StopLost, AllProcessed, TooLate
<1>7. UNCHANGED <<latency, lease, visible, stray, final>> /\ UNCHANGED beatVars
  BY DEF PipelineOver, SendEnd, Ended, EndInDoubt, StopLost, AllProcessed, TooLate, Keep
<1> QED
  BY <1>2, <1>3, <1>4, <1>5, <1>6, <1>7 DEF beatVars, TypeInv, HeartbeatTypeOK

\* The last calls.
LEMMA LastTyped ==
  ASSUME TypeInv, JoinHeartbeat \/ Update \/ StrayApplied
  PROVE  TypeInv'
<1> USE Settings, LongestBounds DEF TypeInv, HeartbeatTypeOK
<1>1. latency \in Nat
  BY HeartbeatAssumption
<1>2. CASE JoinHeartbeat
  <2>0. budget' = 0 /\ spent' = 0 /\ due' \in BOOLEAN /\ latency' = latency
    BY <1>2 DEF JoinHeartbeat, Join
  <2>1. budget' \in 0..Longest /\ spent' \in 0..latency /\ due' \in BOOLEAN
    BY <1>1, <2>0
  <2>2. stray' \subseteq {"extend", "delay", "delete"}
    BY <1>2 DEF JoinHeartbeat, Join, LeaveStray
  <2>3. /\ main' \in {"update", "over"} /\ beat' = "over"
        /\ mutex' \in {"free", "main", "heartbeat"}
    BY <1>2 DEF JoinHeartbeat, Join
  <2>4. UNCHANGED <<latency, lease, ended, visible, final, local, deadline, active, lost, at,
                    grid, current, retry>>
    BY <1>2 DEF JoinHeartbeat
  <2> QED
    BY <2>1, <2>2, <2>3, <2>4
<1>3. CASE Update
  <2>1. final' \in {"none", "delay", "delete"} /\ stray' \subseteq {"extend", "delay", "delete"}
    BY <1>3 DEF Update, LastCall, LeaveStray
  <2>2. visible' \in 0..Longest
    BY <1>3 DEF Update
  <2> QED
    BY <1>3, <2>1, <2>2 DEF Update, beatVars
<1>4. CASE StrayApplied
  <2>1. visible' \in 0..Longest /\ final' \in {"none", "delay", "delete"}
    BY <1>4 DEF StrayApplied
  <2> QED
    BY <1>4, <2>1 DEF StrayApplied, beatVars, mainVars
<1> QED
  BY <1>2, <1>3, <1>4

\* Every deadline and every time the server keeps stays within what was asked
\* for, and no call takes longer than its latency.
THEOREM HeartbeatTypes == HeartbeatSpec => []HeartbeatTypeOK
<1>1. HeartbeatInit => TypeInv
  <2> SUFFICES ASSUME HeartbeatInit PROVE TypeInv
    OBVIOUS
  <2>1. latency \in Nat /\ 1 \in Record /\ 1 \in 1..(NRecords + 1) /\ Interval \in 1..Interval
    BY HeartbeatAssumption DEF HeartbeatInit, Record
  <2>2. /\ Lease \in 0..Lease /\ Visibility \in 0..Visibility /\ Visibility \in 0..Longest
        /\ 0 \in 0..Longest /\ 0 \in 0..latency
    BY <2>1, Settings, LongestBounds
  <2> QED
    BY <2>1, <2>2 DEF HeartbeatInit, TypeInv, HeartbeatTypeOK
<1>2. BeatInv /\ TypeInv /\ [HeartbeatNext]_heartbeatVars => TypeInv'
  <2> SUFFICES ASSUME BeatInv, TypeInv, [HeartbeatNext]_heartbeatVars PROVE TypeInv'
    OBVIOUS
  <2>1. CASE Tick
    BY <2>1, TickTyped
  <2>2. CASE Watchdog \/ RenewalFails \/ ExtensionFails
    BY <2>2, RevokeTyped DEF Watchdog, RenewalFails, ExtensionFails
  <2>3. CASE BeginCycle \/ LockToRenew \/ Renewed \/ Extended
    BY <2>3, CycleTyped
  <2>4. CASE PipelineOver \/ SendEnd \/ Ended \/ EndInDoubt \/ StopLost \/ AllProcessed
             \/ TooLate
    BY <2>4, AttemptTyped
  <2>5. CASE JoinHeartbeat \/ Update \/ StrayApplied
    BY <2>5, LastTyped
  <2>6. CASE UNCHANGED heartbeatVars
    BY <2>6 DEF heartbeatVars, TypeInv, HeartbeatTypeOK
  <2> QED
    BY <2>1, <2>2, <2>3, <2>4, <2>5, <2>6 DEF HeartbeatNext
<1>3. TypeInv => HeartbeatTypeOK
  BY DEF TypeInv
<1> QED
  BY <1>1, <1>2, <1>3, HeartbeatInvariant, PTL DEF HeartbeatSpec
=============================================================================
