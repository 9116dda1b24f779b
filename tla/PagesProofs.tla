----------------------------- MODULE PagesProofs -----------------------------
(***************************************************************************)
(* Proofs about what people are shown: the operators by JobStatus, the     *)
(* members by MessageBoard and OddsBoard, the commissioner by AdminPages   *)
(* and ShareOrders.  The five share nothing; each has an invariant of its  *)
(* own.                                                                    *)
(***************************************************************************)
EXTENDS JobStatus, MessageBoard, OddsBoard, CommissionerPages, SequenceTheorems,
        FiniteSetTheorems, WellFoundedInduction, TLAPS

(***************************************************************************)
(* JobStatus: what the operators are told of the jobs.  The keys of the    *)
(* attempts are in a total order, and a row moves only up in it.           *)
(***************************************************************************)

(* The inductive invariant *)

Attempt   == [pc : {"waiting", "running", "ended", "recorded", "lost"},
              started : Nat, outcome : Outcomes, at : Nat]
JobRow    == [key : Nat \X Nat, outcome : Outcomes, observed : Nat, success : Nat]
HealthAsk == [pc : {"idle", "asked"}, now : Nat,
              answer : {"none", "ok", "unknown", "stale", "failed"}]

\* A recorded attempt x with id a is what the row of its job shows.
ShownBy(row, x, a) ==
  /\ x.pc = "recorded"
  /\ row.key = <<x.started, a>> /\ row.outcome = x.outcome /\ row.observed = x.at

\* The attempts xs of a job, of the ids as, and its row.
RowIsFollowed(row, xs, as) ==
  /\ \A a \in as : xs[a].pc = "recorded" => ~Before(row.key, <<xs[a].started, a>>)
  /\ row # NoStatus => \E a \in as : ShownBy(row, xs[a], a)
  /\ row.success # 0 =>
       \E a \in as : /\ xs[a].pc = "recorded" /\ xs[a].outcome = "success"
                     /\ xs[a].at = row.success

AttemptsStarted(xs, as) == \A a \in as : xs[a].pc \in {"running", "ended", "recorded"} => xs[a].started > 0

JobIsFollowed(k, xs, row) ==
  /\ xs \in [AttemptOf[k] -> Attempt] /\ row \in JobRow
  /\ AttemptsStarted(xs, AttemptOf[k]) /\ RowIsFollowed(row, xs, AttemptOf[k])

JobsInv ==
  /\ jobTime \in Nat /\ jobTime > 0
  /\ probe \in HealthAsk /\ (probe.pc = "asked" => probe.answer # "ok")
  /\ attempt = [k \in JobKind |-> attempt[k]] /\ status = [k \in JobKind |-> status[k]]
  /\ \A k \in JobKind : JobIsFollowed(k, attempt[k], status[k])

-----------------------------------------------------------------------------
(* Lemmas *)

\* The keys of attempts are in a total order.
LEMMA KeysAreOrdered ==
  ASSUME NEW x \in Nat \X Nat, NEW y \in Nat \X Nat, NEW z \in Nat \X Nat
  PROVE  /\ ~Before(x, x)
         /\ Before(x, y) /\ Before(y, z) => Before(x, z)
         /\ Before(x, y) => ~Before(y, x)
<1>1. /\ x[1] \in Nat /\ x[2] \in Nat /\ y[1] \in Nat /\ y[2] \in Nat
      /\ z[1] \in Nat /\ z[2] \in Nat
  OBVIOUS
<1> QED BY <1>1 DEF Before

LEMMA JobParts ==
  ASSUME JobsInv, NEW k \in JobKind
  PROVE  /\ attempt[k] \in [AttemptOf[k] -> Attempt] /\ status[k] \in JobRow
         /\ AttemptsStarted(attempt[k], AttemptOf[k])
         /\ RowIsFollowed(status[k], attempt[k], AttemptOf[k])
         /\ AttemptOf[k] \subseteq Nat
         /\ \A a \in AttemptOf[k] : /\ attempt[k][a] \in Attempt /\ attempt[k][a].started \in Nat
                                    /\ attempt[k][a].at \in Nat /\ attempt[k][a].outcome \in Outcomes
                                    /\ <<attempt[k][a].started, a>> \in Nat \X Nat
<1>1. attempt[k] \in [AttemptOf[k] -> Attempt] /\ status[k] \in JobRow
      /\ AttemptsStarted(attempt[k], AttemptOf[k])
      /\ RowIsFollowed(status[k], attempt[k], AttemptOf[k])
  BY DEF JobsInv, JobIsFollowed
<1>2. AttemptOf[k] \subseteq Nat BY AttemptAssumption
<1>3. ASSUME NEW a \in AttemptOf[k]
      PROVE  /\ attempt[k][a] \in Attempt /\ attempt[k][a].started \in Nat
             /\ attempt[k][a].at \in Nat /\ attempt[k][a].outcome \in Outcomes
             /\ <<attempt[k][a].started, a>> \in Nat \X Nat
  BY <1>1, <1>2 DEF Attempt
<1> QED BY <1>1, <1>2, <1>3

\* An attempt that is not recorded changes nothing its row shows.
LEMMA UnrecordedStep ==
  ASSUME NEW as, NEW xs \in [as -> Attempt], NEW a \in as, NEW x \in Attempt, NEW row,
         xs[a].pc # "recorded", x.pc # "recorded", RowIsFollowed(row, xs, as)
  PROVE  RowIsFollowed(row, [xs EXCEPT ![a] = x], as)
<1> DEFINE ys == [xs EXCEPT ![a] = x]
<1>1. ys[a] = x /\ \A b \in as : b # a => ys[b] = xs[b] OBVIOUS
<1> HIDE DEF ys
<1>2. \A b \in as : ys[b].pc = "recorded" => ys[b] = xs[b] BY <1>1
<1>3. \A b \in as : xs[b].pc = "recorded" => ys[b] = xs[b] BY <1>1
<1>4. \A b \in as : ys[b].pc = "recorded" => ~Before(row.key, <<ys[b].started, b>>)
  BY <1>2 DEF RowIsFollowed
<1>5. row # NoStatus => \E b \in as : ShownBy(row, ys[b], b)
  BY <1>3 DEF RowIsFollowed, ShownBy
<1>6. row.success # 0 => \E b \in as : /\ ys[b].pc = "recorded" /\ ys[b].outcome = "success"
                                       /\ ys[b].at = row.success
  BY <1>3 DEF RowIsFollowed
<1>7. RowIsFollowed(row, ys, as) BY <1>4, <1>5, <1>6 DEF RowIsFollowed
<1> QED BY <1>7 DEF ys

\* The jobs and rows when the attempt a of k becomes x and the row of k becomes row.
WithAttempt(k, a, x) == [attempt EXCEPT ![k] = [attempt[k] EXCEPT ![a] = x]]
WithRow(k, row)      == [status EXCEPT ![k] = row]

LEMMA JobStep ==
  ASSUME JobsInv, NEW k \in JobKind, NEW a \in AttemptOf[k], NEW x \in Attempt, NEW row \in JobRow,
         attempt' = WithAttempt(k, a, x), status' = WithRow(k, row),
         UNCHANGED <<jobTime, probe>>,
         x.pc \in {"running", "ended", "recorded"} => x.started > 0,
         RowIsFollowed(row, [attempt[k] EXCEPT ![a] = x], AttemptOf[k])
  PROVE  JobsInv'
<1> DEFINE xs == [attempt[k] EXCEPT ![a] = x]
<1>1. /\ attempt = [j \in JobKind |-> attempt[j]] /\ status = [j \in JobKind |-> status[j]]
      /\ attempt[k] \in [AttemptOf[k] -> Attempt]
  BY JobParts DEF JobsInv
<1>2. xs \in [AttemptOf[k] -> Attempt] /\ AttemptsStarted(xs, AttemptOf[k])
  BY <1>1, JobParts DEF AttemptsStarted
<1>3. JobIsFollowed(k, xs, row) BY <1>2 DEF JobIsFollowed
<1> HIDE DEF xs
<1>4. attempt' = [attempt EXCEPT ![k] = xs] /\ status' = [status EXCEPT ![k] = row]
  BY DEF WithAttempt, WithRow, xs
<1>5. attempt' = [j \in JobKind |-> IF j = k THEN xs ELSE attempt[j]] BY <1>1, <1>4
<1>6. status' = [j \in JobKind |-> IF j = k THEN row ELSE status[j]] BY <1>1, <1>4
<1>7. \A j \in JobKind : JobIsFollowed(j, attempt'[j], status'[j])
  BY <1>3, <1>5, <1>6 DEF JobsInv
<1>8. attempt' = [j \in JobKind |-> attempt'[j]] /\ status' = [j \in JobKind |-> status'[j]]
  BY <1>5, <1>6
<1>9. (\A j \in JobKind : JobIsFollowed(j, attempt[j], status[j]))'
  BY <1>7 DEF JobIsFollowed, AttemptsStarted, RowIsFollowed, ShownBy, Before, NoStatus, Attempt, JobRow, Outcomes
<1> QED BY <1>8, <1>9 DEF JobsInv, HealthAsk

LEMMA JobsInitially == JobInit => JobsInv
<1> SUFFICES ASSUME JobInit PROVE JobsInv OBVIOUS
<1> USE DEF JobInit
<1>1. NotStarted \in Attempt /\ NotStarted.pc = "waiting" BY DEF NotStarted, Attempt, Outcomes
<1>2. NoStatus \in JobRow /\ NoStatus.success = 0 BY DEF NoStatus, JobRow, Outcomes
<1>3. NoProbe \in HealthAsk /\ NoProbe.pc = "idle" BY DEF NoProbe, HealthAsk
<1>4. ASSUME NEW k \in JobKind PROVE JobIsFollowed(k, attempt[k], status[k])
  <2>1. attempt[k] = [a \in AttemptOf[k] |-> NotStarted] /\ status[k] = NoStatus OBVIOUS
  <2>2. \A a \in AttemptOf[k] : attempt[k][a] = NotStarted BY <2>1
  <2> QED BY <1>1, <1>2, <2>1, <2>2 DEF JobIsFollowed, AttemptsStarted, RowIsFollowed
<1> QED BY <1>3, <1>4 DEF JobsInv

(* Each action keeps the invariant *)

\* A step of one attempt before it is recorded.
LEMMA AttemptStep ==
  ASSUME JobsInv, NEW k \in JobKind, NEW a \in AttemptOf[k], NEW x \in Attempt,
         attempt' = WithAttempt(k, a, x), UNCHANGED <<jobTime, status, probe>>,
         attempt[k][a].pc # "recorded", x.pc # "recorded",
         x.pc \in {"running", "ended"} => x.started > 0
  PROVE  JobsInv'
<1>1. RowIsFollowed(status[k], [attempt[k] EXCEPT ![a] = x], AttemptOf[k])
  BY JobParts, UnrecordedStep
<1>2. status' = WithRow(k, status[k]) BY DEF WithRow, JobsInv
<1> QED BY <1>1, <1>2, JobParts, JobStep

LEMMA StartAttemptKeeps ==
  ASSUME JobsInv, NEW k \in JobKind, NEW a \in AttemptOf[k], StartAttempt(k, a)
  PROVE  JobsInv' /\ UNCHANGED <<status, probe>>
<1> DEFINE old == attempt[k][a]
           x   == [old EXCEPT !.pc = "running", !.started = jobTime]
<1>1. old \in Attempt /\ old.pc = "waiting" /\ jobTime \in Nat /\ jobTime > 0
  BY JobParts DEF StartAttempt, JobsInv
<1>2. x \in Attempt /\ x.pc = "running" /\ x.started = jobTime BY <1>1 DEF Attempt
<1>3. /\ attempt' = [attempt EXCEPT ![k][a].pc = "running", ![k][a].started = jobTime]
      /\ UNCHANGED <<jobTime, status, probe>>
  BY DEF StartAttempt
<1>4. DOMAIN attempt = JobKind /\ DOMAIN attempt[k] = AttemptOf[k] BY JobParts DEF JobsInv
<1>5. attempt' = WithAttempt(k, a, x) BY <1>3, <1>4 DEF WithAttempt
<1> HIDE DEF x
<1> QED BY <1>1, <1>2, <1>3, <1>5, AttemptStep

LEMMA EndAttemptKeeps ==
  ASSUME JobsInv, NEW k \in JobKind, NEW a \in AttemptOf[k], EndAttempt(k, a)
  PROVE  JobsInv' /\ UNCHANGED <<status, probe>>
<1> DEFINE old  == attempt[k][a]
           x(o) == [old EXCEPT !.pc = "ended", !.outcome = o, !.at = jobTime]
<1>1. old \in Attempt /\ old.pc = "running" /\ jobTime \in Nat /\ old.started > 0
  BY JobParts DEF EndAttempt, JobsInv, AttemptsStarted
<1>2. PICK o \in Outcomes :
        attempt' = [attempt EXCEPT ![k][a].pc = "ended", ![k][a].outcome = o, ![k][a].at = jobTime]
  BY DEF EndAttempt
<1>3. UNCHANGED <<jobTime, status, probe>> BY DEF EndAttempt
<1>4. x(o) \in Attempt /\ x(o).pc = "ended" /\ x(o).started > 0 BY <1>1 DEF Attempt
<1>5. attempt' = WithAttempt(k, a, x(o))
  <2>1. DOMAIN attempt = JobKind /\ DOMAIN attempt[k] = AttemptOf[k] BY JobParts DEF JobsInv
  <2> QED BY <1>2, <2>1 DEF WithAttempt
<1> HIDE DEF x
<1> QED BY <1>1, <1>3, <1>4, <1>5, AttemptStep

LEMMA RecordLostKeeps ==
  ASSUME JobsInv, NEW k \in JobKind, NEW a \in AttemptOf[k], RecordLost(k, a)
  PROVE  JobsInv' /\ UNCHANGED <<status, probe>>
<1> DEFINE x == [NotStarted EXCEPT !.pc = "lost"]
<1>1. attempt[k][a].pc # "recorded" /\ UNCHANGED <<jobTime, status, probe>>
  BY DEF RecordLost
<1>2. x \in Attempt /\ x.pc = "lost" BY DEF NotStarted, Attempt, Outcomes
<1>3. attempt' = WithAttempt(k, a, x) BY DEF RecordLost, WithAttempt
<1> HIDE DEF x
<1> QED BY <1>1, <1>2, <1>3, AttemptStep

\* The row of the attempt that is recorded, and that of the one that is not shown.
Written(row, x, a) == [key |-> <<x.started, a>>, outcome |-> x.outcome, observed |-> x.at,
                       success |-> SuccessAfter(row, x)]

LEMMA RecordJobStatusKeeps ==
  ASSUME JobsInv, NEW k \in JobKind, NEW a \in AttemptOf[k], RecordJobStatus(k, a)
  PROVE  /\ JobsInv' /\ UNCHANGED probe
         /\ \A j \in JobKind : status'[j].success >= status[j].success
<1> DEFINE old == attempt[k][a]
           x   == [old EXCEPT !.pc = "recorded"]
           xs  == [attempt[k] EXCEPT ![a] = x]
           row == status[k]
           key == <<old.started, a>>
           as  == AttemptOf[k]
<1>1. /\ old \in Attempt /\ old.pc = "ended" /\ old.started > 0 /\ key \in Nat \X Nat
      /\ old.at \in Nat /\ old.outcome \in Outcomes
      /\ row \in JobRow /\ row.key \in Nat \X Nat /\ row.success \in Nat
      /\ attempt[k] \in [as -> Attempt] /\ AttemptsStarted(attempt[k], as)
      /\ RowIsFollowed(row, attempt[k], as)
  BY JobParts DEF RecordJobStatus, AttemptsStarted, JobRow
<1>2. /\ x \in Attempt /\ x.pc = "recorded" /\ x.started = old.started
      /\ x.outcome = old.outcome /\ x.at = old.at
  BY <1>1 DEF Attempt
<1>3. attempt' = WithAttempt(k, a, x) /\ UNCHANGED <<jobTime, probe>>
  BY DEF RecordJobStatus, WithAttempt
<1>4. /\ xs[a] = x /\ \A b \in as : b # a => xs[b] = attempt[k][b]
      /\ \A b \in as : <<xs[b].started, b>> \in Nat \X Nat
  BY <1>1, <1>2, JobParts
<1> HIDE DEF x, xs
<1>5. CASE Before(row.key, key)
  <2> DEFINE new == Written(row, old, a)
  <2>1. status' = WithRow(k, new) BY <1>5 DEF RecordJobStatus, Replaces, Key, WithRow, Written
  <2>2. /\ SuccessAfter(row, old) \in Nat /\ SuccessAfter(row, old) >= row.success
        /\ \/ SuccessAfter(row, old) = row.success
           \/ SuccessAfter(row, old) = old.at /\ old.outcome = "success"
    BY <1>1 DEF SuccessAfter
  <2>3. new \in JobRow BY <1>1, <2>2 DEF Written, JobRow
  <2>4. /\ new.key = key /\ new.outcome = old.outcome /\ new.observed = old.at
        /\ new.success = SuccessAfter(row, old)
    BY DEF Written
  <2> HIDE DEF new
  <2>5. ASSUME NEW b \in as, xs[b].pc = "recorded" PROVE ~Before(new.key, <<xs[b].started, b>>)
    <3>1. CASE b = a BY <1>1, <1>2, <1>4, <2>4, <3>1, KeysAreOrdered
    <3>2. CASE b # a
      <4>1. ~Before(row.key, <<xs[b].started, b>>) BY <1>1, <1>4, <2>5, <3>2 DEF RowIsFollowed
      <4> QED BY <1>1, <1>4, <1>5, <2>4, <4>1, KeysAreOrdered
    <3> QED BY <3>1, <3>2
  <2>6. ShownBy(new, xs[a], a) BY <1>2, <1>4, <2>4 DEF ShownBy
  <2>7. new.success # 0 => \E b \in as : /\ xs[b].pc = "recorded" /\ xs[b].outcome = "success"
                                         /\ xs[b].at = new.success
    <3>1. CASE new.success = row.success
      <4>1. row.success # 0 => \E b \in as : /\ attempt[k][b].pc = "recorded"
                                             /\ attempt[k][b].outcome = "success"
                                             /\ attempt[k][b].at = row.success
        BY <1>1 DEF RowIsFollowed
      <4> QED BY <1>1, <1>4, <3>1, <4>1
    <3>2. CASE new.success = old.at /\ old.outcome = "success" BY <1>2, <1>4, <3>2
    <3> QED BY <2>2, <2>4, <3>1, <3>2
  <2>8. RowIsFollowed(new, xs, as) BY <2>5, <2>6, <2>7 DEF RowIsFollowed
  <2>9. JobsInv' BY <1>1, <1>2, <1>3, <2>1, <2>3, <2>8, JobStep DEF xs
  <2>10. ASSUME NEW j \in JobKind PROVE status'[j].success >= status[j].success
    <3>1. CASE j = k BY <1>1, <2>1, <2>2, <2>4, <3>1 DEF WithRow, JobsInv
    <3>2. CASE j # k
      <4>1. status'[j] = status[j] BY <2>1, <3>2 DEF WithRow, JobsInv
      <4> QED BY <4>1, JobParts DEF JobRow
    <3> QED BY <3>1, <3>2
  <2> QED BY <1>3, <2>9, <2>10
<1>6. CASE ~Before(row.key, key)
  <2>1. status' = status BY <1>6 DEF RecordJobStatus, Replaces, Key
  <2>2. status' = WithRow(k, row) BY <2>1 DEF WithRow, JobsInv
  <2>3. ASSUME NEW b \in as, xs[b].pc = "recorded" PROVE ~Before(row.key, <<xs[b].started, b>>)
    <3>1. CASE b = a BY <1>2, <1>4, <1>6, <3>1
    <3>2. CASE b # a BY <1>1, <1>4, <2>3, <3>2 DEF RowIsFollowed
    <3> QED BY <3>1, <3>2
  <2>4. \A b \in as : attempt[k][b].pc = "recorded" => xs[b] = attempt[k][b] BY <1>1, <1>4
  <2>5. row # NoStatus => \E b \in as : ShownBy(row, xs[b], b)
    BY <1>1, <2>4 DEF RowIsFollowed, ShownBy
  <2>6. row.success # 0 => \E b \in as : /\ xs[b].pc = "recorded" /\ xs[b].outcome = "success"
                                         /\ xs[b].at = row.success
    BY <1>1, <2>4 DEF RowIsFollowed
  <2>7. RowIsFollowed(row, xs, as) BY <2>3, <2>5, <2>6 DEF RowIsFollowed
  <2>8. JobsInv' BY <1>1, <1>2, <1>3, <2>2, <2>7, JobStep DEF xs
  <2>9. \A j \in JobKind : status'[j].success >= status[j].success
    BY <2>1, JobParts DEF JobRow
  <2> QED BY <1>3, <2>8, <2>9
<1> QED BY <1>5, <1>6

\* Time and the probes leave attempts and rows alone.
LEMMA ProbeKeeps ==
  ASSUME JobsInv, UNCHANGED <<attempt, status>>, jobTime' \in Nat, jobTime' > 0,
         probe' \in HealthAsk, probe'.pc = "asked" => probe'.answer # "ok"
  PROVE  JobsInv'
<1>1. (\A k \in JobKind : JobIsFollowed(k, attempt[k], status[k]))'
  BY DEF JobsInv, JobIsFollowed, AttemptsStarted, RowIsFollowed, ShownBy, Before, NoStatus,
         Attempt, JobRow, Outcomes
<1> QED BY <1>1 DEF JobsInv, HealthAsk

LEMMA HealthAnswers ==
  ASSUME NEW now
  PROVE  SchedulerHealth(now) \in {"ok", "unknown", "stale", "failed"}
BY DEF SchedulerHealth

LEMMA AnswerHealthKeeps ==
  ASSUME JobsInv, AnswerHealth
  PROVE  /\ JobsInv' /\ UNCHANGED <<jobTime, attempt, status>>
         /\ probe'.answer = SchedulerHealth(probe.now)
<1> DEFINE h == SchedulerHealth(probe.now)
<1>1. probe \in HealthAsk /\ h \in {"none", "ok", "unknown", "stale", "failed"}
  BY HealthAnswers DEF JobsInv
<1> HIDE DEF h
<1>2. probe' = [probe EXCEPT !.pc = "idle", !.answer = h]
      /\ UNCHANGED <<jobTime, attempt, status>>
  BY DEF AnswerHealth, h
<1>3. probe' \in HealthAsk /\ probe'.pc = "idle" /\ probe'.answer = h
  BY <1>1, <1>2 DEF HealthAsk
<1>4. jobTime' \in Nat /\ jobTime' > 0 BY <1>2 DEF JobsInv
<1> QED BY <1>2, <1>3, <1>4, ProbeKeeps DEF h

LEMMA AskHealthKeeps ==
  ASSUME JobsInv, AskHealth
  PROVE  JobsInv' /\ UNCHANGED status /\ probe.pc = "idle"
<1>1. /\ probe' = [pc |-> "asked", now |-> jobTime, answer |-> "none"]
      /\ UNCHANGED <<jobTime, attempt, status>> /\ probe.pc = "idle"
  BY DEF AskHealth
<1>2. probe' \in HealthAsk /\ probe'.answer = "none" BY <1>1 DEF HealthAsk, JobsInv
<1>3. jobTime' \in Nat /\ jobTime' > 0 BY <1>1 DEF JobsInv
<1> QED BY <1>1, <1>2, <1>3, ProbeKeeps

\* A step keeps the last success, and "ok" is what the scheduler's health was.
HealthStep ==
  /\ \A k \in JobKind : status'[k].success >= status[k].success
  /\ probe.pc = "asked" /\ probe'.answer = "ok" => SchedulerHealth(probe.now) = "ok"

LEMMA JobsStep ==
  ASSUME JobsInv, [JobNext]_jobVars
  PROVE  JobsInv' /\ HealthStep
<1>0. probe.pc = "asked" => probe.answer # "ok" BY DEF JobsInv
<1>1. ASSUME UNCHANGED status
      PROVE  \A k \in JobKind : status'[k].success >= status[k].success
  BY <1>1, JobParts DEF JobRow
<1>2. CASE JobTimePasses
  <2>1. jobTime' \in Nat /\ jobTime' > 0 /\ UNCHANGED <<attempt, status, probe>>
    BY <1>2 DEF JobTimePasses, JobsInv
  <2> QED BY <1>0, <1>1, <2>1, ProbeKeeps DEF HealthStep, JobsInv
<1>3. CASE AskHealth BY <1>1, <1>3, AskHealthKeeps DEF HealthStep
<1>4. CASE AnswerHealth BY <1>1, <1>4, AnswerHealthKeeps DEF HealthStep
<1>5. ASSUME NEW k \in JobKind, NEW a \in AttemptOf[k],
             StartAttempt(k, a) \/ EndAttempt(k, a) \/ RecordLost(k, a)
      PROVE  JobsInv' /\ HealthStep
  <2>1. JobsInv' /\ UNCHANGED <<status, probe>>
    BY <1>5, StartAttemptKeeps, EndAttemptKeeps, RecordLostKeeps
  <2> QED BY <1>0, <1>1, <2>1 DEF HealthStep
<1>6. ASSUME NEW k \in JobKind, NEW a \in AttemptOf[k], RecordJobStatus(k, a)
      PROVE  JobsInv' /\ HealthStep
  BY <1>0, <1>6, RecordJobStatusKeeps DEF HealthStep
<1>7. CASE UNCHANGED jobVars
  <2>1. UNCHANGED <<jobTime, attempt, status, probe>> BY <1>7 DEF jobVars
  <2>2. jobTime' \in Nat /\ jobTime' > 0 /\ probe' \in HealthAsk BY <2>1 DEF JobsInv
  <2> QED BY <1>0, <1>1, <2>1, <2>2, ProbeKeeps DEF HealthStep
<1> QED BY <1>2, <1>3, <1>4, <1>5, <1>6, <1>7 DEF JobNext

(* The theorem *)

\* A job whose row is shown as fine ended well by the attempt of the row, within the
\* window, and no recorded attempt was started after it.
Earned(k, now) ==
  \E a \in Recorded(k) :
    /\ attempt[k][a].outcome \in Fine
    /\ attempt[k][a].at <= now /\ now <= attempt[k][a].at + Missed
    /\ \A b \in Recorded(k) : ~Before(Key(k, a), Key(k, b))

LEMMA OkIsEarned ==
  ASSUME JobsInv, NEW now \in Nat, SchedulerHealth(now) = "ok", NEW k \in JobKind
  PROVE  Earned(k, now)
<1>1. /\ status[k] # NoStatus /\ ~(status[k].observed > now) /\ ~(now > status[k].observed + Missed)
      /\ status[k].outcome # "failed" /\ status[k].outcome # "superseded"
  BY DEF SchedulerHealth, Stale
<1>2. status[k].outcome \in Fine BY <1>1, JobParts DEF JobRow, Outcomes, Fine
<1>3. PICK a \in AttemptOf[k] : ShownBy(status[k], attempt[k][a], a)
  BY <1>1, JobParts DEF RowIsFollowed
<1>4. /\ a \in Recorded(k) /\ status[k].key = Key(k, a) /\ status[k].outcome = attempt[k][a].outcome
      /\ status[k].observed = attempt[k][a].at /\ attempt[k][a].at \in Nat
  BY <1>3, JobParts DEF ShownBy, Recorded, Key
<1>5. \A b \in Recorded(k) : ~Before(Key(k, a), Key(k, b))
  BY <1>4, JobParts DEF RowIsFollowed, Recorded, Key
<1>6. attempt[k][a].at <= now /\ now <= attempt[k][a].at + Missed
  BY <1>1, <1>4, AttemptAssumption
<1> QED BY <1>2, <1>4, <1>5, <1>6 DEF Earned

LEMMA RowsAreLatest ==
  ASSUME JobsInv, NEW k \in JobKind
  PROVE  RowIsLatestAttempt(k)
<1>1. \A a \in Recorded(k) : ~Before(status[k].key, Key(k, a))
  BY JobParts DEF RowIsFollowed, Recorded, Key
<1>2. ASSUME status[k] # NoStatus
      PROVE  \E a \in Recorded(k) : /\ status[k].key = Key(k, a)
                                    /\ status[k].outcome = attempt[k][a].outcome
  BY <1>2, JobParts DEF RowIsFollowed, ShownBy, Recorded, Key
<1>3. ASSUME status[k].success # 0
      PROVE  \E a \in Recorded(k) : /\ attempt[k][a].outcome = "success"
                                    /\ attempt[k][a].at = status[k].success
  <2>1. PICK a \in AttemptOf[k] : /\ attempt[k][a].pc = "recorded"
                                  /\ attempt[k][a].outcome = "success"
                                  /\ attempt[k][a].at = status[k].success
    BY <1>3, JobParts DEF RowIsFollowed
  <2> QED BY <2>1 DEF Recorded
<1> QED BY <1>1, <1>2, <1>3 DEF RowIsLatestAttempt

LEMMA ProbesAlwaysAgree == JobsInv => ProbesAgree
<1> SUFFICES ASSUME JobsInv, NEW now \in 1..jobTime
             PROVE  SchedulerHealth(now) = "ok" <=> \A k \in JobKind : JobHealth(k, now) = "ok"
  BY DEF ProbesAgree
<1> DEFINE Unseen(k) == status[k] = NoStatus \/ status[k].observed > now \/ status[k].success > now
           Old(k)    == now > status[k].observed + Missed
<1>1. \A k \in JobKind : status[k].outcome \in Outcomes /\ status[k].outcome # "ok"
  BY JobParts DEF JobRow, Outcomes
<1>2. SchedulerHealth(now) = "ok" <=>
        \A k \in JobKind : ~Unseen(k) /\ ~Old(k) /\ status[k].outcome \in Fine
  BY <1>1 DEF SchedulerHealth, Stale, Fine, Outcomes
<1>3. \A k \in JobKind :
        JobHealth(k, now) = "ok" <=> ~Unseen(k) /\ ~Old(k) /\ status[k].outcome \in Fine
  BY <1>1 DEF JobHealth, Fine
<1> QED BY <1>2, <1>3

\* Whatever jobs, attempts and windows there are, and in whatever order attempts end and
\* record: each row is that of its latest recorded attempt and keeps its last success,
\* "ok" is said only on attempts that ended well within the window, and the probes agree.
THEOREM StatusIsAlwaysEarned == JobSpec => StatusIsEarned
<1>1. JobInit => JobsInv BY JobsInitially
<1>2. JobsInv /\ [JobNext]_jobVars => JobsInv' BY JobsStep
<1>3. JobsInv => ProbesAgree /\ \A k \in JobKind : RowIsLatestAttempt(k)
  BY RowsAreLatest, ProbesAlwaysAgree
<1>4. JobsInv /\ [JobNext]_jobVars =>
        [/\ \A k \in JobKind : status'[k].success >= status[k].success
         /\ probe.pc = "asked" /\ probe'.answer = "ok" =>
              \A k \in JobKind :
                \E a \in Recorded(k) :
                  /\ attempt[k][a].outcome \in Fine
                  /\ attempt[k][a].at <= probe.now /\ probe.now <= attempt[k][a].at + Missed
                  /\ \A b \in Recorded(k) : ~Before(Key(k, a), Key(k, b))]_jobVars
  <2> SUFFICES ASSUME JobsInv, [JobNext]_jobVars
               PROVE  /\ \A k \in JobKind : status'[k].success >= status[k].success
                      /\ probe.pc = "asked" /\ probe'.answer = "ok" =>
                           \A k \in JobKind : Earned(k, probe.now)
    BY DEF Earned
  <2>1. probe.now \in Nat BY DEF JobsInv, HealthAsk
  <2> QED BY <2>1, JobsStep, OkIsEarned DEF HealthStep
<1> QED BY <1>1, <1>2, <1>3, <1>4, PTL DEF JobSpec, StatusIsEarned, HealthIsEarned

-----------------------------------------------------------------------------
(***************************************************************************)
(* MessageBoard: the board and one member's page.  Every entry is later    *)
(* than all before it, so what is unread and which thread is newest follow *)
(* from the times; a draft has one key for as long as it is retained; and  *)
(* only the newest read can have the last word on the page.                *)
(***************************************************************************)

(* The inductive invariant *)

Keys      == Nat \X Nat
BoardRows == [activity : [Thread -> Nat], read : [Viewer -> Nat], posted : SUBSET Keys]
PageState == [draft : Nat, frozen : Keys \cup {NoKey}, flight : Keys \cup {NoKey},
              keys : SUBSET Keys, acked : SUBSET Keys, shown : SUBSET Keys, broken : BOOLEAN]
Reading   == [at : {"asked", "read", "done"}, posts : SUBSET Keys]

\* The times a of the threads, the watermarks r, who has news, and the threads' order.
Latest(a)       == \E t \in Thread : \A s \in Thread : a[s] <= a[t]
Unread(a, r, u) == \E t \in Thread : a[t] > r[u]

RowsAreTrue(a, r, n, o) ==
  /\ a \in [Thread -> Nat] /\ r \in [Viewer -> Nat]
  /\ \A u \in Viewer : Unread(a, r, u) <=> u \in n
  /\ o \subseteq Thread \X Thread
  /\ Latest(a)
  /\ \A u \in Viewer : \E t \in Thread : r[u] <= a[t]
  /\ \A p \in o : a[p[1]] < a[p[2]]

\* A draft has at most one key, the retained one if there is one; what was sent and
\* posted has one of these.
DraftsHaveOneKey(p, sent, posted) ==
  /\ sent \subseteq p.keys /\ posted \subseteq p.keys
  /\ \A j, k \in p.keys : j[1] = k[1] => j = k
  /\ \A k \in p.keys : k[1] <= p.draft
  /\ IF p.frozen = NoKey THEN \A k \in p.keys : k[1] # p.draft
     ELSE p.frozen \in p.keys /\ p.frozen[1] = p.draft

\* The newest read of the page will show what the page was told of.
LastLoadShows(p, l, posted) ==
  /\ l \in Seq(Reading) /\ Len(l) > 0
  /\ p.acked \subseteq posted
  /\ l[Len(l)].at = "read" => p.acked \subseteq l[Len(l)].posts
  /\ l[Len(l)].at = "done" => p.broken \/ p.acked \subseteq p.shown

BoardInv ==
  /\ board \in BoardRows /\ page \in PageState
  /\ RowsAreTrue(board.activity, board.read, news, order)
  /\ DraftsHaveOneKey(page, net, board.posted)
  /\ LastLoadShows(page, loads, board.posted)

-----------------------------------------------------------------------------
(* Lemmas: the rows *)

LEMMA NewestIs ==
  ASSUME RowsAreTrue(board.activity, board.read, news, order)
  PROVE  /\ Newest \in Nat /\ \A t \in Thread : board.activity[t] <= Newest
         /\ \E t \in Thread : board.activity[t] = Newest
         /\ Posts = {} => Newest = 0
<1> DEFINE S == {board.activity[t] : t \in Thread}
<1>1. \E x \in S : \A t \in Thread : board.activity[t] <= x BY DEF RowsAreTrue, Latest
<1>2. Newest \in S /\ \A t \in Thread : board.activity[t] <= Newest BY <1>1 DEF Newest
<1>3. \A x \in S : x \in Nat BY DEF RowsAreTrue
<1> QED BY <1>2, <1>3 DEF Posts, Never

\* An entry is later than every other, and its author has read it.
LEMMA EntryIsLatest ==
  ASSUME RowsAreTrue(board.activity, board.read, news, order), NEW now \in 1..MaxNow
  PROVE  /\ nextMessageBoardActivityAt(now) \in Nat
         /\ \A t \in Thread : board.activity[t] < nextMessageBoardActivityAt(now)
<1>1. now \in Nat /\ now > 0 BY BoardAssumption
<1>2. \A t \in Thread : board.activity[t] \in Nat BY DEF RowsAreTrue
<1> QED BY <1>1, <1>2, NewestIs DEF nextMessageBoardActivityAt, Later

LEMMA WritingKeepsRows ==
  ASSUME NEW a, NEW r, NEW n, NEW o, RowsAreTrue(a, r, n, o),
         NEW u \in Viewer, NEW t \in Thread, NEW when \in Nat, \A s \in Thread : a[s] < when,
         NEW before, before \subseteq Thread
  PROVE  RowsAreTrue([a EXCEPT ![t] = when], [r EXCEPT ![u] = Later(r[u], when)],
                     Viewer \ {u}, {p \in o : p[1] # t} \cup (before \ {t}) \X {t})
<1> DEFINE aa == [a EXCEPT ![t] = when]
           rr == [r EXCEPT ![u] = Later(r[u], when)]
           nn == Viewer \ {u}
           oo == {p \in o : p[1] # t} \cup (before \ {t}) \X {t}
<1>1. a \in [Thread -> Nat] /\ r \in [Viewer -> Nat] /\ o \subseteq Thread \X Thread
  BY DEF RowsAreTrue
<1>2. \A v \in Viewer : r[v] \in Nat /\ r[v] < when
  <2> SUFFICES ASSUME NEW v \in Viewer PROVE r[v] \in Nat /\ r[v] < when OBVIOUS
  <2>1. PICK s \in Thread : r[v] <= a[s] BY DEF RowsAreTrue
  <2> QED BY <1>1, <2>1
<1>3. Later(r[u], when) = when BY <1>2 DEF Later
<1>4. /\ aa \in [Thread -> Nat] /\ aa[t] = when
      /\ \A s \in Thread : s # t => aa[s] = a[s] /\ aa[s] < when
  BY <1>1
<1>5. /\ rr \in [Viewer -> Nat] /\ rr[u] = when
      /\ \A v \in Viewer : v # u => rr[v] = r[v] /\ rr[v] < when
  BY <1>1, <1>2, <1>3
<1>6. oo \subseteq Thread \X Thread BY <1>1
<1>7. ASSUME NEW p \in oo PROVE aa[p[1]] < aa[p[2]]
  <2>1. CASE p \in o /\ p[1] # t
    <3>1. p[1] \in Thread /\ p[2] \in Thread /\ a[p[1]] < a[p[2]] BY <1>1, <2>1 DEF RowsAreTrue
    <3>2. CASE p[2] = t BY <1>4, <2>1, <3>1, <3>2
    <3>3. CASE p[2] # t BY <1>4, <2>1, <3>1, <3>3
    <3> QED BY <3>2, <3>3
  <2>2. CASE p \in (before \ {t}) \X {t}
    <3>1. p[1] \in Thread /\ p[1] # t /\ p[2] = t BY <2>2
    <3> QED BY <1>4, <3>1
  <2> QED BY <2>1, <2>2
<1> HIDE DEF aa, rr, oo
<1>8. Latest(aa) BY <1>4 DEF Latest
<1>9. \A v \in Viewer : \E s \in Thread : rr[v] <= aa[s] BY <1>4, <1>5
<1>10. \A v \in Viewer : Unread(aa, rr, v) <=> v # u
  <2>1. ~Unread(aa, rr, u)
    <3>1. \A s \in Thread : ~(aa[s] > when) BY <1>4
    <3> QED BY <1>5, <3>1 DEF Unread
  <2>2. \A v \in Viewer : v # u => Unread(aa, rr, v) BY <1>4, <1>5 DEF Unread
  <2> QED BY <2>1, <2>2
<1>11. \A v \in Viewer : Unread(aa, rr, v) <=> v \in nn BY <1>10
<1> HIDE DEF nn
<1>12. RowsAreTrue(aa, rr, nn, oo) BY <1>4, <1>5, <1>6, <1>7, <1>8, <1>9, <1>11 DEF RowsAreTrue
<1> QED BY <1>12 DEF aa, rr, nn, oo

LEMMA ReadingKeepsRows ==
  ASSUME NEW a, NEW r, NEW n, NEW o, RowsAreTrue(a, r, n, o),
         NEW u \in Viewer, NEW when \in Nat,
         \A s \in Thread : a[s] <= when, \E s \in Thread : a[s] = when
  PROVE  RowsAreTrue(a, [r EXCEPT ![u] = Later(r[u], when)], n \ {u}, o)
<1> DEFINE rr == [r EXCEPT ![u] = Later(r[u], when)]
           nn == n \ {u}
<1>1. /\ a \in [Thread -> Nat] /\ r \in [Viewer -> Nat]
      /\ \A v \in Viewer : Unread(a, r, v) <=> v \in n
  BY DEF RowsAreTrue
<1>2. r[u] \in Nat /\ r[u] <= when
  <2>1. PICK s \in Thread : r[u] <= a[s] BY DEF RowsAreTrue
  <2> QED BY <1>1, <2>1
<1>3. Later(r[u], when) = when BY <1>2 DEF Later
<1>4. /\ rr \in [Viewer -> Nat] /\ rr[u] = when /\ \A v \in Viewer : v # u => rr[v] = r[v]
  BY <1>1, <1>3
<1> HIDE DEF rr
<1>5. ~Unread(a, rr, u)
  <2>1. \A s \in Thread : a[s] \in Nat /\ ~(a[s] > when) BY <1>1
  <2> QED BY <1>4, <2>1 DEF Unread
<1>6. \A v \in Viewer : v # u => (Unread(a, rr, v) <=> Unread(a, r, v)) BY <1>4 DEF Unread
<1>9. \A v \in Viewer : Unread(a, rr, v) <=> v \in nn BY <1>1, <1>5, <1>6
<1>10. \A v \in Viewer : \E s \in Thread : rr[v] <= a[s]
  <2> SUFFICES ASSUME NEW v \in Viewer PROVE \E s \in Thread : rr[v] <= a[s] OBVIOUS
  <2>1. CASE v = u
    <3>1. PICK s \in Thread : a[s] = when OBVIOUS
    <3> QED BY <1>4, <2>1, <3>1
  <2>2. CASE v # u BY <1>4, <2>2 DEF RowsAreTrue
  <2> QED BY <2>1, <2>2
<1> HIDE DEF nn
<1>11. RowsAreTrue(a, rr, nn, o) BY <1>4, <1>9, <1>10 DEF RowsAreTrue
<1> QED BY <1>11 DEF rr, nn

LEMMA NewestIsRead ==
  ASSUME BoardInv, NEW u \in Viewer,
         board' = [board EXCEPT !.read = advanceMessageBoardRead(u, Newest)],
         news' = news \ {u}, order' = order
  PROVE  /\ board' \in BoardRows /\ board'.posted = board.posted
         /\ RowsAreTrue(board'.activity, board'.read, news', order')
<1> DEFINE rr == [board.read EXCEPT ![u] = Later(board.read[u], Newest)]
<1>1. RowsAreTrue(board.activity, rr, news \ {u}, order)
  BY NewestIs, ReadingKeepsRows DEF BoardInv
<1>2. board' = [board EXCEPT !.read = rr] BY DEF advanceMessageBoardRead
<1>3. rr \in [Viewer -> Nat] BY <1>1 DEF RowsAreTrue
<1> HIDE DEF rr
<1>4. /\ board' \in BoardRows /\ board'.activity = board.activity
      /\ board'.read = rr /\ board'.posted = board.posted
  BY <1>2, <1>3 DEF BoardInv, BoardRows
<1> QED BY <1>1, <1>4

WithEntry(u, t, when, posted) ==
  [board EXCEPT !.activity = Touched(t, when), !.read = advanceMessageBoardRead(u, when),
                !.posted = posted]

LEMMA EntryIsWritten ==
  ASSUME BoardInv, NEW u \in Viewer, NEW t \in Thread, NEW now \in 1..MaxNow,
         NEW when, when = nextMessageBoardActivityAt(now), NEW posted \in SUBSET Keys,
         board' = WithEntry(u, t, when, posted), news' = Viewer \ {u}, order' = LastAdded(t)
  PROVE  /\ board' \in BoardRows /\ board'.posted = posted
         /\ RowsAreTrue(board'.activity, board'.read, news', order')
<1> DEFINE aa == [board.activity EXCEPT ![t] = when]
           rr == [board.read EXCEPT ![u] = Later(board.read[u], when)]
<1>1. when \in Nat /\ \A s \in Thread : board.activity[s] < when BY EntryIsLatest DEF BoardInv
<1>2. Posts \subseteq Thread BY DEF Posts
<1>3. RowsAreTrue(board.activity, board.read, news, order) BY DEF BoardInv
<1>4. RowsAreTrue(aa, rr, Viewer \ {u}, {p \in order : p[1] # t} \cup (Posts \ {t}) \X {t})
  BY <1>1, <1>2, <1>3, WritingKeepsRows
<1>5. order' = {p \in order : p[1] # t} \cup (Posts \ {t}) \X {t} BY DEF LastAdded
<1>6. board' = [board EXCEPT !.activity = aa, !.read = rr, !.posted = posted]
  BY DEF WithEntry, Touched, advanceMessageBoardRead
<1>7. aa \in [Thread -> Nat] /\ rr \in [Viewer -> Nat] BY <1>4 DEF RowsAreTrue
<1> HIDE DEF aa, rr
<1>8. /\ board' \in BoardRows /\ board'.activity = aa
      /\ board'.read = rr /\ board'.posted = posted
  BY <1>6, <1>7 DEF BoardInv, BoardRows
<1> QED BY <1>4, <1>5, <1>8

(* Lemmas: the page *)

\* The key a submission is sent with: the retained one, or the first of its draft.
LEMMA FrozenIs ==
  ASSUME BoardInv
  PROVE  /\ Frozen \in Keys /\ Frozen # NoKey /\ Frozen[1] = page.draft
         /\ \A k \in page.keys : k[1] = page.draft => k = Frozen
<1>1. page \in PageState /\ DraftsHaveOneKey(page, net, board.posted) BY DEF BoardInv
<1>2. CASE page.frozen = NoKey
  <2>1. {k \in page.keys : k[1] = page.draft} = {} BY <1>1, <1>2 DEF DraftsHaveOneKey
  <2>2. Cardinality({k \in page.keys : k[1] = page.draft}) = 0 BY <2>1, FS_EmptySet
  <2>3. Frozen = <<page.draft, 1>> BY <1>2, <2>2 DEF Frozen, FreshKey
  <2>4. page.draft \in Nat BY <1>1 DEF PageState
  <2>5. Frozen \in Keys /\ Frozen[1] = page.draft BY <2>3, <2>4 DEF Keys
  <2>6. NoKey \notin Keys BY BoardAssumption DEF Keys
  <2> QED BY <2>1, <2>5, <2>6
<1>3. CASE page.frozen # NoKey
  <2>1. Frozen = page.frozen /\ page.frozen \in page.keys /\ page.frozen[1] = page.draft
    BY <1>1, <1>3 DEF Frozen, DraftsHaveOneKey
  <2>2. page.keys \subseteq Keys BY <1>1 DEF PageState
  <2> QED BY <1>1, <1>3, <2>1, <2>2 DEF DraftsHaveOneKey
<1> QED BY <1>2, <1>3

LEMMA LoadParts ==
  ASSUME BoardInv
  PROVE  /\ loads \in Seq(Reading) /\ Len(loads) \in Nat /\ Len(loads) \in 1..Len(loads)
         /\ DOMAIN loads = 1..Len(loads) /\ \A g \in 1..Len(loads) : loads[g] \in Reading
<1>1. loads \in Seq(Reading) /\ Len(loads) > 0 BY DEF BoardInv, LastLoadShows
<1>2. Len(loads) \in Nat /\ DOMAIN loads = 1..Len(loads) BY <1>1
<1> QED BY <1>1, <1>2

\* A read that is started has yet to come back.
LEMMA LoadIsAsked ==
  ASSUME BoardInv, NEW p, NEW posted, p.acked \subseteq posted
  PROVE  LastLoadShows(p, Loading, posted)
<1>1. Asked \in Reading BY DEF Asked, Reading
<1>2. loads \in Seq(Reading) /\ Len(loads) \in Nat BY LoadParts
<1>3. /\ Append(loads, Asked) \in Seq(Reading)
      /\ Len(Append(loads, Asked)) = Len(loads) + 1
      /\ Append(loads, Asked)[Len(loads) + 1] = Asked
  BY <1>1, <1>2
<1>4. Len(loads) + 1 > 0 BY <1>2
<1> QED BY <1>3, <1>4 DEF LastLoadShows, Loading, Asked

\* A read g that becomes x leaves a page p behind, which shows what it must if g is the
\* newest.
LoadLeaves(g, x, p) ==
  /\ p.acked = page.acked
  /\ g # Len(loads) => p.shown = page.shown /\ p.broken = page.broken
  /\ g = Len(loads) => /\ x.at = "read" => p.acked \subseteq x.posts
                       /\ x.at = "done" => p.broken \/ p.acked \subseteq p.shown

LEMMA LoadMoves ==
  ASSUME BoardInv, NEW g \in 1..Len(loads), NEW x \in Reading, NEW p, LoadLeaves(g, x, p)
  PROVE  LastLoadShows(p, [loads EXCEPT ![g] = x], board.posted)
<1> DEFINE l == [loads EXCEPT ![g] = x]
<1> SUFFICES LastLoadShows(p, l, board.posted) OBVIOUS
<1>1. loads \in Seq(Reading) /\ Len(loads) \in Nat /\ Len(loads) \in 1..Len(loads) BY LoadParts
<1>2. /\ l \in Seq(Reading) /\ Len(l) = Len(loads)
      /\ l[Len(loads)] = IF g = Len(loads) THEN x ELSE loads[Len(loads)]
  BY <1>1, ExceptSeq
<1> HIDE DEF l
<1>3. Len(loads) > 0 BY <1>1
<1>4. CASE g = Len(loads) BY <1>2, <1>3, <1>4 DEF LastLoadShows, LoadLeaves, BoardInv
<1>5. CASE g # Len(loads) BY <1>2, <1>3, <1>5 DEF LastLoadShows, LoadLeaves, BoardInv
<1> QED BY <1>4, <1>5

\* The rows stay if no entry is added and nobody reads.
LEMMA RowsRest ==
  ASSUME BoardInv, UNCHANGED <<board, news, order>>
  PROVE  /\ board' \in BoardRows /\ board'.posted = board.posted
         /\ RowsAreTrue(board'.activity, board'.read, news', order')
BY DEF BoardInv

(* Each action keeps the invariant *)

\* What the object and the page need of a step that only one of them takes.
LEMMA ObjectStep ==
  ASSUME BoardInv, UNCHANGED <<page, net, loads>>, board' \in BoardRows,
         board'.posted = board.posted, RowsAreTrue(board'.activity, board'.read, news', order')
  PROVE  BoardInv'
BY DEF BoardInv, DraftsHaveOneKey, LastLoadShows

LEMMA PageStep ==
  ASSUME BoardInv, UNCHANGED <<board, news, order>>, page' \in PageState,
         DraftsHaveOneKey(page', net', board.posted), LastLoadShows(page', loads', board.posted)
  PROVE  BoardInv'
<1>1. DraftsHaveOneKey(page', net', board'.posted) /\ LastLoadShows(page', loads', board'.posted)
  OBVIOUS
<1>2. board' \in BoardRows /\ RowsAreTrue(board'.activity, board'.read, news', order')
  BY RowsRest
<1> QED BY <1>1, <1>2 DEF BoardInv

LEMMA PageParts ==
  ASSUME BoardInv
  PROVE  /\ page \in PageState /\ board \in BoardRows /\ board.posted \in SUBSET Keys
         /\ DraftsHaveOneKey(page, net, board.posted)
         /\ LastLoadShows(page, loads, board.posted)
BY DEF BoardInv, BoardRows

LEMMA AnotherWritesKeeps ==
  ASSUME BoardInv, NEW u \in Others, NEW t \in Thread, NEW now \in 1..MaxNow,
         AnotherWrites(u, t, now)
  PROVE  BoardInv'
<1> DEFINE when == nextMessageBoardActivityAt(now)
<1>1. u \in Viewer BY DEF Viewer
<1>2. board' = [board EXCEPT !.activity = Touched(t, when), !.read = advanceMessageBoardRead(u, when)]
  BY DEF AnotherWrites, Entry
<1>3. /\ news' = Viewer \ {u} /\ order' = LastAdded(t) /\ UNCHANGED <<page, net, loads>>
  BY DEF AnotherWrites, Entry
<1>4. board' = WithEntry(u, t, when, board.posted) BY <1>2, PageParts DEF BoardRows, WithEntry
<1> HIDE DEF when
<1>5. /\ board' \in BoardRows /\ board'.posted = board.posted
      /\ RowsAreTrue(board'.activity, board'.read, news', order')
  BY <1>1, <1>3, <1>4, PageParts, EntryIsWritten DEF when
<1> QED BY <1>3, <1>5, ObjectStep

LEMMA AnotherReadsKeeps ==
  ASSUME BoardInv, NEW u \in Others, AnotherReads(u)
  PROVE  BoardInv'
<1>1. u \in Viewer BY DEF Viewer
<1> QED BY <1>1, NewestIsRead, ObjectStep DEF AnotherReads

LEMMA SubmitKeeps ==
  ASSUME BoardInv, Submit
  PROVE  BoardInv'
<1> DEFINE F == Frozen
<1>1. /\ F \in Keys /\ F # NoKey /\ F[1] = page.draft
      /\ \A k \in page.keys : k[1] = page.draft => k = F
  BY FrozenIs
<1>2. /\ page' = [page EXCEPT !.frozen = F, !.flight = F, !.keys = page.keys \cup {F}]
      /\ net' = net \cup {F} /\ UNCHANGED <<board, loads, news, order>>
  BY DEF Submit
<1> HIDE DEF F
<1>3. /\ page' \in PageState /\ page'.frozen = F /\ page'.keys = page.keys \cup {F}
      /\ page'.draft = page.draft /\ page'.acked = page.acked
      /\ page'.shown = page.shown /\ page'.broken = page.broken /\ page.draft \in Nat
  BY <1>1, <1>2, PageParts DEF PageState
<1>4. DraftsHaveOneKey(page', net', board.posted)
  BY <1>1, <1>2, <1>3, PageParts DEF DraftsHaveOneKey
<1>5. LastLoadShows(page', loads', board.posted)
  BY <1>2, <1>3, PageParts DEF LastLoadShows
<1> QED BY <1>2, <1>3, <1>4, <1>5, PageStep

LEMMA SentHaveKeys ==
  ASSUME BoardInv
  PROVE  net \subseteq page.keys /\ page.keys \subseteq Keys
BY PageParts DEF DraftsHaveOneKey, PageState

LEMMA ArriveKeeps ==
  ASSUME BoardInv, NEW k, k \in net, NEW now \in 1..MaxNow, Arrive(k, now)
  PROVE  BoardInv'
<1>1. net' = net \ {k} /\ UNCHANGED <<page, loads>> BY DEF Arrive
<1>2. k \in page.keys /\ k \in Keys BY SentHaveKeys
<1>3. CASE UNCHANGED <<board, news, order>>
  <2>1. DraftsHaveOneKey(page', net', board.posted) BY <1>1, PageParts DEF DraftsHaveOneKey
  <2>2. page' \in PageState /\ LastLoadShows(page', loads', board.posted) BY <1>1, PageParts
  <2> QED BY <1>3, <2>1, <2>2, PageStep
<1>4. CASE k \notin board.posted
  <2>1. PICK t \in Thread \ Posts :
           /\ board' = WithEntry(Reader, t, nextMessageBoardActivityAt(now),
                                 board.posted \cup {k})
           /\ news' = Viewer \ {Reader} /\ order' = LastAdded(t)
    BY <1>4 DEF Arrive, WithEntry
  <2>2. Reader \in Viewer /\ board.posted \cup {k} \in SUBSET Keys BY <1>2, PageParts DEF Viewer
  <2>3. /\ board' \in BoardRows /\ board'.posted = board.posted \cup {k}
        /\ RowsAreTrue(board'.activity, board'.read, news', order')
    BY <2>1, <2>2, EntryIsWritten
  <2>4. DraftsHaveOneKey(page', net', board'.posted)
    BY <1>1, <1>2, <2>3, PageParts DEF DraftsHaveOneKey
  <2>5. LastLoadShows(page', loads', board'.posted)
    BY <1>1, <2>3, PageParts DEF LastLoadShows
  <2>6. page' \in PageState BY <1>1, PageParts
  <2> QED BY <2>3, <2>4, <2>5, <2>6 DEF BoardInv
<1> QED BY <1>3, <1>4 DEF Arrive

\* An answer or an edit retires the key, and the next draft has none yet.
LEMMA DraftEnds ==
  ASSUME NEW p, NEW q, NEW posted, DraftsHaveOneKey(p, net, posted), p.draft \in Nat,
         p.keys \subseteq Keys, q.keys = p.keys, q.frozen = NoKey, q.draft = p.draft + 1
  PROVE  DraftsHaveOneKey(q, net, posted)
<1>1. \A k \in p.keys : k[1] \in Nat /\ k[1] <= p.draft BY DEF DraftsHaveOneKey, Keys
<1>2. \A k \in q.keys : k[1] <= q.draft /\ k[1] # q.draft BY <1>1
<1> QED BY <1>2 DEF DraftsHaveOneKey

LEMMA AnsweredKeeps ==
  ASSUME BoardInv, Answered
  PROVE  BoardInv'
<1>1. /\ page.flight \in board.posted /\ loads' = Loading /\ UNCHANGED <<board, net, news, order>>
      /\ page' = [page EXCEPT !.frozen = NoKey, !.flight = NoKey, !.draft = page.draft + 1,
                              !.acked = page.acked \cup {page.flight}]
  BY DEF Answered
<1>2. page.flight \in Keys /\ page.draft \in Nat /\ page.keys \subseteq Keys
  BY <1>1, PageParts DEF PageState
<1>3. page.draft + 1 \in Nat /\ page.acked \cup {page.flight} \in SUBSET Keys
  BY <1>2, PageParts DEF PageState
<1>4. /\ page' \in PageState /\ page'.keys = page.keys /\ page'.frozen = NoKey
      /\ page'.draft = page.draft + 1 /\ page'.acked = page.acked \cup {page.flight}
  BY <1>1, <1>3, PageParts DEF PageState
<1>5. DraftsHaveOneKey(page', net', board.posted)
  BY <1>1, <1>2, <1>4, PageParts, DraftEnds
<1>6. page'.acked \subseteq board.posted BY <1>1, <1>4, PageParts DEF LastLoadShows
<1>7. LastLoadShows(page', loads', board.posted) BY <1>1, <1>6, LoadIsAsked
<1> QED BY <1>1, <1>4, <1>5, <1>7, PageStep

LEMMA EditingKeeps ==
  ASSUME BoardInv, Edit
  PROVE  BoardInv'
<1>1. /\ page' = [page EXCEPT !.frozen = NoKey, !.draft = page.draft + 1]
      /\ UNCHANGED <<board, net, loads, news, order>>
  BY DEF Edit
<1>2. page.draft \in Nat /\ page.draft + 1 \in Nat /\ page.keys \subseteq Keys
  BY PageParts DEF PageState
<1>3. /\ page' \in PageState /\ page'.keys = page.keys /\ page'.frozen = NoKey
      /\ page'.draft = page.draft + 1 /\ page'.acked = page.acked
      /\ page'.shown = page.shown /\ page'.broken = page.broken
  BY <1>1, <1>2, PageParts DEF PageState
<1>4. DraftsHaveOneKey(page', net', board.posted) BY <1>1, <1>2, <1>3, PageParts, DraftEnds
<1>5. LastLoadShows(page', loads', board.posted) BY <1>1, <1>3, PageParts DEF LastLoadShows
<1> QED BY <1>1, <1>3, <1>4, <1>5, PageStep

LEMMA FailedKeeps ==
  ASSUME BoardInv, Failed
  PROVE  BoardInv'
<1>1. page' = [page EXCEPT !.flight = NoKey] /\ UNCHANGED <<board, net, loads, news, order>>
  BY DEF Failed
<1>2. /\ page' \in PageState /\ page'.keys = page.keys /\ page'.frozen = page.frozen
      /\ page'.draft = page.draft /\ page'.acked = page.acked
      /\ page'.shown = page.shown /\ page'.broken = page.broken
  BY <1>1, PageParts DEF PageState
<1>3. DraftsHaveOneKey(page', net', board.posted) BY <1>1, <1>2, PageParts DEF DraftsHaveOneKey
<1>4. LastLoadShows(page', loads', board.posted) BY <1>1, <1>2, PageParts DEF LastLoadShows
<1> QED BY <1>1, <1>2, <1>3, <1>4, PageStep

LEMMA LoadKeeps ==
  ASSUME BoardInv, Load
  PROVE  BoardInv'
<1>1. loads' = Loading /\ UNCHANGED <<board, page, net, news, order>> BY DEF Load
<1>2. page.acked \subseteq board.posted BY PageParts DEF LastLoadShows
<1>3. LastLoadShows(page', loads', board.posted) BY <1>1, <1>2, LoadIsAsked
<1>4. page' \in PageState /\ DraftsHaveOneKey(page', net', board.posted) BY <1>1, PageParts
<1> QED BY <1>1, <1>3, <1>4, PageStep

LEMMA ReadBoardKeeps ==
  ASSUME BoardInv, NEW g \in 1..Len(loads), ReadBoard(g)
  PROVE  BoardInv'
<1> DEFINE x == [at |-> "read", posts |-> board.posted]
<1>1. loads' = [loads EXCEPT ![g] = x] /\ UNCHANGED <<page, net, order>> BY DEF ReadBoard
<1>2. Reader \in Viewer BY DEF Viewer
<1>3. /\ board' \in BoardRows /\ board'.posted = board.posted
      /\ RowsAreTrue(board'.activity, board'.read, news', order')
  BY <1>2, NewestIsRead DEF ReadBoard
<1>4. x \in Reading BY PageParts DEF Reading
<1>5. LoadLeaves(g, x, page) BY PageParts DEF LoadLeaves, LastLoadShows
<1> HIDE DEF x
<1>6. LastLoadShows(page, loads', board.posted) BY <1>1, <1>4, <1>5, LoadMoves
<1>7. /\ page' \in PageState /\ DraftsHaveOneKey(page', net', board'.posted)
      /\ LastLoadShows(page', loads', board'.posted)
  BY <1>1, <1>3, <1>6, PageParts
<1> QED BY <1>3, <1>7 DEF BoardInv

LEMMA ShowKeeps ==
  ASSUME BoardInv, NEW g \in 1..Len(loads), Show(g)
  PROVE  BoardInv'
<1>1. /\ loads[g].at = "read" /\ loads' = [loads EXCEPT ![g] = Done]
      /\ UNCHANGED <<board, net, news, order>>
      /\ page' = IF g = Len(loads) THEN [page EXCEPT !.shown = loads[g].posts, !.broken = FALSE]
                 ELSE page
  BY DEF Show, current
<1>2. loads[g].posts \in SUBSET Keys /\ Done \in Reading BY LoadParts DEF Reading, Done
<1>3. /\ page' \in PageState /\ page'.keys = page.keys /\ page'.frozen = page.frozen
      /\ page'.draft = page.draft /\ page'.acked = page.acked
      /\ g = Len(loads) => page'.shown = loads[g].posts
      /\ g # Len(loads) => page'.shown = page.shown /\ page'.broken = page.broken
  BY <1>1, <1>2, PageParts DEF PageState
<1>4. LoadLeaves(g, Done, page')
  BY <1>1, <1>3, PageParts DEF LoadLeaves, LastLoadShows, Done
<1>5. LastLoadShows(page', loads', board.posted) BY <1>1, <1>2, <1>4, LoadMoves
<1>6. DraftsHaveOneKey(page', net', board.posted) BY <1>1, <1>3, PageParts DEF DraftsHaveOneKey
<1> QED BY <1>1, <1>3, <1>5, <1>6, PageStep

LEMMA LoadFailsKeeps ==
  ASSUME BoardInv, NEW g \in 1..Len(loads), LoadFails(g)
  PROVE  BoardInv'
<1>1. /\ loads' = [loads EXCEPT ![g] = Done] /\ UNCHANGED <<board, net, news, order>>
      /\ page' = IF g = Len(loads) THEN [page EXCEPT !.broken = TRUE] ELSE page
  BY DEF LoadFails, current
<1>2. Done \in Reading BY DEF Reading, Done
<1>3. /\ page' \in PageState /\ page'.keys = page.keys /\ page'.frozen = page.frozen
      /\ page'.draft = page.draft /\ page'.acked = page.acked
      /\ g = Len(loads) => page'.broken = TRUE
      /\ g # Len(loads) => page'.shown = page.shown /\ page'.broken = page.broken
  BY <1>1, PageParts DEF PageState
<1>4. LoadLeaves(g, Done, page') BY <1>3 DEF LoadLeaves, Done
<1>5. LastLoadShows(page', loads', board.posted) BY <1>1, <1>2, <1>4, LoadMoves
<1>6. DraftsHaveOneKey(page', net', board.posted) BY <1>1, <1>3, PageParts DEF DraftsHaveOneKey
<1> QED BY <1>1, <1>3, <1>5, <1>6, PageStep

LEMMA BoardInitially == BoardInit => BoardInv
<1> SUFFICES ASSUME BoardInit PROVE BoardInv OBVIOUS
<1> DEFINE a == [t \in Thread |-> Never]
           r == [u \in Viewer |-> Never]
<1>1. /\ board = [activity |-> a, read |-> r, posted |-> {}]
      /\ page = [draft |-> 1, frozen |-> NoKey, flight |-> NoKey, keys |-> {}, acked |-> {},
                 shown |-> {}, broken |-> FALSE]
      /\ net = {} /\ loads = <<Asked>> /\ news = {} /\ order = {}
  BY DEF BoardInit
<1>2. PICK s \in Thread : TRUE BY BoardAssumption
<1>3. /\ a \in [Thread -> Nat] /\ r \in [Viewer -> Nat]
      /\ \A t \in Thread : a[t] = 0 /\ \A u \in Viewer : r[u] = 0
  BY DEF Never
<1> HIDE DEF a, r
<1>4. Latest(a) BY <1>2, <1>3 DEF Latest
<1>5. \A u \in Viewer : ~Unread(a, r, u)
  <2> SUFFICES ASSUME NEW u \in Viewer, NEW t \in Thread PROVE ~(a[t] > r[u]) BY DEF Unread
  <2> QED BY <1>3
<1>6. \A u \in Viewer : \E t \in Thread : r[u] <= a[t] BY <1>2, <1>3
<1>7. RowsAreTrue(a, r, {}, {}) BY <1>3, <1>4, <1>5, <1>6 DEF RowsAreTrue
<1>8. board \in BoardRows /\ board.activity = a /\ board.read = r /\ board.posted = {}
  BY <1>1, <1>3 DEF BoardRows
<1>9. page \in PageState /\ page.frozen = NoKey /\ page.keys = {} /\ page.acked = {}
  BY <1>1 DEF PageState
<1>10. DraftsHaveOneKey(page, net, board.posted) BY <1>1, <1>8, <1>9 DEF DraftsHaveOneKey
<1>11. Asked \in Reading /\ Asked.at = "asked" BY DEF Asked, Reading
<1>12. loads \in Seq(Reading) /\ Len(loads) = 1 /\ loads[1] = Asked BY <1>1, <1>11
<1>13. LastLoadShows(page, loads, board.posted) BY <1>8, <1>9, <1>11, <1>12 DEF LastLoadShows
<1> QED BY <1>1, <1>7, <1>8, <1>9, <1>10, <1>13 DEF BoardInv

LEMMA BoardStep ==
  ASSUME BoardInv, [BoardNext]_boardVars
  PROVE  BoardInv'
<1>1. CASE \E u \in Others, t \in Thread, now \in 1..MaxNow : AnotherWrites(u, t, now)
  BY <1>1, AnotherWritesKeeps
<1>2. CASE \E u \in Others : AnotherReads(u) BY <1>2, AnotherReadsKeeps
<1>3. CASE Submit BY <1>3, SubmitKeeps
<1>4. CASE Answered BY <1>4, AnsweredKeeps
<1>5. CASE Failed BY <1>5, FailedKeeps
<1>6. CASE Edit BY <1>6, EditingKeeps
<1>7. CASE Load BY <1>7, LoadKeeps
<1>8. CASE \E k \in net, now \in 1..MaxNow : Arrive(k, now) BY <1>8, ArriveKeeps
<1>9. CASE \E g \in DOMAIN loads : ReadBoard(g) \/ Show(g) \/ LoadFails(g)
  <2>1. DOMAIN loads = 1..Len(loads) BY LoadParts
  <2> QED BY <1>9, <2>1, ReadBoardKeeps, ShowKeeps, LoadFailsKeeps
<1>10. CASE UNCHANGED boardVars
  <2>1. UNCHANGED <<board, page, net, loads, news, order>> BY <1>10 DEF boardVars
  <2>2. /\ board' \in BoardRows /\ page' \in PageState
        /\ RowsAreTrue(board'.activity, board'.read, news', order')
        /\ DraftsHaveOneKey(page', net', board'.posted)
        /\ LastLoadShows(page', loads', board'.posted)
    BY <2>1 DEF BoardInv
  <2> QED BY <2>2 DEF BoardInv
<1> QED BY <1>1, <1>2, <1>3, <1>4, <1>5, <1>6, <1>7, <1>8, <1>9, <1>10 DEF BoardNext

LEMMA BoardImplies == BoardInv => BoardIsTrue
<1> SUFFICES ASSUME BoardInv PROVE BoardIsTrue OBVIOUS
<1>1. RowsAreTrue(board.activity, board.read, news, order) BY DEF BoardInv
<1>2. UnreadIsNews
  <2> SUFFICES ASSUME NEW u \in Viewer PROVE hasUnreadBoard(u) <=> u \in news BY DEF UnreadIsNews
  <2>1. /\ \A t \in Thread : board.activity[t] \in Nat
        /\ board.read[u] \in Nat /\ (Unread(board.activity, board.read, u) <=> u \in news)
    BY <1>1 DEF RowsAreTrue
  <2>2. Unread(board.activity, board.read, u) <=> Newest > board.read[u]
    <3>1. \A t \in Thread : board.activity[t] <= Newest BY <1>1, NewestIs
    <3>2. PICK t \in Thread : board.activity[t] = Newest BY <1>1, NewestIs
    <3> QED BY <2>1, <3>1, <3>2 DEF Unread
  <2>3. Posts = {} => ~(Newest > board.read[u]) BY <1>1, <2>1, NewestIs
  <2> QED BY <2>1, <2>2, <2>3 DEF hasUnreadBoard
<1>3. ThreadsByRecency BY <1>1 DEF RowsAreTrue, ThreadsByRecency
<1>4. PostedOnce BY PageParts DEF DraftsHaveOneKey, PostedOnce
<1>5. OwnPostsShown
  <2>1. Len(loads) \in DOMAIN loads BY LoadParts
  <2> QED BY <2>1, PageParts DEF OwnPostsShown, LastLoadShows
<1> QED BY <1>2, <1>3, <1>4, <1>5 DEF BoardIsTrue

(* The theorem *)

\* However many members, threads and reads there are, whatever the object's clock says,
\* whatever requests and answers are lost or late: unread means news, the threads sort by
\* what was last added to them, a text is posted once, and the page shows its own posts.
THEOREM BoardIsAlwaysTrue == BoardSpec => []BoardIsTrue
<1>1. BoardInit => BoardInv BY BoardInitially
<1>2. BoardInv /\ [BoardNext]_boardVars => BoardInv' BY BoardStep
<1>3. BoardInv => BoardIsTrue BY BoardImplies
<1> QED BY <1>1, <1>2, <1>3, PTL DEF BoardSpec

-----------------------------------------------------------------------------
(***************************************************************************)
(* AdminPages: what the commissioner's pages send.  Every command that is  *)
(* sent bears the turn of the commissioner's in which it was frozen; while *)
(* it is frozen the same turn makes no other, and a turn that begins later *)
(* is later than that of every command sent before.                        *)
(***************************************************************************)

(* The inductive invariant *)

Pools   == [setting : [Settings -> Words], notes : SUBSET Words, signups : Subject,
            suspended : SUBSET Subject, commissioner : Subject \cup {Nil}]
Frozens == [identity : Identity \cup {Nil}, body : Request \cup {Nil}, inFlight : BOOLEAN]
Reviews == [tag : {"idle", "reviewing", "submitting"}, do : {"none", "suspend", "transfer"},
            on : Member \cup {Nil}, key : 0..MaxCommands]
Screens == [tab : {"none", "settings", "members", "history"}, view : Pools \cup {Nil},
            broken : BOOLEAN, draft : [Section -> Words], review : Reviews]
Fetches == [of : SUBSET Settings, review : 0..MaxCommands, seen : Pools \cup {Nil}]

AdminTypes ==
  /\ pool \in Pools /\ frozen \in Frozens /\ screen \in Screens
  /\ taken \in [1..MaxCommands -> Request \cup {Nil}]
  /\ fetches \subseteq Fetches /\ typed \in [Section -> Words]
  /\ minted \in 0..MaxCommands /\ turn \in 0..minted

\* All that was sent and can still be told from its copies.
Rows == {taken[k] : k \in Taken}
Made == calls \cup Rows \cup {b \in {frozen.body} : frozen.identity # Nil}

\* No two commands have a key in common, nor a turn and an identity; m keys are made.
SentOnce(bodies, m, now) ==
  /\ bodies \subseteq Request
  /\ \A b \in bodies : b.key <= m /\ b.turn < b.key /\ b.turn <= now
  /\ \A b, c \in bodies : b.key = c.key \/ (b.identity = c.identity /\ b.turn = c.turn) => b = c

TurnIsNew(bodies, now) == \A b \in bodies : b.turn < now

\* A page freezes its own commands only, and while none is frozen the turn is new.
FrozenIsOwn(f, tab, bodies, now) ==
  /\ f.identity = Nil => f = Thawed /\ TurnIsNew(bodies, now)
  /\ f.identity # Nil => f.body \in Request /\ f.body.identity = f.identity
  /\ f.identity # Nil /\ tab = "history" => f.identity.on = "note"

IsFrozenFor(r, f) == /\ f.identity = identityOf(r.do, r.on, Nil)
                     /\ f.body # Nil /\ f.body.key = r.key

\* A review is of the members page, and its key is that of its command alone.
ReviewIsOwn(r, f, tab, bodies, m, now) ==
  /\ r.tag = "idle" => /\ r = NoReview
                       /\ tab = "members" /\ f.identity # Nil => f.identity.do = "restore"
  /\ r.tag # "idle" => /\ tab = "members" /\ r.key \in 1..m
                       /\ r.do \in {"suspend", "transfer"} /\ r.on \in Member
  /\ r.tag # "idle" /\ f.inFlight => r.tag = "submitting" /\ IsFrozenFor(r, f)
  /\ r.tag = "submitting" /\ ~f.inFlight => f.identity = Nil
  /\ r.tag = "reviewing" =>
       \/ IsFrozenFor(r, f)
       \/ /\ f.identity # identityOf(r.do, r.on, Nil)
          /\ \A b \in bodies : b.key # r.key
          /\ TurnIsNew(bodies, now) /\ now < r.key

\* One fetch at most ends a review, one that was submitted.
FetchesAreOwn(fs, r, f, ty) ==
  /\ \A x \in fs : x.review # 0 => r.tag = "submitting" /\ f.identity = Nil
  /\ \A x, y \in fs : x.review # 0 /\ y.review # 0 => x = y
  /\ \A x \in fs : \A s \in x.of : ty[s] = Nil

DraftsAreKept(ty, draft, tab, f) ==
  /\ \A s \in Section : ty[s] # Nil => draft[s] = ty[s] /\ tab = Home(s)
  /\ \A s \in {"name", "note"} :
       f.identity # Nil /\ f.identity.on = s /\ ty[s] # Nil => f.body.text = draft[s]

AdminInv ==
  /\ AdminTypes
  /\ \A k \in Taken : taken[k].key = k
  /\ SentOnce(Made, minted, turn)
  /\ FrozenIsOwn(frozen, screen.tab, Made, turn)
  /\ ReviewIsOwn(screen.review, frozen, screen.tab, Made, minted, turn)
  /\ FetchesAreOwn(fetches, screen.review, frozen, typed)
  /\ DraftsAreKept(typed, screen.draft, screen.tab, frozen)
  /\ ReviewsAreDone

-----------------------------------------------------------------------------
(* Lemmas *)

LEMMA AdminConstants ==
  /\ MaxCommands \in Nat /\ Nil \notin Identity /\ Nil \notin Request /\ Nil \in Words
  /\ {"name", "note"} \subseteq Section /\ Member \cap {"name", "note"} = {}
  /\ Thawed \in Frozens /\ Thawed.identity = Nil /\ Thawed.inFlight = FALSE
  /\ NoReview \in Reviews /\ NoReview.tag = "idle" /\ NoReview.key = 0
  /\ Blank \in [Section -> Words] /\ \A s \in Section : Blank[s] = Nil
<1>1. /\ MaxCommands \in Nat /\ Nil \notin Identity /\ Nil \notin Request
      /\ {"name", "note"} \subseteq Section /\ Member \cap {"name", "note"} = {}
  BY PagesAssumption
<1>2. Nil \in Words BY DEF Words
<1>3. Thawed \in Frozens /\ Thawed.identity = Nil /\ Thawed.inFlight = FALSE
  BY DEF Thawed, Frozens
<1>4. NoReview \in Reviews /\ NoReview.tag = "idle" /\ NoReview.key = 0
  BY <1>1 DEF NoReview, Reviews
<1>5. Blank \in [Section -> Words] /\ \A s \in Section : Blank[s] = Nil BY <1>2 DEF Blank
<1> QED BY <1>1, <1>2, <1>3, <1>4, <1>5

\* The identity of what a review sends.
LEMMA ReviewedIdentity ==
  ASSUME NEW do \in {"suspend", "transfer"}, NEW m \in Member
  PROVE  /\ identityOf(do, m, Nil) \in Identity
         /\ identityOf(do, m, Nil).do = do /\ identityOf(do, m, Nil).on = m
BY DEF identityOf, Identity, Subject, Words

LEMMA AdminParts ==
  ASSUME AdminInv
  PROVE  /\ pool \in Pools /\ frozen \in Frozens /\ screen \in Screens
         /\ taken \in [1..MaxCommands -> Request \cup {Nil}]
         /\ fetches \subseteq Fetches /\ typed \in [Section -> Words]
         /\ minted \in Nat /\ minted <= MaxCommands /\ turn \in Nat /\ turn <= minted
         /\ screen.review \in Reviews /\ screen.draft \in [Section -> Words]
         /\ \A k \in Taken : taken[k].key = k
         /\ SentOnce(Made, minted, turn)
         /\ FrozenIsOwn(frozen, screen.tab, Made, turn)
         /\ ReviewIsOwn(screen.review, frozen, screen.tab, Made, minted, turn)
         /\ FetchesAreOwn(fetches, screen.review, frozen, typed)
         /\ DraftsAreKept(typed, screen.draft, screen.tab, frozen)
         /\ ReviewsAreDone
<1>1. MaxCommands \in Nat /\ AdminTypes BY AdminConstants DEF AdminInv
<1>2. screen.review \in Reviews /\ screen.draft \in [Section -> Words]
  BY <1>1 DEF AdminTypes, Screens
<1>3. minted \in Nat /\ minted <= MaxCommands /\ turn \in Nat /\ turn <= minted
  BY <1>1 DEF AdminTypes
<1> QED BY <1>1, <1>2, <1>3 DEF AdminInv, AdminTypes

LEMMA SentFewer ==
  ASSUME NEW B, NEW C, NEW m \in Nat, NEW n \in Nat, NEW now \in Nat, NEW next \in Nat,
         SentOnce(B, m, now), C \subseteq B, m <= n, now <= next
  PROVE  SentOnce(C, n, next)
<1>1. \A b \in C : b.key \in Nat /\ b.turn \in Nat BY DEF SentOnce, Request
<1> QED BY <1>1 DEF SentOnce

\* A turn that begins now is later than those of all commands.
LEMMA TurnBegins ==
  ASSUME NEW B, NEW m \in Nat, NEW now \in Nat, SentOnce(B, m, now)
  PROVE  TurnIsNew(B, m)
<1>1. \A b \in B : b.key \in Nat /\ b.turn \in Nat BY DEF SentOnce, Request
<1> QED BY <1>1 DEF SentOnce, TurnIsNew

LEMMA SentMore ==
  ASSUME NEW B, NEW m \in Nat, NEW n \in Nat, NEW now \in Nat, NEW next \in Nat,
         SentOnce(B, m, now), TurnIsNew(B, next), m <= n, now <= next,
         NEW b \in Request, b.turn = next, next < b.key, b.key <= n,
         \A c \in B : c.key # b.key
  PROVE  SentOnce(B \cup {b}, n, next)
<1>1. \A c \in B : c.key \in Nat /\ c.turn \in Nat /\ c.turn < next
  BY DEF SentOnce, TurnIsNew, Request
<1>2. b.key \in Nat BY DEF Request
<1>3. SentOnce(B, n, next) BY SentFewer
<1>4. B \cup {b} \subseteq Request BY DEF SentOnce
<1>5. \A c \in B \cup {b} : c.key <= n /\ c.turn < c.key /\ c.turn <= next
  BY <1>3 DEF SentOnce
<1>6. ASSUME NEW c \in B \cup {b}, NEW d \in B \cup {b},
             c.key = d.key \/ (c.identity = d.identity /\ c.turn = d.turn)
      PROVE  c = d
  <2>1. CASE c \in B /\ d \in B BY <1>6, <2>1 DEF SentOnce
  <2>2. CASE c \notin B \/ d \notin B BY <1>1, <1>6, <2>2
  <2> QED BY <2>1, <2>2
<1> QED BY <1>4, <1>5, <1>6 DEF SentOnce

\* The command that is frozen has been sent.
LEMMA FrozenIsMade ==
  ASSUME AdminInv, frozen.identity # Nil
  PROVE  /\ frozen.body \in Made /\ frozen.body \in Request /\ frozen.body.key \in Nat
         /\ frozen.body.key <= minted /\ frozen.body.identity = frozen.identity
         /\ frozen.identity \in Identity
<1>1. frozen.body \in Made BY DEF Made
<1>2. frozen.body \in Request /\ frozen.body.identity = frozen.identity
  BY AdminParts DEF FrozenIsOwn
<1> QED BY <1>1, <1>2, AdminParts DEF SentOnce, Request

LEMMA InFlightIsFrozen ==
  ASSUME AdminInv, frozen.inFlight
  PROVE  /\ frozen.identity # Nil /\ screen.review.tag # "reviewing"
         /\ screen.review.tag = "submitting" => IsFrozenFor(screen.review, frozen)
         /\ \A x \in fetches : x.review = 0
<1>1. frozen.identity # Nil BY AdminParts, AdminConstants DEF FrozenIsOwn
<1> QED BY <1>1, AdminParts DEF ReviewIsOwn, FetchesAreOwn

\* Nothing is made by a step that only drops copies, or moves one to the row of its key.
LEMMA NothingMade ==
  ASSUME AdminInv, calls' \subseteq calls,
         frozen'.identity = Nil \/ (frozen.identity # Nil /\ frozen'.body = frozen.body),
         UNCHANGED taken \/ \E b \in calls : taken' = [taken EXCEPT ![b.key] = b]
  PROVE  Made' \subseteq Made
<1>1. Rows' \subseteq Rows \cup calls
  <2>1. CASE UNCHANGED taken BY <2>1 DEF Rows, Taken
  <2>2. ASSUME NEW b \in calls, taken' = [taken EXCEPT ![b.key] = b] PROVE Rows' \subseteq Rows \cup calls
    <3> SUFFICES ASSUME NEW k \in 1..MaxCommands, taken'[k] # Nil PROVE taken'[k] \in Rows \cup calls
      BY DEF Rows, Taken
    <3>1. taken \in [1..MaxCommands -> Request \cup {Nil}] BY AdminParts
    <3>2. CASE k = b.key BY <2>2, <3>1, <3>2
    <3>3. CASE k # b.key
      <4>1. taken'[k] = taken[k] BY <2>2, <3>1, <3>3
      <4> QED BY <4>1 DEF Rows, Taken
    <3> QED BY <3>2, <3>3
  <2> QED BY <2>1, <2>2
<1> QED BY <1>1 DEF Made

\* A step that makes no command.
LEMMA QuietStep ==
  ASSUME AdminInv, AdminTypes', Made' \subseteq Made, minted <= minted', turn <= turn',
         \A k \in Taken' : taken'[k].key = k,
         FrozenIsOwn(frozen', screen'.tab, Made', turn'),
         ReviewIsOwn(screen'.review, frozen', screen'.tab, Made', minted', turn'),
         FetchesAreOwn(fetches', screen'.review, frozen', typed'),
         DraftsAreKept(typed', screen'.draft, screen'.tab, frozen'), ReviewsAreDone'
  PROVE  AdminInv'
<1>1. MaxCommands \in Nat BY AdminConstants
<1>2. minted' \in Nat /\ turn' \in Nat BY <1>1 DEF AdminTypes
<1>3. SentOnce(Made', minted', turn') BY <1>2, AdminParts, SentFewer
<1> QED BY <1>3 DEF AdminInv

LEMMA FewerAreNew ==
  ASSUME NEW B, NEW C, NEW now, TurnIsNew(B, now), C \subseteq B
  PROVE  TurnIsNew(C, now)
BY DEF TurnIsNew

LEMMA RowsKeep ==
  ASSUME AdminInv, UNCHANGED <<taken, believed>>
  PROVE  ReviewsAreDone' /\ \A k \in Taken' : taken'[k].key = k
BY AdminParts DEF ReviewsAreDone, Taken

\* A step after which nothing is frozen and the turn is new.
LEMMA ThawedStep ==
  ASSUME AdminInv, frozen' = Thawed, turn' = minted, UNCHANGED minted, Made' \subseteq Made
  PROVE  /\ FrozenIsOwn(frozen', screen'.tab, Made', turn') /\ turn <= turn'
         /\ turn' \in 0..minted' /\ minted' \in 0..MaxCommands /\ frozen' \in Frozens
<1>1. TurnIsNew(Made', turn') BY AdminParts, TurnBegins, FewerAreNew
<1>2. MaxCommands \in Nat /\ minted \in Nat /\ minted <= MaxCommands /\ turn \in Nat /\ turn <= minted
  BY AdminParts, AdminConstants
<1> QED BY <1>1, <1>2, AdminConstants DEF FrozenIsOwn

(* Each action keeps the invariant *)

LEMMA OpenPageOfKeeps ==
  ASSUME AdminInv, NEW tab \in {"settings", "members", "history"}, OpenPageOf(tab)
  PROVE  AdminInv'
<1>1. /\ screen' = [tab |-> tab, view |-> Nil, broken |-> FALSE, draft |-> Blank, review |-> NoReview]
      /\ frozen' = Thawed /\ fetches' = {Fetch(Settings, 0)} /\ typed' = Blank /\ turn' = minted
      /\ UNCHANGED <<pool, taken, calls, minted, believed>>
  BY DEF OpenPageOf
<1>2. /\ screen' \in Screens /\ screen'.tab = tab /\ screen'.draft = Blank
      /\ screen'.review = NoReview
  BY <1>1, AdminConstants DEF Screens
<1>3. Fetch(Settings, 0) \in Fetches /\ Fetch(Settings, 0).review = 0
      /\ Fetch(Settings, 0).of \subseteq Section
  BY AdminConstants DEF Fetch, Fetches, Settings
<1>4. Made' \subseteq Made BY <1>1, AdminConstants, NothingMade
<1>5. /\ FrozenIsOwn(frozen', screen'.tab, Made', turn') /\ turn <= turn'
      /\ turn' \in 0..minted' /\ minted' \in 0..MaxCommands /\ frozen' \in Frozens
  BY <1>1, <1>4, ThawedStep
<1>6. AdminTypes' BY <1>1, <1>2, <1>3, <1>5, AdminConstants, AdminParts DEF AdminTypes
<1>7. ReviewIsOwn(screen'.review, frozen', screen'.tab, Made', minted', turn')
  BY <1>1, <1>2, AdminConstants DEF ReviewIsOwn
<1>8. FetchesAreOwn(fetches', screen'.review, frozen', typed')
  BY <1>1, <1>3, AdminConstants DEF FetchesAreOwn
<1>9. DraftsAreKept(typed', screen'.draft, screen'.tab, frozen')
  BY <1>1, <1>2, AdminConstants DEF DraftsAreKept
<1>10. minted <= minted' BY <1>1, AdminParts
<1> QED BY <1>1, <1>4, <1>5, <1>6, <1>7, <1>8, <1>9, <1>10, RowsKeep, QuietStep

LEMMA TypeKeeps ==
  ASSUME AdminInv, NEW s \in Section, NEW t \in Text, Type(s, t)
  PROVE  AdminInv'
<1> DEFINE v == IF \E f \in fetches : s \in f.of THEN Nil ELSE t
<1>1. /\ screen' = [screen EXCEPT !.draft[s] = t] /\ frozen' = Thawed
      /\ typed' = [typed EXCEPT ![s] = v] /\ turn' = minted /\ screen.tab = Home(s)
      /\ UNCHANGED <<pool, taken, calls, fetches, minted, believed>>
  BY DEF Type, Serves, retire
<1>2. t \in Words /\ v \in Words BY DEF Words
<1>3. v # Nil => v = t /\ \A f \in fetches : s \notin f.of OBVIOUS
<1> HIDE DEF v
<1>4. /\ screen' \in Screens /\ screen'.tab = screen.tab /\ screen'.review = screen.review
      /\ screen'.draft = [screen.draft EXCEPT ![s] = t]
  BY <1>1, <1>2, AdminParts DEF Screens
<1>5. screen.tab \in {"settings", "history"} BY <1>1 DEF Home
<1>6. Made' \subseteq Made BY <1>1, AdminConstants, NothingMade
<1>7. /\ FrozenIsOwn(frozen', screen'.tab, Made', turn') /\ turn <= turn'
      /\ turn' \in 0..minted' /\ minted' \in 0..MaxCommands /\ frozen' \in Frozens
  BY <1>1, <1>6, ThawedStep
<1>8. typed' \in [Section -> Words] BY <1>1, <1>2, AdminParts
<1>9. AdminTypes' BY <1>1, <1>4, <1>7, <1>8, AdminParts DEF AdminTypes
<1>10. ReviewIsOwn(screen'.review, frozen', screen'.tab, Made', minted', turn')
  <2>1. screen.review.tag = "idle" /\ screen.review = NoReview
    BY <1>5, AdminParts DEF ReviewIsOwn, Reviews
  <2> QED BY <1>1, <1>4, <2>1, AdminConstants DEF ReviewIsOwn
<1>11. FetchesAreOwn(fetches', screen'.review, frozen', typed')
  <2>1. \A x \in fetches : \A u \in x.of : u \in Section BY AdminParts DEF Fetches, Settings
  <2>2. \A x \in fetches : \A u \in x.of : typed'[u] = Nil
    BY <1>1, <1>3, <2>1, AdminParts DEF FetchesAreOwn
  <2> QED BY <1>1, <1>4, <2>2, AdminParts, AdminConstants DEF FetchesAreOwn
<1>12. DraftsAreKept(typed', screen'.draft, screen'.tab, frozen')
  BY <1>1, <1>3, <1>4, AdminParts, AdminConstants DEF DraftsAreKept
<1>13. minted <= minted' BY <1>1, AdminParts
<1> QED BY <1>1, <1>6, <1>7, <1>9, <1>10, <1>11, <1>12, <1>13, RowsKeep, QuietStep

LEMMA BeginConfirmationKeeps ==
  ASSUME AdminInv, NEW m \in Member, NEW do \in {"suspend", "transfer"}, beginConfirmation(m, do)
  PROVE  AdminInv'
<1> DEFINE r == [tag |-> "reviewing", do |-> do, on |-> m, key |-> minted + 1]
<1>1. /\ screen' = [screen EXCEPT !.review = r] /\ minted' = minted + 1 /\ turn' = minted
      /\ minted < MaxCommands /\ screen.tab = "members" /\ ~frozen.inFlight
      /\ screen.review.tag = "idle"
      /\ UNCHANGED <<pool, taken, calls, frozen, fetches, typed, believed>>
  BY DEF beginConfirmation, Serves
<1>2. /\ minted \in Nat /\ turn \in Nat /\ turn <= minted /\ MaxCommands \in Nat
      /\ minted + 1 \in 0..MaxCommands
  BY <1>1, AdminParts, AdminConstants
<1>3. /\ r \in Reviews /\ r.tag = "reviewing" /\ r.key = minted + 1 /\ r.do = do /\ r.on = m
  BY <1>2 DEF Reviews
<1> HIDE DEF r
<1>4. /\ screen' \in Screens /\ screen'.tab = screen.tab /\ screen'.review = r
      /\ screen'.draft = screen.draft
  BY <1>1, <1>3, AdminParts DEF Screens
<1>5. AdminTypes' BY <1>1, <1>2, <1>4, AdminParts DEF AdminTypes
<1>6. Made' = Made BY <1>1 DEF Made, Rows, Taken
<1>7. TurnIsNew(Made, minted) BY AdminParts, TurnBegins
<1>8. FrozenIsOwn(frozen', screen'.tab, Made', turn')
  BY <1>1, <1>4, <1>6, <1>7, AdminParts DEF FrozenIsOwn
<1>9. ReviewIsOwn(screen'.review, frozen', screen'.tab, Made', minted', turn')
  <2>1. frozen.identity # identityOf(do, m, Nil)
    <3>1. frozen.identity = Nil \/ frozen.identity.do = "restore"
      BY <1>1, AdminParts DEF ReviewIsOwn
    <3> QED BY <3>1, ReviewedIdentity, AdminConstants
  <2>2. \A b \in Made : b.key # r.key
    <3>1. \A b \in Made : b.key \in Nat /\ b.key <= minted BY AdminParts DEF SentOnce, Request
    <3> QED BY <1>2, <1>3, <3>1
  <2>3. r.key \in 1..minted' /\ minted < r.key BY <1>1, <1>2, <1>3
  <2> QED BY <1>1, <1>3, <1>4, <1>6, <1>7, <2>1, <2>2, <2>3 DEF ReviewIsOwn
<1>10. FetchesAreOwn(fetches', screen'.review, frozen', typed')
  BY <1>1, <1>4, AdminParts DEF FetchesAreOwn
<1>11. DraftsAreKept(typed', screen'.draft, screen'.tab, frozen')
  BY <1>1, <1>4, AdminParts DEF DraftsAreKept
<1>12. minted <= minted' /\ turn <= turn' BY <1>1, <1>2
<1>13. Made' \subseteq Made BY <1>6
<1> QED BY <1>1, <1>5, <1>8, <1>9, <1>10, <1>11, <1>12, <1>13, RowsKeep, QuietStep

LEMMA CancelConfirmationKeeps ==
  ASSUME AdminInv, cancelConfirmation
  PROVE  AdminInv'
<1>1. /\ screen' = [screen EXCEPT !.review = NoReview] /\ frozen' = Thawed /\ turn' = minted
      /\ screen.review.tag = "reviewing"
      /\ UNCHANGED <<pool, taken, calls, fetches, minted, typed, believed>>
  BY DEF cancelConfirmation, Abandoned, retire
<1>2. /\ screen' \in Screens /\ screen'.tab = screen.tab /\ screen'.review = NoReview
      /\ screen'.draft = screen.draft
  BY <1>1, AdminConstants, AdminParts DEF Screens
<1>3. Made' \subseteq Made BY <1>1, AdminConstants, NothingMade
<1>4. /\ FrozenIsOwn(frozen', screen'.tab, Made', turn') /\ turn <= turn'
      /\ turn' \in 0..minted' /\ minted' \in 0..MaxCommands /\ frozen' \in Frozens
  BY <1>1, <1>3, ThawedStep
<1>5. AdminTypes' BY <1>1, <1>2, <1>4, AdminParts DEF AdminTypes
<1>6. ReviewIsOwn(screen'.review, frozen', screen'.tab, Made', minted', turn')
  BY <1>1, <1>2, AdminConstants DEF ReviewIsOwn
<1>7. FetchesAreOwn(fetches', screen'.review, frozen', typed')
  BY <1>1, <1>2, AdminParts DEF FetchesAreOwn
<1>8. DraftsAreKept(typed', screen'.draft, screen'.tab, frozen')
  BY <1>1, <1>2, AdminParts, AdminConstants DEF DraftsAreKept
<1>9. minted <= minted' BY <1>1, AdminParts
<1> QED BY <1>1, <1>3, <1>4, <1>5, <1>6, <1>7, <1>8, <1>9, RowsKeep, QuietStep

\* A press of the button of the command that is frozen sends it again.
LEMMA PressedAgain ==
  ASSUME AdminInv, NEW identity \in Identity, NEW text, NEW key, run(identity, text, key),
         frozen.identity = identity, key <= minted \/ key = minted + 1
  PROVE  /\ frozen' = [identity |-> identity, body |-> frozen.body, inFlight |-> TRUE]
         /\ frozen' \in Frozens /\ frozen.body \in Request /\ frozen.body.identity = identity
         /\ UNCHANGED <<pool, taken, fetches, typed, believed, minted, turn>>
         /\ Made' \subseteq Made
<1>1. identity # Nil BY AdminConstants
<1>2. /\ frozen.body \in Made /\ frozen.body \in Request /\ frozen.body.key \in Nat
      /\ frozen.body.key <= minted /\ frozen.body.identity = identity
  BY <1>1, FrozenIsMade
<1>3. /\ frozen' = [identity |-> identity, body |-> frozen.body, inFlight |-> TRUE]
      /\ calls' = calls \cup {frozen.body} /\ turn' = turn
      /\ minted' = IF frozen.body.key > minted THEN frozen.body.key ELSE minted
      /\ UNCHANGED <<pool, taken, fetches, typed, believed>>
  BY DEF run, Retained
<1>4. minted' = minted BY <1>2, <1>3, AdminParts
<1>5. frozen' \in Frozens /\ frozen'.body = frozen.body BY <1>2, <1>3 DEF Frozens
<1>6. Rows' = Rows BY <1>3 DEF Rows, Taken
<1>7. Made' \subseteq Made BY <1>2, <1>3, <1>5, <1>6 DEF Made
<1> QED BY <1>2, <1>3, <1>4, <1>5, <1>7

\* Another button freezes a command of its own, which is sent.
LEMMA PressedAnother ==
  ASSUME AdminInv, NEW identity \in Identity, NEW text \in Words, NEW key \in 1..MaxCommands,
         run(identity, text, key), frozen.identity # identity,
         key = minted + 1 \/ (key <= minted /\ turn < key), NEW b,
         b = [identity |-> identity, text |-> text, key |-> key, turn |-> turn']
  PROVE  /\ frozen' = [identity |-> identity, body |-> b, inFlight |-> TRUE]
         /\ frozen' \in Frozens /\ b \in Request /\ b.identity = identity /\ b.text = text
         /\ b.key = key /\ b.turn = turn' /\ turn' < key /\ key <= minted' /\ minted' \in 0..MaxCommands
         /\ turn' = (IF frozen.identity = Nil \/ key <= minted THEN turn ELSE minted)
         /\ turn' \in 0..minted' /\ minted <= minted' /\ turn <= turn'
         /\ UNCHANGED <<pool, taken, fetches, typed, believed>>
         /\ Made' \subseteq Made \cup {b}
<1>1. /\ minted \in Nat /\ turn \in Nat /\ turn <= minted /\ minted <= MaxCommands
      /\ MaxCommands \in Nat /\ key \in Nat
  BY AdminParts, AdminConstants
<1>2. /\ turn' = (IF frozen.identity = Nil \/ key <= minted THEN turn ELSE minted)
      /\ frozen' = [identity |-> identity, body |-> b, inFlight |-> TRUE]
      /\ calls' = calls \cup {b} /\ b.key = key
      /\ minted' = (IF b.key > minted THEN b.key ELSE minted)
      /\ UNCHANGED <<pool, taken, fetches, typed, believed>>
  BY DEF run, Retained
<1>3. /\ turn' \in Nat /\ turn' < key /\ turn <= turn' /\ turn' \in 0..MaxCommands
      /\ minted' \in 0..MaxCommands /\ turn' \in 0..minted' /\ minted <= minted' /\ key <= minted'
  BY <1>1, <1>2
<1>4. b \in Request /\ b.identity = identity /\ b.text = text /\ b.turn = turn'
  BY <1>3 DEF Request
<1>5. frozen' \in Frozens /\ frozen'.body = b BY <1>2, <1>4 DEF Frozens
<1>6. Rows' = Rows BY <1>2 DEF Rows, Taken
<1>7. Made' \subseteq Made \cup {b} BY <1>2, <1>5, <1>6 DEF Made
<1> QED BY <1>2, <1>3, <1>4, <1>5, <1>7

\* A step that makes one command.
LEMMA MakingStep ==
  ASSUME AdminInv, AdminTypes', NEW b \in Request, Made' \subseteq Made \cup {b},
         b.turn = turn', turn' < b.key, b.key <= minted', minted <= minted', turn <= turn',
         TurnIsNew(Made, turn'), \A c \in Made : c.key # b.key,
         \A k \in Taken' : taken'[k].key = k,
         FrozenIsOwn(frozen', screen'.tab, Made', turn'),
         ReviewIsOwn(screen'.review, frozen', screen'.tab, Made', minted', turn'),
         FetchesAreOwn(fetches', screen'.review, frozen', typed'),
         DraftsAreKept(typed', screen'.draft, screen'.tab, frozen'), ReviewsAreDone'
  PROVE  AdminInv'
<1>1. MaxCommands \in Nat BY AdminConstants
<1>2. minted' \in Nat /\ turn' \in Nat BY <1>1 DEF AdminTypes
<1>3. SentOnce(Made \cup {b}, minted', turn') BY <1>2, AdminParts, SentMore
<1>4. SentOnce(Made', minted', turn') BY <1>2, <1>3, SentFewer
<1> QED BY <1>4 DEF AdminInv

\* What a button that is not a review's may send.
MayPress(identity, text) ==
  /\ screen.review.tag = "idle"
  /\ screen.tab = "members" => identity.do = "restore"
  /\ screen.tab = "history" => identity.on = "note"
  /\ \A s \in {"name", "note"} : identity.on = s /\ typed[s] # Nil => text = screen.draft[s]

LEMMA ButtonKeeps ==
  ASSUME AdminInv, NEW identity \in Identity, NEW text \in Words,
         run(identity, text, minted + 1), UNCHANGED screen, MayPress(identity, text)
  PROVE  AdminInv'
<1> DEFINE b == [identity |-> identity, text |-> text, key |-> minted + 1, turn |-> turn']
<1>1. identity # Nil BY AdminConstants
<1>2. /\ screen.review.tag = "idle" /\ screen.review = NoReview
      /\ \A x \in fetches : x.review = 0
  BY AdminParts DEF MayPress, ReviewIsOwn, FetchesAreOwn
<1>3. CASE frozen.identity = identity
  <2>1. /\ frozen' = [identity |-> identity, body |-> frozen.body, inFlight |-> TRUE]
        /\ frozen' \in Frozens /\ frozen.body \in Request /\ frozen.body.identity = identity
        /\ UNCHANGED <<pool, taken, fetches, typed, believed, minted, turn>>
        /\ Made' \subseteq Made
    BY <1>3, PressedAgain
  <2>2. frozen'.identity = identity /\ frozen'.body = frozen.body BY <2>1
  <2>3. AdminTypes' BY <2>1, AdminParts, AdminConstants DEF AdminTypes
  <2>4. FrozenIsOwn(frozen', screen'.tab, Made', turn')
    BY <1>1, <2>1, <2>2 DEF FrozenIsOwn, MayPress
  <2>5. ReviewIsOwn(screen'.review, frozen', screen'.tab, Made', minted', turn')
    BY <1>2, <2>2 DEF ReviewIsOwn, MayPress
  <2>6. FetchesAreOwn(fetches', screen'.review, frozen', typed')
    BY <1>2, <2>1, AdminParts DEF FetchesAreOwn
  <2>7. DraftsAreKept(typed', screen'.draft, screen'.tab, frozen')
    BY <1>3, <2>1, <2>2, AdminParts DEF DraftsAreKept
  <2>8. minted <= minted' /\ turn <= turn' BY <2>1, AdminParts
  <2> QED BY <2>1, <2>3, <2>4, <2>5, <2>6, <2>7, <2>8, RowsKeep, QuietStep
<1>4. CASE frozen.identity # identity
  <2>0. minted + 1 \in 1..MaxCommands
    <3>1. minted \in Nat /\ MaxCommands \in Nat BY AdminParts, AdminConstants
    <3>2. minted + 1 <= MaxCommands BY <1>4 DEF run, Retained
    <3> QED BY <3>1, <3>2
  <2>1. /\ frozen' = [identity |-> identity, body |-> b, inFlight |-> TRUE]
        /\ frozen' \in Frozens /\ b \in Request /\ b.identity = identity /\ b.text = text
        /\ b.key = minted + 1 /\ b.turn = turn' /\ turn' < minted + 1 /\ minted + 1 <= minted'
        /\ minted' \in 0..MaxCommands
        /\ turn' = (IF frozen.identity = Nil \/ minted + 1 <= minted THEN turn ELSE minted)
        /\ turn' \in 0..minted' /\ minted <= minted' /\ turn <= turn'
        /\ UNCHANGED <<pool, taken, fetches, typed, believed>>
        /\ Made' \subseteq Made \cup {b}
    BY <1>4, <2>0, PressedAnother
  <2> HIDE DEF b
  <2>2. frozen'.identity = identity /\ frozen'.body = b BY <2>1
  <2>3. AdminTypes' BY <2>1, AdminParts DEF AdminTypes
  <2>4. TurnIsNew(Made, turn')
    <3>1. TurnIsNew(Made, minted) BY AdminParts, TurnBegins
    <3>2. frozen.identity = Nil => TurnIsNew(Made, turn) BY AdminParts DEF FrozenIsOwn
    <3> QED BY <2>1, <3>1, <3>2, AdminParts
  <2>5. \A c \in Made : c.key # b.key
    <3>1. \A c \in Made : c.key \in Nat /\ c.key <= minted BY AdminParts DEF SentOnce, Request
    <3> QED BY <2>1, <3>1, AdminParts
  <2>6. FrozenIsOwn(frozen', screen'.tab, Made', turn')
    BY <1>1, <2>1, <2>2 DEF FrozenIsOwn, MayPress
  <2>7. ReviewIsOwn(screen'.review, frozen', screen'.tab, Made', minted', turn')
    BY <1>2, <2>2 DEF ReviewIsOwn, MayPress
  <2>8. FetchesAreOwn(fetches', screen'.review, frozen', typed')
    BY <1>2, <2>1, AdminParts DEF FetchesAreOwn
  <2>9. DraftsAreKept(typed', screen'.draft, screen'.tab, frozen')
    BY <2>1, <2>2, AdminParts DEF DraftsAreKept, MayPress
  <2> QED BY <2>1, <2>3, <2>4, <2>5, <2>6, <2>7, <2>8, <2>9, RowsKeep, MakingStep
<1> QED BY <1>3, <1>4

LEMMA RenameKeeps ==
  ASSUME AdminInv, Rename
  PROVE  AdminInv'
<1> DEFINE i == identityOf("set", "name", Nil)
<1>1. screen.tab = "settings" /\ run(i, screen.draft["name"], minted + 1) /\ UNCHANGED screen
  BY DEF Rename, Serves
<1>2. i \in Identity /\ i.on = "name" BY AdminConstants DEF identityOf, Identity, Subject
<1>3. screen.draft["name"] \in Words BY AdminParts, AdminConstants
<1> HIDE DEF i
<1>4. MayPress(i, screen.draft["name"])
  BY <1>1, <1>2, AdminParts DEF MayPress, ReviewIsOwn, Reviews
<1> QED BY <1>1, <1>2, <1>3, <1>4, ButtonKeeps

\* The text of a section other than the name, or nothing in its place.
LEMMA SetTextKeeps ==
  ASSUME AdminInv, NEW s \in Settings \ {"name"}, NEW text \in Words, screen.tab = "settings",
         run(identityOf("set", s, text), text, minted + 1), UNCHANGED screen
  PROVE  AdminInv'
<1> DEFINE i == identityOf("set", s, text)
<1>1. i \in Identity /\ i.on = s BY AdminConstants DEF identityOf, Identity, Subject, Settings
<1>2. s \notin {"name", "note"} BY DEF Settings
<1> HIDE DEF i
<1>3. MayPress(i, text)
  BY <1>1, <1>2, AdminParts DEF MayPress, ReviewIsOwn, Reviews
<1> QED BY <1>1, <1>3, ButtonKeeps DEF i

LEMMA ToggleSignupsKeeps ==
  ASSUME AdminInv, ToggleSignups
  PROVE  AdminInv'
<1> DEFINE i == identityOf("signups", NextSignups, Nil)
<1>1. screen.tab = "settings" /\ run(i, Nil, minted + 1) /\ UNCHANGED screen
  BY DEF ToggleSignups, Serves
<1>2. NextSignups \in {"open", "closed"} BY DEF NextSignups
<1>3. i \in Identity /\ i.on = NextSignups BY <1>2, AdminConstants DEF identityOf, Identity, Subject
<1> HIDE DEF i
<1>4. MayPress(i, Nil)
  BY <1>1, <1>2, <1>3, AdminParts DEF MayPress, ReviewIsOwn, Reviews
<1> QED BY <1>1, <1>3, <1>4, AdminConstants, ButtonKeeps

LEMMA AnnotateKeeps ==
  ASSUME AdminInv, annotate
  PROVE  AdminInv'
<1> DEFINE i == identityOf("annotate", "note", Nil)
<1>1. screen.tab = "history" /\ run(i, screen.draft["note"], minted + 1) /\ UNCHANGED screen
  BY DEF annotate, Serves
<1>2. i \in Identity /\ i.on = "note" BY AdminConstants DEF identityOf, Identity, Subject
<1>3. screen.draft["note"] \in Words BY AdminParts, AdminConstants
<1> HIDE DEF i
<1>4. MayPress(i, screen.draft["note"])
  BY <1>1, <1>2, AdminParts DEF MayPress, ReviewIsOwn, Reviews
<1> QED BY <1>1, <1>2, <1>3, <1>4, ButtonKeeps

LEMMA RestoreKeeps ==
  ASSUME AdminInv, NEW m \in Member, Restore(m)
  PROVE  AdminInv'
<1> DEFINE i == identityOf("restore", m, Nil)
<1>1. /\ screen.tab = "members" /\ screen.review.tag = "idle"
      /\ run(i, Nil, minted + 1) /\ UNCHANGED screen
  BY DEF Restore, Serves
<1>2. i \in Identity /\ i.do = "restore" /\ i.on = m
  BY AdminConstants DEF identityOf, Identity, Subject
<1>3. m \notin {"name", "note"} BY AdminConstants
<1> HIDE DEF i
<1>4. MayPress(i, Nil) BY <1>1, <1>2, <1>3 DEF MayPress
<1> QED BY <1>1, <1>2, <1>4, AdminConstants, ButtonKeeps

LEMMA ConfirmMemberActionKeeps ==
  ASSUME AdminInv, confirmMemberAction
  PROVE  AdminInv'
<1> DEFINE r == screen.review
           q == [screen.review EXCEPT !.tag = "submitting"]
           i == identityOf(r.do, r.on, Nil)
           b == [identity |-> i, text |-> Nil, key |-> r.key, turn |-> turn']
<1>1. /\ r.tag = "reviewing" /\ screen' = [screen EXCEPT !.review.tag = "submitting"]
      /\ run(i, Nil, r.key)
  BY DEF confirmMemberAction
<1>2. /\ r \in Reviews /\ screen.tab = "members" /\ r.key \in 1..minted /\ r.key \in Nat
      /\ r.do \in {"suspend", "transfer"} /\ r.on \in Member
      /\ minted \in Nat /\ minted <= MaxCommands /\ MaxCommands \in Nat
  BY <1>1, AdminParts, AdminConstants DEF ReviewIsOwn
<1>3. i \in Identity /\ i # Nil /\ i.on = r.on /\ Nil \in Words
  BY <1>2, ReviewedIdentity, AdminConstants
<1>4. /\ q \in Reviews /\ q.tag = "submitting" /\ q.do = r.do /\ q.on = r.on /\ q.key = r.key
  BY <1>2 DEF Reviews
<1>5. screen' = [screen EXCEPT !.review = q] BY <1>1, AdminParts DEF Screens
<1> HIDE DEF q
<1>6. /\ screen' \in Screens /\ screen'.tab = screen.tab /\ screen'.review = q
      /\ screen'.draft = screen.draft
  BY <1>4, <1>5, AdminParts DEF Screens
<1>7. \A x \in fetches : x.review = 0 BY <1>1, AdminParts DEF FetchesAreOwn
<1>8. r.key \in 1..MaxCommands /\ r.key <= minted BY <1>2
<1> HIDE DEF i
<1>9. CASE frozen.identity = i
  <2>1. /\ frozen' = [identity |-> i, body |-> frozen.body, inFlight |-> TRUE]
        /\ frozen' \in Frozens /\ frozen.body \in Request /\ frozen.body.identity = i
        /\ UNCHANGED <<pool, taken, fetches, typed, believed, minted, turn>>
        /\ Made' \subseteq Made
    BY <1>1, <1>3, <1>8, <1>9, PressedAgain
  <2>2. frozen'.identity = i /\ frozen'.body = frozen.body BY <2>1
  <2>3. AdminTypes' BY <1>6, <2>1, AdminParts, AdminConstants DEF AdminTypes
  <2>4. FrozenIsOwn(frozen', screen'.tab, Made', turn')
    BY <1>2, <1>3, <1>6, <2>1, <2>2 DEF FrozenIsOwn
  <2>5. IsFrozenFor(r, frozen) BY <1>1, <1>9, AdminParts DEF ReviewIsOwn, i
  <2>6. IsFrozenFor(q, frozen') BY <1>4, <1>9, <2>2, <2>5 DEF IsFrozenFor, i
  <2>7. ReviewIsOwn(screen'.review, frozen', screen'.tab, Made', minted', turn')
    BY <1>2, <1>4, <1>6, <2>1, <2>6 DEF ReviewIsOwn
  <2>8. FetchesAreOwn(fetches', screen'.review, frozen', typed')
    BY <1>7, <2>1, AdminParts DEF FetchesAreOwn
  <2>9. DraftsAreKept(typed', screen'.draft, screen'.tab, frozen')
    BY <1>6, <1>9, <2>1, <2>2, AdminParts DEF DraftsAreKept
  <2>10. minted <= minted' /\ turn <= turn' BY <2>1, AdminParts
  <2> QED BY <2>1, <2>3, <2>4, <2>7, <2>8, <2>9, <2>10, RowsKeep, QuietStep
<1>10. CASE frozen.identity # i
  <2>0. /\ \A c \in Made : c.key # r.key
        /\ TurnIsNew(Made, turn) /\ turn < r.key
    BY <1>1, <1>10, AdminParts DEF ReviewIsOwn, IsFrozenFor, i
  <2>1. /\ frozen' = [identity |-> i, body |-> b, inFlight |-> TRUE]
        /\ frozen' \in Frozens /\ b \in Request /\ b.identity = i /\ b.text = Nil
        /\ b.key = r.key /\ b.turn = turn' /\ turn' < r.key /\ r.key <= minted'
        /\ minted' \in 0..MaxCommands
        /\ turn' = (IF frozen.identity = Nil \/ r.key <= minted THEN turn ELSE minted)
        /\ turn' \in 0..minted' /\ minted <= minted' /\ turn <= turn'
        /\ UNCHANGED <<pool, taken, fetches, typed, believed>>
        /\ Made' \subseteq Made \cup {b}
    BY <1>1, <1>3, <1>8, <1>10, <2>0, PressedAnother
  <2> HIDE DEF b
  <2>2. frozen'.identity = i /\ frozen'.body = b /\ b # Nil BY <2>1, AdminConstants
  <2>3. AdminTypes' BY <1>6, <2>1, AdminParts DEF AdminTypes
  <2>4. TurnIsNew(Made, turn') BY <1>8, <2>0, <2>1
  <2>5. FrozenIsOwn(frozen', screen'.tab, Made', turn')
    BY <1>2, <1>3, <1>6, <2>1, <2>2 DEF FrozenIsOwn
  <2>6. IsFrozenFor(q, frozen') BY <1>4, <2>1, <2>2 DEF IsFrozenFor, i
  <2>7. r.key \in 1..minted' BY <1>2, <2>1
  <2>8. ReviewIsOwn(screen'.review, frozen', screen'.tab, Made', minted', turn')
    BY <1>2, <1>4, <1>6, <2>1, <2>6, <2>7 DEF ReviewIsOwn
  <2>9. FetchesAreOwn(fetches', screen'.review, frozen', typed')
    BY <1>7, <2>1, AdminParts DEF FetchesAreOwn
  <2>10. i.on \notin {"name", "note"} BY <1>2, <1>3, AdminConstants
  <2>11. DraftsAreKept(typed', screen'.draft, screen'.tab, frozen')
    BY <1>6, <2>1, <2>2, <2>10, AdminParts DEF DraftsAreKept
  <2>12. turn' < b.key /\ b.key <= minted' /\ \A c \in Made : c.key # b.key BY <2>0, <2>1
  <2> QED BY <2>1, <2>3, <2>4, <2>5, <2>8, <2>9, <2>11, <2>12, RowsKeep, MakingStep
<1> QED BY <1>9, <1>10

LEMMA FetchParts ==
  ASSUME AdminInv, NEW f \in fetches
  PROVE  /\ f \in Fetches /\ f.of \subseteq Settings /\ Settings \subseteq Section
         /\ f.review # 0 => screen.review.tag = "submitting" /\ frozen.identity = Nil
         /\ \A x \in fetches \ {f} : f.review # 0 => x.review = 0
         /\ \A s \in f.of : typed[s] = Nil
<1>1. f \in Fetches /\ f.of \subseteq Settings BY AdminParts DEF Fetches
<1> QED BY <1>1, AdminParts DEF FetchesAreOwn, Settings

\* A step that neither freezes nor makes a command.
LEMMA FrozenRests ==
  ASSUME AdminInv, UNCHANGED <<taken, calls, frozen, minted, turn>>, screen'.tab = screen.tab
  PROVE  /\ Made' \subseteq Made /\ minted <= minted' /\ turn <= turn'
         /\ FrozenIsOwn(frozen', screen'.tab, Made', turn')
         /\ turn' \in 0..minted' /\ minted' \in 0..MaxCommands
<1>1. Made' = Made BY DEF Made, Rows, Taken
<1>2. MaxCommands \in Nat BY AdminConstants
<1> QED BY <1>1, <1>2, AdminParts

LEMMA ReadPoolKeeps ==
  ASSUME AdminInv, NEW f \in fetches, ReadPool(f)
  PROVE  AdminInv'
<1> DEFINE g == [f EXCEPT !.seen = pool]
<1>1. /\ fetches' = (fetches \ {f}) \cup {g}
      /\ UNCHANGED <<pool, taken, calls, frozen, screen, minted, typed, turn, believed>>
  BY DEF ReadPool
<1>2. g \in Fetches /\ g.of = f.of /\ g.review = f.review
  BY FetchParts, AdminParts DEF Fetches
<1> HIDE DEF g
<1>3. /\ Made' \subseteq Made /\ minted <= minted' /\ turn <= turn'
      /\ FrozenIsOwn(frozen', screen'.tab, Made', turn')
      /\ turn' \in 0..minted' /\ minted' \in 0..MaxCommands
  BY <1>1, FrozenRests
<1>4. AdminTypes' BY <1>1, <1>2, <1>3, AdminParts DEF AdminTypes
<1>5. Made' = Made BY <1>1 DEF Made, Rows, Taken
<1>6. ReviewIsOwn(screen'.review, frozen', screen'.tab, Made', minted', turn')
  BY <1>1, <1>5, AdminParts
<1>7. FetchesAreOwn(fetches', screen'.review, frozen', typed')
  BY <1>1, <1>2, FetchParts, AdminParts DEF FetchesAreOwn
<1>8. DraftsAreKept(typed', screen'.draft, screen'.tab, frozen') BY <1>1, AdminParts
<1> QED BY <1>1, <1>3, <1>4, <1>6, <1>7, <1>8, RowsKeep, QuietStep

\* The review and the fetches once the fetch f has ended.
LEMMA ReviewEnds ==
  ASSUME AdminInv, NEW f \in fetches, screen' \in Screens, screen'.tab = screen.tab,
         screen'.review = Reviewed(f), fetches' = fetches \ {f},
         UNCHANGED <<taken, calls, frozen, minted, typed, turn>>
  PROVE  /\ ReviewIsOwn(screen'.review, frozen', screen'.tab, Made', minted', turn')
         /\ FetchesAreOwn(fetches', screen'.review, frozen', typed')
<1>1. Made' = Made BY DEF Made, Rows, Taken
<1>2. CASE f.review = 0
  <2>1. screen'.review = screen.review BY <1>2 DEF Reviewed
  <2> QED BY <1>1, <2>1, AdminParts DEF FetchesAreOwn
<1>3. CASE f.review # 0
  <2>1. screen'.review = NoReview /\ frozen.identity = Nil /\ \A x \in fetches' : x.review = 0
    BY <1>3, FetchParts DEF Reviewed
  <2>2. ReviewIsOwn(screen'.review, frozen', screen'.tab, Made', minted', turn')
    BY <2>1, AdminConstants DEF ReviewIsOwn, NoReview
  <2> QED BY <2>1, <2>2, AdminParts DEF FetchesAreOwn
<1> QED BY <1>2, <1>3

LEMMA ReviewedIsReview ==
  ASSUME AdminInv, NEW f
  PROVE  Reviewed(f) \in Reviews
BY AdminConstants, AdminParts DEF Reviewed

LEMMA RefreshedKeeps ==
  ASSUME AdminInv, NEW f \in fetches, Refreshed(f)
  PROVE  AdminInv'
<1> DEFINE d == FilledIn(f)
           r == Reviewed(f)
<1>1. /\ f.seen # Nil /\ fetches' = fetches \ {f}
      /\ screen' = [screen EXCEPT !.view = f.seen, !.review = r, !.draft = d]
      /\ UNCHANGED <<pool, taken, calls, frozen, minted, typed, turn, believed>>
  BY DEF Refreshed
<1>2. f.seen \in Pools BY <1>1, FetchParts DEF Fetches
<1>3. /\ d \in [Section -> Words]
      /\ \A s \in Section : s \notin f.of => d[s] = screen.draft[s]
  <2>1. \A s \in f.of : f.seen.setting[s] \in Words BY <1>2, FetchParts DEF Pools
  <2> QED BY <2>1, AdminParts DEF FilledIn
<1>4. r \in Reviews BY ReviewedIsReview
<1> HIDE DEF d, r
<1>5. /\ screen' \in Screens /\ screen'.tab = screen.tab /\ screen'.review = r
      /\ screen'.draft = d
  BY <1>1, <1>2, <1>3, <1>4, AdminParts DEF Screens
<1>6. /\ ReviewIsOwn(screen'.review, frozen', screen'.tab, Made', minted', turn')
      /\ FetchesAreOwn(fetches', screen'.review, frozen', typed')
  BY <1>1, <1>5, ReviewEnds DEF r
<1>7. /\ Made' \subseteq Made /\ minted <= minted' /\ turn <= turn'
      /\ FrozenIsOwn(frozen', screen'.tab, Made', turn')
      /\ turn' \in 0..minted' /\ minted' \in 0..MaxCommands
  BY <1>1, <1>5, FrozenRests
<1>8. AdminTypes' BY <1>1, <1>5, <1>7, AdminParts DEF AdminTypes
<1>9. \A s \in Section : typed[s] # Nil => d[s] = screen.draft[s] BY <1>3, FetchParts
<1>10. DraftsAreKept(typed', screen'.draft, screen'.tab, frozen')
  BY <1>1, <1>5, <1>9, AdminParts, AdminConstants DEF DraftsAreKept
<1> QED BY <1>1, <1>6, <1>7, <1>8, <1>10, RowsKeep, QuietStep

LEMMA LoadFailsOnKeeps ==
  ASSUME AdminInv, NEW f \in fetches, LoadFailsOn(f)
  PROVE  AdminInv'
<1> DEFINE r == Reviewed(f)
<1>1. /\ fetches' = fetches \ {f} /\ screen' = [screen EXCEPT !.broken = TRUE, !.review = r]
      /\ UNCHANGED <<pool, taken, calls, frozen, minted, typed, turn, believed>>
  BY DEF LoadFailsOn
<1>2. r \in Reviews BY ReviewedIsReview
<1> HIDE DEF r
<1>3. /\ screen' \in Screens /\ screen'.tab = screen.tab /\ screen'.review = r
      /\ screen'.draft = screen.draft
  BY <1>1, <1>2, AdminParts DEF Screens
<1>4. /\ ReviewIsOwn(screen'.review, frozen', screen'.tab, Made', minted', turn')
      /\ FetchesAreOwn(fetches', screen'.review, frozen', typed')
  BY <1>1, <1>3, ReviewEnds DEF r
<1>5. /\ Made' \subseteq Made /\ minted <= minted' /\ turn <= turn'
      /\ FrozenIsOwn(frozen', screen'.tab, Made', turn')
      /\ turn' \in 0..minted' /\ minted' \in 0..MaxCommands
  BY <1>1, <1>3, FrozenRests
<1>6. AdminTypes' BY <1>1, <1>3, <1>5, AdminParts DEF AdminTypes
<1>7. DraftsAreKept(typed', screen'.draft, screen'.tab, frozen')
  BY <1>1, <1>3, AdminParts DEF DraftsAreKept
<1> QED BY <1>1, <1>4, <1>5, <1>6, <1>7, RowsKeep, QuietStep

LEMMA ElsewhereChangedKeeps ==
  ASSUME AdminInv, ElsewhereChanged
  PROVE  AdminInv'
<1>1. /\ minted < MaxCommands /\ minted' = minted + 1
      /\ UNCHANGED <<taken, calls, frozen, screen, fetches, typed, turn, believed>>
  BY DEF ElsewhereChanged
<1>2. pool' \in Pools
  <2>1. pool.suspended \in SUBSET Subject BY AdminParts DEF Pools
  <2>2. ASSUME NEW m \in Member, NEW q,
               q = IF m \in pool.suspended THEN pool.suspended \ {m} ELSE pool.suspended \cup {m},
               pool' = [pool EXCEPT !.suspended = q]
        PROVE  pool' \in Pools
    <3>1. m \in Subject BY DEF Subject
    <3>2. q \in SUBSET Subject BY <2>1, <2>2, <3>1
    <3> QED BY <2>2, <3>2, AdminParts DEF Pools
  <2>3. ASSUME NEW s \in Settings, NEW t \in Text, pool' = [pool EXCEPT !.setting[s] = t]
        PROVE  pool' \in Pools
    <3>1. t \in Words BY DEF Words
    <3> QED BY <2>3, <3>1, AdminParts DEF Pools
  <2> QED BY <2>2, <2>3 DEF ElsewhereChanged
<1>3. /\ minted \in Nat /\ minted' \in Nat /\ minted' \in 0..MaxCommands /\ turn' \in 0..minted'
      /\ minted <= minted' /\ turn <= turn'
  BY <1>1, AdminParts, AdminConstants
<1>4. AdminTypes' BY <1>1, <1>2, <1>3, AdminParts DEF AdminTypes
<1>5. Made' = Made BY <1>1 DEF Made, Rows, Taken
<1>6. FrozenIsOwn(frozen', screen'.tab, Made', turn') BY <1>1, <1>5, AdminParts
<1>7. ReviewIsOwn(screen'.review, frozen', screen'.tab, Made', minted', turn')
  <2>1. \A k \in 1..minted : k \in 1..minted' BY <1>1, <1>3
  <2> QED BY <1>1, <1>5, <2>1, AdminParts DEF ReviewIsOwn
<1>8. /\ FetchesAreOwn(fetches', screen'.review, frozen', typed')
      /\ DraftsAreKept(typed', screen'.draft, screen'.tab, frozen')
  BY <1>1, AdminParts
<1>9. Made' \subseteq Made BY <1>5
<1> QED BY <1>1, <1>3, <1>4, <1>6, <1>7, <1>8, <1>9, RowsKeep, QuietStep

\* The command on its way is kept by an error, and its review can be submitted again.
LEMMA FailsToAnswerIsOwn ==
  ASSUME AdminInv, frozen.inFlight, FailsToAnswer, calls' \subseteq calls,
         UNCHANGED <<pool, taken, minted>>
  PROVE  AdminInv'
<1> DEFINE r == screen.review
           q == [screen.review EXCEPT !.tag = StillOpen]
<1>1. /\ frozen' = [frozen EXCEPT !.inFlight = FALSE]
      /\ screen' = [screen EXCEPT !.review.tag = StillOpen]
      /\ UNCHANGED <<fetches, typed, turn, believed>>
  BY DEF FailsToAnswer, KeptByError
<1>2. /\ frozen' \in Frozens /\ frozen'.identity = frozen.identity /\ frozen'.body = frozen.body
      /\ frozen'.inFlight = FALSE
  BY <1>1, AdminParts DEF Frozens
<1>3. r \in Reviews /\ r.tag \in {"idle", "submitting"}
  BY InFlightIsFrozen, AdminParts DEF Reviews
<1>4. StillOpen = IF r.tag = "submitting" THEN "reviewing" ELSE r.tag BY DEF StillOpen
<1>5. /\ q \in Reviews /\ q.tag = StillOpen /\ q.do = r.do /\ q.on = r.on /\ q.key = r.key
      /\ r.tag = "idle" => q = r
  BY <1>3, <1>4 DEF Reviews
<1>6. screen' = [screen EXCEPT !.review = q] BY <1>1, AdminParts DEF Screens
<1> HIDE DEF q
<1>7. /\ screen' \in Screens /\ screen'.tab = screen.tab /\ screen'.review = q
      /\ screen'.draft = screen.draft
  BY <1>5, <1>6, AdminParts DEF Screens
<1>8. Made' \subseteq Made BY <1>2, InFlightIsFrozen, NothingMade
<1>9. /\ minted <= minted' /\ turn <= turn' /\ turn' \in 0..minted' /\ minted' \in 0..MaxCommands
  BY <1>1, AdminParts, AdminConstants
<1>10. AdminTypes' BY <1>1, <1>2, <1>7, <1>9, AdminParts DEF AdminTypes
<1>11. FrozenIsOwn(frozen', screen'.tab, Made', turn')
  BY <1>2, <1>7, InFlightIsFrozen, AdminParts DEF FrozenIsOwn
<1>12. ReviewIsOwn(screen'.review, frozen', screen'.tab, Made', minted', turn')
  <2>1. CASE r.tag = "idle"
    BY <1>2, <1>4, <1>5, <1>7, <2>1, AdminParts DEF ReviewIsOwn
  <2>2. CASE r.tag = "submitting"
    <3>1. IsFrozenFor(q, frozen') BY <1>2, <1>5, <2>2, InFlightIsFrozen DEF IsFrozenFor
    <3>2. q.tag = "reviewing" BY <1>4, <1>5, <2>2
    <3> QED BY <1>1, <1>2, <1>5, <1>7, <2>2, <3>1, <3>2, AdminParts DEF ReviewIsOwn
  <2> QED BY <1>3, <2>1, <2>2
<1>13. FetchesAreOwn(fetches', screen'.review, frozen', typed')
  BY <1>1, InFlightIsFrozen, AdminParts DEF FetchesAreOwn
<1>14. DraftsAreKept(typed', screen'.draft, screen'.tab, frozen')
  BY <1>1, <1>2, <1>7, AdminParts DEF DraftsAreKept
<1> QED BY <1>1, <1>8, <1>9, <1>10, <1>11, <1>12, <1>13, <1>14, RowsKeep, QuietStep

LEMMA GivesUpOnKeeps ==
  ASSUME AdminInv, GivesUpOn
  PROVE  AdminInv'
BY FailsToAnswerIsOwn DEF GivesUpOn

\* What the pool does with the command b.
PoolTakes(b) ==
  \/ UNCHANGED <<pool, taken>>
  \/ taken[b.key] = Nil /\ pool' = Effect(b.identity, b.text) /\ taken' = [taken EXCEPT ![b.key] = b]

LEMMA EffectIsPool ==
  ASSUME AdminInv, NEW i \in Identity, NEW text \in Words
  PROVE  Effect(i, text) \in Pools
<1>1. pool \in Pools /\ i.on \in Subject /\ i.do \in {"set", "signups", "annotate", "restore", "suspend", "transfer"}
  BY AdminParts DEF Identity
<1>2. /\ pool.setting \in [Settings -> Words] /\ pool.notes \in SUBSET Words
      /\ pool.suspended \in SUBSET Subject
  BY <1>1 DEF Pools
<1>3. CASE i.do = "set" BY <1>1, <1>2, <1>3 DEF Effect, Pools
<1>4. CASE i.do = "annotate" BY <1>1, <1>2, <1>4 DEF Effect, Pools
<1>5. CASE i.do = "signups" BY <1>1, <1>2, <1>5 DEF Effect, Pools
<1>6. CASE i.do = "suspend" BY <1>1, <1>2, <1>6 DEF Effect, Pools
<1>7. CASE i.do = "restore" BY <1>1, <1>2, <1>7 DEF Effect, Pools
<1>8. CASE i.do = "transfer" BY <1>1, <1>2, <1>8 DEF Effect, Pools
<1> QED BY <1>1, <1>3, <1>4, <1>5, <1>6, <1>7, <1>8

\* Rows stay, and that of the command, if there is one, is its own.
LEMMA PoolTakesKeeps ==
  ASSUME AdminInv, NEW b \in calls, PoolTakes(b)
  PROVE  /\ pool' \in Pools /\ taken' \in [1..MaxCommands -> Request \cup {Nil}]
         /\ \A k \in Taken' : taken'[k].key = k
         /\ \A k \in Taken : k \in Taken' /\ taken'[k] = taken[k]
         /\ taken'[b.key] # Nil => b.key \in Taken' /\ taken'[b.key] = b
<1>1. b \in Made /\ b \in Request /\ b.key \in 1..MaxCommands
  <2>1. b \in Made BY DEF Made
  <2> QED BY <2>1, AdminParts DEF SentOnce, Request
<1>2. b.identity \in Identity /\ b.text \in Words /\ b # Nil BY <1>1, AdminConstants DEF Request
<1>3. CASE UNCHANGED <<pool, taken>>
  <2>1. taken[b.key] # Nil => b.key \in Taken BY <1>1 DEF Taken
  <2>2. taken[b.key] # Nil => taken[b.key] \in Made BY <2>1 DEF Made, Rows
  <2>3. taken[b.key] # Nil => taken[b.key] = b BY <1>1, <2>1, <2>2, AdminParts DEF SentOnce
  <2>4. Taken' = Taken BY <1>3 DEF Taken
  <2> QED BY <1>3, <2>1, <2>3, <2>4, AdminParts
<1>4. CASE taken[b.key] = Nil /\ pool' = Effect(b.identity, b.text)
           /\ taken' = [taken EXCEPT ![b.key] = b]
  <2>1. pool' \in Pools BY <1>2, <1>4, EffectIsPool
  <2>2. /\ taken' \in [1..MaxCommands -> Request \cup {Nil}] /\ taken'[b.key] = b
        /\ \A k \in 1..MaxCommands : k # b.key => taken'[k] = taken[k]
    BY <1>1, <1>4, AdminParts
  <2>3. /\ \A k \in Taken : k # b.key BY <1>4 DEF Taken
  <2>4. Taken' = Taken \cup {b.key} BY <1>1, <1>2, <2>2, <2>3 DEF Taken
  <2>5. \A k \in Taken : k \in 1..MaxCommands BY DEF Taken
  <2> QED BY <2>1, <2>2, <2>3, <2>4, <2>5, AdminParts
<1> QED BY <1>3, <1>4 DEF PoolTakes

\* The pool takes a command whose answer nobody awaits.
LEMMA UnheardKeeps ==
  ASSUME AdminInv, NEW b \in calls, PoolTakes(b), calls' = calls \ {b},
         UNCHANGED <<frozen, screen, fetches, typed, turn, believed, minted>>
  PROVE  AdminInv'
<1>1. Made' \subseteq Made
  <2>1. UNCHANGED taken \/ \E c \in calls : taken' = [taken EXCEPT ![c.key] = c] BY DEF PoolTakes
  <2>2. frozen'.identity = Nil \/ (frozen.identity # Nil /\ frozen'.body = frozen.body) OBVIOUS
  <2> QED BY <2>1, <2>2, NothingMade
<1>2. /\ minted <= minted' /\ turn <= turn' /\ turn' \in 0..minted' /\ minted' \in 0..MaxCommands
  BY AdminParts, AdminConstants
<1>3. AdminTypes' BY <1>2, PoolTakesKeeps, AdminParts DEF AdminTypes
<1>4. FrozenIsOwn(frozen', screen'.tab, Made', turn')
  <2>1. frozen.identity = Nil => TurnIsNew(Made', turn)
    BY <1>1, AdminParts, FewerAreNew DEF FrozenIsOwn
  <2> QED BY <2>1, AdminParts DEF FrozenIsOwn
<1>5. ReviewIsOwn(screen'.review, frozen', screen'.tab, Made', minted', turn')
  BY <1>1, AdminParts DEF ReviewIsOwn, TurnIsNew
<1>6. /\ FetchesAreOwn(fetches', screen'.review, frozen', typed')
      /\ DraftsAreKept(typed', screen'.draft, screen'.tab, frozen')
  BY AdminParts
<1>7. ReviewsAreDone' BY PoolTakesKeeps, AdminParts DEF ReviewsAreDone
<1> QED BY <1>1, <1>2, <1>3, <1>4, <1>5, <1>6, <1>7, PoolTakesKeeps, QuietStep

\* A success ends the command, and starts the fetch that will end its review.
LEMMA SucceedsKeeps ==
  ASSUME AdminInv, NEW b \in calls, PoolTakes(b), calls' = calls \ {b}, UNCHANGED minted,
         frozen.inFlight, frozen.body = b, taken'[b.key] # Nil, Succeeds
  PROVE  AdminInv'
<1> DEFINE i == frozen.identity
           r == screen.review
           g == Fetch(Saved(i), r.key)
           w == screen.broken /\ screen.tab # "members"
<1>1. /\ frozen' = Thawed /\ turn' = minted /\ fetches' = fetches \cup {g}
      /\ typed' = [s \in Section |-> IF s = i.on THEN Nil ELSE typed[s]]
      /\ believed' = believed \cup ({<<r.key, r.do, r.on>>} \ {<<0, "none", Nil>>})
      /\ screen' = [screen EXCEPT !.broken = w, !.draft["note"] = Nil]
  BY DEF Succeeds
<1>2. /\ r \in Reviews /\ r.tag \in {"idle", "submitting"} /\ r.key \in 0..MaxCommands
      /\ r.tag = "idle" => r = NoReview
  BY InFlightIsFrozen, AdminParts DEF Reviews, ReviewIsOwn
<1>3. /\ g \in Fetches /\ g.review = r.key /\ \A s \in g.of : s = i.on /\ s \in Section
  BY <1>2, AdminConstants DEF Fetch, Fetches, Saved, Settings
<1>4. w \in BOOLEAN OBVIOUS
<1> HIDE DEF g, w
<1>5. /\ screen' \in Screens /\ screen'.tab = screen.tab /\ screen'.review = r
      /\ screen'.draft = [screen.draft EXCEPT !["note"] = Nil]
  BY <1>1, <1>4, AdminParts, AdminConstants DEF Screens
<1>6. Made' \subseteq Made
  <2>1. UNCHANGED taken \/ \E c \in calls : taken' = [taken EXCEPT ![c.key] = c] BY DEF PoolTakes
  <2> QED BY <1>1, <2>1, AdminConstants, NothingMade
<1>7. /\ FrozenIsOwn(frozen', screen'.tab, Made', turn') /\ turn <= turn'
      /\ turn' \in 0..minted' /\ minted' \in 0..MaxCommands /\ frozen' \in Frozens
  BY <1>1, <1>6, ThawedStep
<1>8. typed' \in [Section -> Words] BY <1>1, AdminParts, AdminConstants
<1>9. AdminTypes' BY <1>1, <1>3, <1>5, <1>7, <1>8, PoolTakesKeeps, AdminParts DEF AdminTypes
<1>10. ReviewIsOwn(screen'.review, frozen', screen'.tab, Made', minted', turn')
  BY <1>1, <1>2, <1>5, AdminParts, AdminConstants DEF ReviewIsOwn
<1>11. FetchesAreOwn(fetches', screen'.review, frozen', typed')
  <2>1. \A x \in fetches : x.review = 0 BY InFlightIsFrozen
  <2>2. r.key # 0 => r.tag = "submitting" BY <1>2, AdminConstants
  <2>3. ASSUME NEW x \in fetches', NEW s \in x.of PROVE typed'[s] = Nil
    <3>1. CASE x \in fetches
      <4>1. s \in Section /\ typed[s] = Nil BY <2>3, <3>1, FetchParts
      <4> QED BY <1>1, <4>1
    <3>2. CASE x = g BY <1>1, <1>3, <2>3, <3>2
    <3> QED BY <1>1, <3>1, <3>2
  <2>4. frozen'.identity = Nil BY <1>1, AdminConstants
  <2> QED BY <1>1, <1>3, <1>5, <2>1, <2>2, <2>3, <2>4 DEF FetchesAreOwn
<1>12. DraftsAreKept(typed', screen'.draft, screen'.tab, frozen')
  <2> SUFFICES ASSUME NEW s \in Section, typed'[s] # Nil
               PROVE  screen'.draft[s] = typed'[s] /\ screen'.tab = Home(s)
    BY <1>1, AdminConstants DEF DraftsAreKept
  <2>1. s # i.on /\ typed'[s] = typed[s] BY <1>1
  <2>2. screen.draft[s] = typed[s] /\ screen.tab = Home(s)
    BY <2>1, AdminParts DEF DraftsAreKept
  <2>3. s # "note"
    <3>1. s = "note" => screen.tab = "history" BY <2>2 DEF Home, Settings
    <3> QED BY <2>1, <3>1, InFlightIsFrozen, AdminParts DEF FrozenIsOwn
  <2> QED BY <1>5, <2>1, <2>2, <2>3, AdminParts
<1>13. ReviewsAreDone'
  <2>1. ASSUME r.tag = "submitting"
        PROVE  r.key \in Taken' /\ taken'[r.key].identity = identityOf(r.do, r.on, Nil)
    <3>1. r.key = b.key /\ frozen.identity = identityOf(r.do, r.on, Nil)
      BY <2>1, InFlightIsFrozen DEF IsFrozenFor
    <3>2. b.identity = frozen.identity BY InFlightIsFrozen, FrozenIsMade
    <3> QED BY <3>1, <3>2, PoolTakesKeeps
  <2>2. r.tag = "idle" => <<r.key, r.do, r.on>> = <<0, "none", Nil>> BY <1>2 DEF NoReview
  <2> SUFFICES ASSUME NEW x \in believed'
               PROVE  x[1] \in Taken' /\ taken'[x[1]].identity = identityOf(x[2], x[3], Nil)
    BY DEF ReviewsAreDone
  <2>3. CASE x \in believed BY <2>3, PoolTakesKeeps, AdminParts DEF ReviewsAreDone
  <2>4. CASE x = <<r.key, r.do, r.on>> /\ r.tag = "submitting" BY <2>1, <2>4
  <2> QED BY <1>1, <1>2, <2>2, <2>3, <2>4
<1>14. minted <= minted' BY AdminParts
<1> QED BY <1>6, <1>7, <1>9, <1>10, <1>11, <1>12, <1>13, <1>14, PoolTakesKeeps, QuietStep

LEMMA TakeCommandKeeps ==
  ASSUME AdminInv, NEW b \in calls, NEW heard \in BOOLEAN, TakeCommand(b, heard)
  PROVE  AdminInv'
<1>1. /\ calls' = calls \ {b} /\ UNCHANGED minted
      /\ heard => frozen.inFlight /\ frozen.body = b
  BY DEF TakeCommand
<1>2. PICK ok \in BOOLEAN :
        /\ taken[b.key] # Nil => ok
        /\ IF ok /\ taken[b.key] = Nil
             THEN /\ Obeyed(b.identity)
                  /\ pool' = Effect(b.identity, b.text)
                  /\ taken' = [taken EXCEPT ![b.key] = b]
             ELSE UNCHANGED <<pool, taken>>
        /\ IF ~heard THEN UNCHANGED <<frozen, screen, fetches, typed, turn, believed>>
           ELSE IF ok THEN Succeeds ELSE FailsToAnswer
  BY DEF TakeCommand
<1>3. PoolTakes(b) BY <1>2 DEF PoolTakes
<1>4. CASE ~heard BY <1>1, <1>2, <1>3, <1>4, UnheardKeeps
<1>5. CASE heard /\ ok
  <2>1. taken'[b.key] # Nil
    <3>1. b \in Request /\ b.key \in 1..MaxCommands /\ b # Nil
      <4>1. b \in Made BY DEF Made
      <4> QED BY <4>1, AdminParts, AdminConstants DEF SentOnce, Request
    <3> QED BY <1>2, <1>5, <3>1, AdminParts
  <2> QED BY <1>1, <1>2, <1>3, <1>5, <2>1, SucceedsKeeps
<1>6. CASE heard /\ ~ok BY <1>1, <1>2, <1>6, FailsToAnswerIsOwn
<1> QED BY <1>4, <1>5, <1>6

LEMMA AdminInitially == AdminInit => AdminInv
<1> SUFFICES ASSUME AdminInit PROVE AdminInv OBVIOUS
<1>1. /\ pool = [setting |-> [s \in Settings |-> Unset], notes |-> {}, signups |-> "open",
                 suspended |-> {}, commissioner |-> Nil]
      /\ taken = [k \in 1..MaxCommands |-> Nil] /\ calls = {} /\ frozen = Thawed /\ fetches = {}
      /\ minted = 0 /\ turn = 0 /\ believed = {} /\ typed = Blank
      /\ screen = [tab |-> "none", view |-> Nil, broken |-> FALSE, draft |-> Blank,
                   review |-> NoReview]
  BY DEF AdminInit
<1>2. pool \in Pools BY <1>1 DEF Pools, Words, Subject
<1>3. /\ screen \in Screens /\ screen.tab = "none" /\ screen.draft = Blank
      /\ screen.review = NoReview
  BY <1>1, AdminConstants DEF Screens
<1>4. minted \in 0..MaxCommands /\ turn \in 0..minted BY <1>1, AdminConstants
<1>5. AdminTypes BY <1>1, <1>2, <1>3, <1>4, AdminConstants DEF AdminTypes
<1>6. Taken = {} BY <1>1 DEF Taken
<1>7. Made = {} BY <1>1, <1>6, AdminConstants DEF Made, Rows
<1>8. SentOnce(Made, minted, turn) BY <1>7 DEF SentOnce
<1>9. FrozenIsOwn(frozen, screen.tab, Made, turn)
  BY <1>1, <1>7, AdminConstants DEF FrozenIsOwn, TurnIsNew
<1>10. ReviewIsOwn(screen.review, frozen, screen.tab, Made, minted, turn)
  BY <1>1, <1>3, AdminConstants DEF ReviewIsOwn
<1>11. FetchesAreOwn(fetches, screen.review, frozen, typed) BY <1>1 DEF FetchesAreOwn
<1>12. DraftsAreKept(typed, screen.draft, screen.tab, frozen)
  BY <1>1, AdminConstants DEF DraftsAreKept
<1>13. ReviewsAreDone BY <1>1 DEF ReviewsAreDone
<1> QED BY <1>5, <1>6, <1>8, <1>9, <1>10, <1>11, <1>12, <1>13 DEF AdminInv

LEMMA AdminStep ==
  ASSUME AdminInv, [AdminNext]_adminVars
  PROVE  AdminInv'
<1>1. CASE \E tab \in {"settings", "members", "history"} : OpenPageOf(tab)
  BY <1>1, OpenPageOfKeeps
<1>2. CASE \E s \in Section : SaveText(s)
  <2>1. PICK s \in Section : SaveText(s) BY <1>2
  <2>2. /\ screen.tab = "settings" /\ s \in Settings \ {"name"} /\ UNCHANGED screen
        /\ run(identityOf("set", s, screen.draft[s]), screen.draft[s], minted + 1)
    BY <2>1 DEF SaveText, Serves
  <2>3. screen.draft[s] \in Words BY AdminParts
  <2> QED BY <2>2, <2>3, SetTextKeeps
<1>3. CASE \E s \in Section : ClearText(s)
  <2>1. PICK s \in Section : ClearText(s) BY <1>3
  <2>2. /\ screen.tab = "settings" /\ s \in Settings \ {"name"} /\ UNCHANGED screen
        /\ run(identityOf("set", s, Unset), Unset, minted + 1)
    BY <2>1 DEF ClearText, Serves
  <2>3. Unset \in Words BY DEF Words
  <2> QED BY <2>2, <2>3, SetTextKeeps
<1>4. CASE \E s \in Section, t \in Text : Type(s, t) BY <1>4, TypeKeeps
<1>5. CASE Rename BY <1>5, RenameKeeps
<1>6. CASE ToggleSignups BY <1>6, ToggleSignupsKeeps
<1>7. CASE annotate BY <1>7, AnnotateKeeps
<1>8. CASE \E m \in Member : Restore(m) BY <1>8, RestoreKeeps
<1>9. CASE \E m \in Member, do \in {"suspend", "transfer"} : beginConfirmation(m, do)
  BY <1>9, BeginConfirmationKeeps
<1>10. CASE confirmMemberAction BY <1>10, ConfirmMemberActionKeeps
<1>11. CASE cancelConfirmation BY <1>11, CancelConfirmationKeeps
<1>12. CASE GivesUpOn BY <1>12, GivesUpOnKeeps
<1>13. CASE \E f \in fetches : ReadPool(f) \/ Refreshed(f) \/ LoadFailsOn(f)
  BY <1>13, ReadPoolKeeps, RefreshedKeeps, LoadFailsOnKeeps
<1>14. CASE \E b \in calls, heard \in BOOLEAN : TakeCommand(b, heard) BY <1>14, TakeCommandKeeps
<1>15. CASE ElsewhereChanged BY <1>15, ElsewhereChangedKeeps
<1>16. CASE UNCHANGED adminVars
  <2>1. /\ UNCHANGED <<taken, calls, frozen, screen, minted, turn, fetches, typed, believed>>
        /\ pool' = pool /\ screen'.tab = screen.tab
    BY <1>16 DEF adminVars
  <2>2. Made' = Made /\ Made' \subseteq Made BY <2>1 DEF Made, Rows, Taken
  <2>3. /\ minted <= minted' /\ turn <= turn' /\ turn' \in 0..minted' /\ minted' \in 0..MaxCommands
        /\ FrozenIsOwn(frozen', screen'.tab, Made', turn')
    BY <2>1, FrozenRests
  <2>4. AdminTypes' BY <2>1, <2>3, AdminParts DEF AdminTypes
  <2>5. /\ ReviewIsOwn(screen'.review, frozen', screen'.tab, Made', minted', turn')
        /\ FetchesAreOwn(fetches', screen'.review, frozen', typed')
        /\ DraftsAreKept(typed', screen'.draft, screen'.tab, frozen')
    BY <2>1, <2>2, AdminParts
  <2> QED BY <2>1, <2>2, <2>3, <2>4, <2>5, RowsKeep, QuietStep
<1> QED BY <1>1, <1>2, <1>3, <1>4, <1>5, <1>6, <1>7, <1>8, <1>9, <1>10, <1>11, <1>12, <1>13,
           <1>14, <1>15, <1>16
        DEF AdminNext

(* The theorem *)

LEMMA AdminImplies == AdminInv => PagesAreTrue
<1> SUFFICES ASSUME AdminInv PROVE PagesAreTrue OBVIOUS
<1>1. PressedOnce
  <2> SUFFICES ASSUME NEW k \in Taken, NEW l \in Taken,
                      taken[k].identity = taken[l].identity, taken[k].turn = taken[l].turn
               PROVE  k = l
    BY DEF PressedOnce
  <2>1. taken[k] \in Made /\ taken[l] \in Made BY DEF Made, Rows
  <2>2. taken[k] = taken[l] BY <2>1, AdminParts DEF SentOnce
  <2> QED BY <2>2, AdminParts
<1>2. DraftsSurvive BY AdminParts DEF DraftsAreKept, DraftsSurvive
<1> QED BY <1>1, <1>2, AdminParts DEF PagesAreTrue

\* Whatever members, sections and texts there are, however often a button is pressed,
\* whatever is lost, late or done on another page: a command is executed once, a review
\* shown as done was done, and saving one section leaves the drafts of the others.
THEOREM PagesAreAlwaysTrue == AdminSpec => []PagesAreTrue
<1>1. AdminInit => AdminInv BY AdminInitially
<1>2. AdminInv /\ [AdminNext]_adminVars => AdminInv' BY AdminStep
<1>3. AdminInv => PagesAreTrue BY AdminImplies
<1> QED BY <1>1, <1>2, <1>3, PTL DEF AdminSpec
-----------------------------------------------------------------------------
(***************************************************************************)
(* OddsBoard: what the tray, the batch and the slips of an odds board say. *)
(* Continuations of pages that are gone only carry on placing: they share  *)
(* no entry with the page that is shown.                                   *)
(***************************************************************************)

(* The inductive invariant *)

Item       == [pick : Pick, wager : Nat]
TrayEntry  == [item : Item, key : Nat]
PageShown  == [slug : Slug \cup {Elsewhere}, visit : Nat, pending : BOOLEAN]
PageJob    == [kind : {"quote", "place", "transfer"}, slug : Slug, visit : Nat,
               tray : SUBSET Item, drop : SUBSET Item, todo : SUBSET (Item \cup TrayEntry),
               entries : SUBSET TrayEntry, placed : SUBSET TrayEntry,
               failed : SUBSET TrayEntry, retry : SUBSET TrayEntry,
               loaded : BOOLEAN, lost : SUBSET Pick]
PageBatch  == [tag : {"none", "quoting", "reviewing", "placing", "results"},
               entries : SUBSET TrayEntry, placed : SUBSET TrayEntry,
               failed : SUBSET TrayEntry, reviewed : SUBSET TrayEntry]

\* A tray holds one side of a market.
OneSideEach(items) ==
  /\ items \in SUBSET Item /\ IsFiniteSet(items)
  /\ \A i, k \in items : i # k => i.pick # k.pick /\ <<i.pick, k.pick>> \notin Sibling

\* One entry for each pool.
BySlug(f) == f = [s \in Slug |-> f[s]]

TraysAreSound(rows) == BySlug(rows) /\ \A s \in Slug : OneSideEach(rows[s])

TrayTypes ==
  /\ at \in PageShown /\ batch \in PageBatch /\ jobs \in SUBSET PageJob
  /\ TraysAreSound(stored) /\ BySlug(slips)
  /\ count \in [item : Nat, key : Nat]

OffersPicks == slate \subseteq Pick /\ league \in [filter : BOOLEAN, board : SUBSET Pick]

\* The page a shows the tray t; a transfer is pending on no batch b.
TrayShows(a, t, rows, b) ==
  /\ a.slug # Elsewhere => t = rows[a.slug]
  /\ a.slug = Elsewhere => t = {} /\ b.tag = "none"
  /\ a.pending => b.tag = "none"
  /\ \A e \in b.placed : e.item \notin t

\* The sets split an entry's fate: still to do, placed, refused or unresolved.
Split(all, a, b, c) == all = a \cup b \cup c /\ a \cap (b \cup c) = {} /\ b \cap c = {}

Truthful(placed, failed, kept) ==
  /\ \A e \in placed : Bet(e) \in kept
  /\ \A e \in failed : Bet(e) \notin kept

\* A placement under way, and what a batch says, each by itself.
PlaceIsSound(j, kept) ==
  /\ Split(j.entries, j.todo, j.placed, j.failed \cup j.retry)
  /\ j.failed \cap j.retry = {}
  /\ Truthful(j.placed, j.failed, kept)

BatchIsSound(b, kept) ==
  /\ b.tag \in {"none", "quoting"} => b.reviewed = {}
  /\ Split(b.reviewed, b.entries, b.placed, b.failed)
  /\ Truthful(b.placed, b.failed, kept)

\* The job at work on the batch of the page a.
AtWork(j, a) == a.slug = j.slug /\ a.visit = j.visit /\ j.kind \in {"quote", "place"}

JobFollows(j, a, t, b, kept) ==
  /\ j.visit <= a.visit
  /\ j.kind = "quote" => j.todo \subseteq j.tray
  /\ AtWork(j, a) => t = j.tray
  /\ AtWork(j, a) /\ j.kind = "quote" => b.tag = "quoting"
  /\ AtWork(j, a) /\ j.kind = "place" => b.tag = "placing" /\ j.entries = b.entries
  /\ ~(AtWork(j, a) /\ j.kind = "place") => j.entries \cap b.reviewed = {}
  /\ j.kind = "place" => PlaceIsSound(j, kept)

\* Every entry there is, each under a key of its own.
AllEntries(js, b) == b.reviewed \cup UNION {j.entries : j \in js}

KeysAreOwn(es, n) ==
  /\ \A e \in es : e.key \in Nat /\ e.key <= n
  /\ \A e, f \in es : e.key = f.key => e = f

JobsAreApart(js, a) ==
  \A j, k \in js : j # k => j.entries \cap k.entries = {} /\ ~(AtWork(j, a) /\ AtWork(k, a))

JobsAreSound(js, a, t, b, kept, n) ==
  /\ \A j \in js : JobFollows(j, a, t, b, kept)
  /\ JobsAreApart(js, a)
  /\ KeysAreOwn(AllEntries(js, b), n)

\* Job k has the entries of job j and at most one more, with the next key n2.
Extends(k, j, new, n, n2) ==
  /\ k.entries \subseteq j.entries \cup new
  /\ \A e \in new : e.key = n2 /\ n < n2
  /\ \A e, f \in new : e = f

TrayInv ==
  /\ TrayTypes
  /\ TrayShows(at, tray, stored, batch)
  /\ BatchIsSound(batch, held)
  /\ JobsAreSound(jobs, at, tray, batch, held, count.key)

-----------------------------------------------------------------------------
(* Lemmas about jobs *)

\* Where no job is at work, page, tray and batch may change, as long as the batch
\* takes no entry of a job that goes on.
LEMMA JobsRest ==
  ASSUME NEW js, NEW a, NEW t, NEW b, NEW kept, NEW n,
         JobsAreSound(js, a, t, b, kept, n),
         NEW js2, js2 \subseteq js, NEW a2, NEW t2, NEW b2,
         \A k \in js2 : ~AtWork(k, a2) /\ k.visit <= a2.visit /\ k.entries \cap b2.reviewed = {},
         b2.reviewed \subseteq AllEntries(js, b)
  PROVE  JobsAreSound(js2, a2, t2, b2, kept, n)
<1>1. \A k \in js2 : JobFollows(k, a2, t2, b2, kept) BY DEF JobsAreSound, JobFollows
<1>2. JobsAreApart(js2, a2) BY DEF JobsAreSound, JobsAreApart
<1>3. AllEntries(js2, b2) \subseteq AllEntries(js, b) BY DEF AllEntries
<1>4. KeysAreOwn(AllEntries(js2, b2), n) BY <1>3 DEF JobsAreSound, KeysAreOwn
<1> QED BY <1>1, <1>2, <1>4 DEF JobsAreSound

\* Jobs end on a page that stays.
LEMMA JobsFewer ==
  ASSUME NEW js, NEW a, NEW t, NEW b, NEW kept, NEW n,
         JobsAreSound(js, a, t, b, kept, n),
         NEW js2, js2 \subseteq js, NEW a2, a2.slug = a.slug, a2.visit = a.visit
  PROVE  JobsAreSound(js2, a2, t, b, kept, n)
<1>1. \A k \in js2 : JobFollows(k, a2, t, b, kept)
  BY DEF JobsAreSound, JobFollows, AtWork
<1>2. JobsAreApart(js2, a2) BY DEF JobsAreSound, JobsAreApart, AtWork
<1>3. AllEntries(js2, b) \subseteq AllEntries(js, b) BY DEF AllEntries
<1>4. KeysAreOwn(AllEntries(js2, b), n) BY <1>3 DEF JobsAreSound, KeysAreOwn
<1> QED BY <1>1, <1>2, <1>4 DEF JobsAreSound

\* A job starts where none is at work, on entries of the batch or on none.
LEMMA JobStarts ==
  ASSUME NEW js, NEW a, NEW t, NEW b, NEW kept, NEW n,
         JobsAreSound(js, a, t, b, kept, n),
         NEW a2, NEW b2, NEW k, JobFollows(k, a2, t, b2, kept),
         \A x \in js : /\ ~AtWork(x, a2) /\ x.visit <= a2.visit
                       /\ x.entries \cap b2.reviewed = {} /\ x.entries \cap k.entries = {},
         k.entries \subseteq b.reviewed, b2.reviewed \subseteq b.reviewed
  PROVE  JobsAreSound(js \cup {k}, a2, t, b2, kept, n)
<1>1. \A x \in js : JobFollows(x, a2, t, b2, kept) BY DEF JobsAreSound, JobFollows
<1>2. JobsAreApart(js \cup {k}, a2) BY DEF JobsAreSound, JobsAreApart
<1>3. AllEntries(js \cup {k}, b2) \subseteq AllEntries(js, b) BY DEF AllEntries
<1>4. KeysAreOwn(AllEntries(js \cup {k}, b2), n) BY <1>3 DEF JobsAreSound, KeysAreOwn
<1> QED BY <1>1, <1>2, <1>4 DEF JobsAreSound

\* A job goes on with its entries and at most one more, under a new key.
LEMMA JobGoesOn ==
  ASSUME NEW js, NEW a, NEW t, NEW b, NEW kept, NEW n \in Nat,
         JobsAreSound(js, a, t, b, kept, n),
         NEW j \in js, NEW k, AtWork(k, a) => AtWork(j, a),
         NEW kept2, \A x \in js \ {j} : JobFollows(x, a, t, b, kept2),
         JobFollows(k, a, t, b, kept2),
         NEW n2 \in Nat, n <= n2, NEW new, Extends(k, j, new, n, n2)
  PROVE  JobsAreSound((js \ {j}) \cup {k}, a, t, b, kept2, n2)
<1> DEFINE js2 == (js \ {j}) \cup {k}
<1>1. \A x \in js2 : JobFollows(x, a, t, b, kept2) OBVIOUS
<1>2. \A x \in js : x.entries \subseteq AllEntries(js, b) BY DEF AllEntries
<1>3. \A e \in AllEntries(js, b) : e.key \in Nat /\ e.key <= n
  BY DEF JobsAreSound, KeysAreOwn
<1>4. \A e \in new : e \notin AllEntries(js, b) BY <1>3 DEF Extends
<1>5. \A x \in js \ {j} : x.entries \cap k.entries = {} /\ ~(AtWork(x, a) /\ AtWork(k, a))
  BY <1>2, <1>4 DEF JobsAreSound, JobsAreApart, Extends
<1>6. JobsAreApart(js2, a) BY <1>5 DEF JobsAreSound, JobsAreApart
<1>7. AllEntries(js2, b) \subseteq AllEntries(js, b) \cup new BY DEF AllEntries, Extends
<1>8. KeysAreOwn(AllEntries(js, b) \cup new, n2)
  <2>1. \A e \in AllEntries(js, b) \cup new : e.key \in Nat /\ e.key <= n2
    BY <1>3 DEF Extends
  <2>2. \A e, f \in AllEntries(js, b) \cup new : e.key = f.key => e = f
    BY <1>3 DEF JobsAreSound, KeysAreOwn, Extends
  <2> QED BY <2>1, <2>2 DEF KeysAreOwn
<1>9. KeysAreOwn(AllEntries(js2, b), n2) BY <1>7, <1>8 DEF KeysAreOwn
<1> HIDE DEF js2
<1>10. JobsAreSound(js2, a, t, b, kept2, n2) BY <1>1, <1>6, <1>9 DEF JobsAreSound
<1> QED BY <1>10 DEF js2

\* The parts of the invariant in the current state.
LEMMA TrayParts ==
  ASSUME TrayInv
  PROVE  /\ at.slug \in Slug \cup {Elsewhere} /\ at.visit \in Nat /\ at.pending \in BOOLEAN
         /\ tray \in SUBSET Item /\ OneSideEach(tray)
         /\ Elsewhere \notin Slug
         /\ count.item \in Nat /\ count.key \in Nat
         /\ \A j \in jobs : j \in PageJob /\ j.slug \in Slug /\ j.visit \in Nat
                            /\ j.visit <= at.visit
         /\ at.slug = Elsewhere => batch.tag = "none"
         /\ batch.tag = "none" => batch.placed = {} /\ batch.reviewed = {}
                                  /\ batch.entries = {} /\ batch.failed = {}
         /\ batch.tag \in {"none", "reviewing", "results"} => \A j \in jobs : ~AtWork(j, at)
         /\ \A j \in jobs : ~AtWork(j, at) => j.entries \cap batch.reviewed = {}
<1>1. at \in PageShown /\ \A s \in Slug : OneSideEach(stored[s])
  BY DEF TrayInv, TrayTypes, TraysAreSound
<1>2. at.slug \in Slug \cup {Elsewhere} /\ at.visit \in Nat /\ at.pending \in BOOLEAN
  BY <1>1 DEF PageShown
<1>3. OneSideEach({}) BY FS_EmptySet DEF OneSideEach
<1>4. OneSideEach(tray)
  <2>1. CASE at.slug = Elsewhere BY <1>3, <2>1 DEF TrayInv, TrayShows
  <2>2. CASE at.slug # Elsewhere BY <1>1, <1>2, <2>2 DEF TrayInv, TrayShows
  <2> QED BY <2>1, <2>2
<1>5. tray \in SUBSET Item BY <1>4 DEF OneSideEach
<1>6. count.item \in Nat /\ count.key \in Nat BY DEF TrayInv, TrayTypes
<1>7. \A j \in jobs : j \in PageJob BY DEF TrayInv, TrayTypes
<1>8. \A j \in jobs : JobFollows(j, at, tray, batch, held) BY DEF TrayInv, JobsAreSound
<1>9. batch.tag = "none" => batch.placed = {} /\ batch.reviewed = {} /\ batch.entries = {}
                            /\ batch.failed = {}
  BY DEF TrayInv, BatchIsSound, Split
<1>10. batch.tag \in {"none", "reviewing", "results"} => \A j \in jobs : ~AtWork(j, at)
  BY <1>8 DEF JobFollows, AtWork
<1>11. \A j \in jobs : ~AtWork(j, at) => j.entries \cap batch.reviewed = {}
  BY <1>8 DEF JobFollows
<1>12. \A j \in jobs : j.slug \in Slug /\ j.visit \in Nat /\ j.visit <= at.visit
  BY <1>7, <1>8 DEF PageJob, JobFollows
<1>13. at.slug = Elsewhere => batch.tag = "none" BY DEF TrayInv, TrayShows
<1> QED BY <1>2, <1>4, <1>5, <1>6, <1>7, <1>9, <1>10, <1>11, <1>12, <1>13, TrayAssumption

-----------------------------------------------------------------------------
(* Steps *)

LEMMA TrayInitially == BoardPageInit => TrayInv
<1> SUFFICES ASSUME BoardPageInit PROVE TrayInv OBVIOUS
<1>1. PICK s \in Slug : at = [slug |-> s, visit |-> 1, pending |-> FALSE]
  BY DEF BoardPageInit
<1>2. /\ batch = NoBatch /\ jobs = {} /\ stored = [x \in Slug |-> {}] /\ tray = {}
      /\ slips = [x \in Slug |-> {}] /\ count = [item |-> 0, key |-> 0]
  BY DEF BoardPageInit
<1>3. OneSideEach({}) BY FS_EmptySet DEF OneSideEach
<1>4. at \in PageShown BY <1>1 DEF PageShown
<1>5. batch \in PageBatch BY <1>2 DEF PageBatch, NoBatch
<1>6. TrayTypes BY <1>2, <1>3, <1>4, <1>5 DEF TrayTypes, TraysAreSound, BySlug
<1>7. TrayShows(at, tray, stored, batch) BY <1>1, <1>2, TrayAssumption DEF TrayShows, NoBatch
<1>8. BatchIsSound(batch, held) BY <1>2 DEF BatchIsSound, NoBatch, Split, Truthful
<1>9. AllEntries(jobs, batch) = {} BY <1>2 DEF AllEntries, NoBatch
<1>10. JobsAreSound(jobs, at, tray, batch, held, count.key)
  BY <1>2, <1>9 DEF JobsAreSound, JobsAreApart, KeysAreOwn
<1> QED BY <1>6, <1>7, <1>8, <1>10 DEF TrayInv

\* The board and the filter may change at any time.
LEMMA BoardMovesKeeps ==
  ASSUME TrayInv, UNCHANGED <<at, stored, tray, batch, jobs, slips, held, count>>
  PROVE  TrayInv'
<1>1. TrayTypes' BY DEF TrayInv, TrayTypes
<1> QED BY <1>1 DEF TrayInv

\* The tray of an idle page is written with one side of each market.
LEMMA IdlePersistKeeps ==
  ASSUME TrayInv, Idle, NEW items, OneSideEach(items), Persist(at.slug, items),
         UNCHANGED <<at, batch, jobs, slips, held>>,
         count' \in [item : Nat, key : Nat], count'.key = count.key
  PROVE  TrayInv'
<1>1. at.slug \in Slug /\ batch.tag = "none" BY TrayParts DEF Idle
<1>2. tray' = items /\ stored' = [stored EXCEPT ![at.slug] = items] BY DEF Persist
<1>3. TraysAreSound(stored') /\ stored'[at.slug] = items
  BY <1>1, <1>2 DEF TrayInv, TrayTypes, TraysAreSound, BySlug
<1>4. TrayTypes' BY <1>3 DEF TrayInv, TrayTypes
<1>5. TrayShows(at', tray', stored', batch')
  BY <1>1, <1>2, <1>3, TrayParts DEF TrayInv, TrayShows
<1>6. \A k \in jobs : ~AtWork(k, at) /\ k.visit <= at.visit /\ k.entries \cap batch.reviewed = {}
  BY <1>1, TrayParts
<1>7. JobsAreSound(jobs', at', tray', batch', held', count'.key)
  <2>1. batch.reviewed \subseteq AllEntries(jobs, batch) BY DEF AllEntries
  <2>2. JobsAreSound(jobs, at, items, batch, held, count.key)
    BY <1>6, <2>1, JobsRest DEF TrayInv
  <2> QED BY <2>2, <1>2
<1> QED BY <1>4, <1>5, <1>7 DEF TrayInv

LEMMA ToggleKeeps == ASSUME TrayInv, OffersPicks, Toggle PROVE TrayInv'
<1>1. PICK p \in league.board :
        Persist(at.slug, toggleMarketExclusive(tray, [pick |-> p, wager |-> count.item + 1]))
  BY DEF Toggle
<1> DEFINE item == [pick |-> p, wager |-> count.item + 1]
<1>2. Idle /\ UNCHANGED <<at, batch, jobs, slips, held>>
      /\ count' = [count EXCEPT !.item = count.item + 1]
  BY DEF Toggle
<1>3. p \in Pick BY DEF OffersPicks
<1>4. item \in Item /\ item.pick = p BY <1>3, TrayParts DEF Item
<1> HIDE DEF item
<1>5. OneSideEach(tray) BY TrayParts
<1>6. ASSUME NEW T \in SUBSET tray PROVE OneSideEach(T)
  BY <1>5, FS_Subset DEF OneSideEach
<1> DEFINE others == {i \in tray : <<i.pick, item.pick>> \notin Sibling}
<1>7. ASSUME item.pick \notin Picks(tray) PROVE OneSideEach(others \cup {item})
  <2>1. OneSideEach(others) BY <1>6
  <2>2. \A i \in others : i.pick # item.pick /\ <<i.pick, item.pick>> \notin Sibling
                          /\ <<item.pick, i.pick>> \notin Sibling
    <3>1. \A i \in tray : i.pick \in Pick /\ i.pick # item.pick
      BY <1>5, <1>7 DEF OneSideEach, Item, Picks
    <3> QED BY <3>1, <1>3, <1>4, TrayAssumption
  <2>3. IsFiniteSet(others \cup {item}) BY <2>1, FS_AddElement DEF OneSideEach
  <2> HIDE DEF others
  <2> QED BY <2>1, <2>2, <2>3, <1>4 DEF OneSideEach
<1>8. OneSideEach(toggleMarketExclusive(tray, item))
  BY <1>6, <1>7 DEF toggleMarketExclusive, Named
<1>9. count' \in [item : Nat, key : Nat] /\ count'.key = count.key
  <2>1. count.item + 1 \in Nat BY TrayParts
  <2> QED BY <1>2, <2>1 DEF TrayInv, TrayTypes
<1> QED BY <1>1, <1>2, <1>8, <1>9, IdlePersistKeeps DEF item

LEMMA RemoveItemKeeps == ASSUME TrayInv, RemoveItem PROVE TrayInv'
<1>1. PICK i \in tray : Persist(at.slug, tray \ Named(tray, i.pick)) BY DEF RemoveItem
<1>2. Idle /\ UNCHANGED <<at, batch, jobs, slips, held, count>> BY DEF RemoveItem
<1>3. OneSideEach(tray \ Named(tray, i.pick)) BY TrayParts, FS_Subset DEF OneSideEach
<1>4. count' \in [item : Nat, key : Nat] /\ count'.key = count.key
  BY <1>2 DEF TrayInv, TrayTypes
<1> QED BY <1>1, <1>2, <1>3, <1>4, IdlePersistKeeps

\* The page goes, and no job is left that it started.
LEMMA PageGoes ==
  ASSUME TrayInv, UNCHANGED <<held, count>>, jobs' \subseteq jobs, at' \in PageShown,
         at'.visit >= at.visit, ~at'.pending,
         at'.slug = Elsewhere \/ at'.visit > at.visit,
         TraysAreSound(stored'), BySlug(slips'),
         at'.slug # Elsewhere => tray' = stored'[at'.slug],
         at'.slug = Elsewhere => tray' = {},
         batch' = NoBatch \/ (batch' = batch /\ batch.tag = "none")
  PROVE  TrayInv'
<1>1. NoBatch \in PageBatch /\ NoBatch.reviewed = {} /\ NoBatch.placed = {}
      /\ BatchIsSound(NoBatch, held) /\ NoBatch.tag = "none"
  BY DEF NoBatch, PageBatch, BatchIsSound, Split, Truthful
<1>2. batch' \in PageBatch /\ batch'.reviewed = {} /\ batch'.placed = {}
      /\ BatchIsSound(batch', held) /\ batch'.tag = "none"
  BY <1>1, TrayParts DEF TrayInv, TrayTypes
<1>3. TrayTypes' BY <1>2 DEF TrayInv, TrayTypes
<1>4. TrayShows(at', tray', stored', batch') BY <1>2 DEF TrayShows
<1>5. at.visit \in Nat /\ at'.visit \in Nat BY TrayParts DEF PageShown
<1>6. \A k \in jobs : ~AtWork(k, at') /\ k.visit <= at'.visit
  BY <1>5, TrayParts DEF AtWork
<1>7. JobsAreSound(jobs', at', tray', batch', held, count.key)
  BY <1>2, <1>6, JobsRest DEF TrayInv
<1> QED BY <1>2, <1>3, <1>4, <1>7 DEF TrayInv

LEMMA VisitKeeps == ASSUME TrayInv, Visit PROVE TrayInv'
<1>1. PICK s \in Slug : at' = [slug |-> s, visit |-> at.visit + 1, pending |-> FALSE]
                        /\ tray' = stored[s]
  BY DEF Visit
<1>2. batch' = NoBatch /\ UNCHANGED <<stored, jobs, slips, held, count>> BY DEF Visit
<1>3. at' \in PageShown /\ at'.visit > at.visit /\ ~at'.pending /\ at'.slug = s
      /\ at'.visit >= at.visit
  <2>1. at.visit \in Nat /\ at.visit + 1 \in Nat BY TrayParts
  <2>2. at' \in PageShown BY <1>1, <2>1 DEF PageShown
  <2> QED BY <1>1, <2>1, <2>2
<1>4. s # Elsewhere BY TrayParts
<1> QED BY <1>1, <1>2, <1>3, <1>4, PageGoes DEF TrayInv, TrayTypes

\* The page that leaves for another one.
LEMMA LeavesPage ==
  ASSUME TrayInv, Leaves
  PROVE  at' \in PageShown /\ at'.visit = at.visit /\ ~at'.pending /\ at'.slug = Elsewhere
         /\ at'.visit >= at.visit
<1>1. at \in PageShown /\ at.visit \in Nat BY TrayParts DEF TrayInv, TrayTypes
<1>2. at' \in PageShown BY <1>1 DEF Leaves, PageShown
<1>3. at'.visit = at.visit /\ at'.pending = FALSE /\ at'.slug = Elsewhere
  BY <1>1 DEF Leaves, PageShown
<1>4. at.visit >= at.visit BY <1>1
<1> QED BY <1>2, <1>3, <1>4

LEMMA LeaveKeeps == ASSUME TrayInv, Leave PROVE TrayInv'
<1>1. Leaves /\ tray' = {} /\ batch' = NoBatch
      /\ UNCHANGED <<stored, jobs, slips, held, count>>
  BY DEF Leave
<1> QED BY <1>1, LeavesPage, PageGoes DEF TrayInv, TrayTypes


LEMMA BackToBoardKeeps == ASSUME TrayInv, BackToBoard PROVE TrayInv'
<1>1. batch.tag \in {"reviewing", "results"} /\ batch' = NoBatch
      /\ UNCHANGED <<at, stored, tray, jobs, slips, held, count>>
  BY DEF BackToBoard
<1>2. NoBatch \in PageBatch /\ NoBatch.reviewed = {} /\ NoBatch.placed = {}
      /\ NoBatch.tag = "none" /\ BatchIsSound(NoBatch, held)
  BY DEF NoBatch, PageBatch, BatchIsSound, Split, Truthful
<1>3. TrayTypes' BY <1>1, <1>2 DEF TrayInv, TrayTypes
<1>4. TrayShows(at, tray, stored, NoBatch) BY <1>2 DEF TrayInv, TrayShows
<1>5. \A k \in jobs : ~AtWork(k, at) /\ k.visit <= at.visit BY <1>1, TrayParts
<1>6. JobsAreSound(jobs, at, tray, NoBatch, held, count.key)
  BY <1>2, <1>5, JobsRest DEF TrayInv
<1> QED BY <1>1, <1>2, <1>3, <1>4, <1>6 DEF TrayInv

LEMMA QuoteAllKeeps == ASSUME TrayInv, QuoteAll PROVE TrayInv'
<1> DEFINE k  == Job("quote")
           b2 == [NoBatch EXCEPT !.tag = "quoting"]
<1>1. Idle /\ jobs' = jobs \cup {k} /\ batch' = b2
      /\ UNCHANGED <<at, stored, tray, slips, held, count>>
  BY DEF QuoteAll, Start
<1>2. at.slug \in Slug /\ batch.tag = "none" /\ at.pending = FALSE /\ at.visit \in Nat
  BY <1>1, TrayParts DEF Idle
<1>3. k \in PageJob BY <1>2, TrayParts DEF PageJob, Job
<1>4. k.kind = "quote" /\ k.slug = at.slug /\ k.visit = at.visit /\ k.tray = tray /\ k.entries = {}
  BY DEF Job
<1>5. b2 \in PageBatch /\ b2.tag = "quoting" /\ b2.reviewed = {} /\ b2.placed = {}
      /\ BatchIsSound(b2, held)
  BY DEF NoBatch, PageBatch, BatchIsSound, Split, Truthful
<1> HIDE DEF k, b2
<1>6. TrayTypes' BY <1>1, <1>3, <1>5 DEF TrayInv, TrayTypes
<1>7. TrayShows(at, tray, stored, b2) BY <1>2, <1>5, TrayAssumption DEF TrayInv, TrayShows
<1>8. JobFollows(k, at, tray, b2, held)
  <2>1. k.todo = {} BY DEF k, Job
  <2> QED BY <2>1, <1>2, <1>4, <1>5 DEF JobFollows, AtWork
<1>9. \A x \in jobs : ~AtWork(x, at) /\ x.visit <= at.visit
                      /\ x.entries \cap b2.reviewed = {} /\ x.entries \cap k.entries = {}
  BY <1>2, <1>4, <1>5, TrayParts
<1>10. JobsAreSound(jobs \cup {k}, at, tray, b2, held, count.key)
  BY <1>4, <1>5, <1>8, <1>9, JobStarts DEF TrayInv
<1> QED BY <1>1, <1>5, <1>6, <1>7, <1>10 DEF TrayInv

LEMMA AddToParlayKeeps == ASSUME TrayInv, AddToParlay PROVE TrayInv'
<1> DEFINE k  == Job("transfer")
           a2 == [at EXCEPT !.pending = TRUE]
<1>1. Idle /\ jobs' = jobs \cup {k} /\ at' = a2
      /\ UNCHANGED <<stored, tray, batch, slips, held, count>>
  BY DEF AddToParlay, Start
<1>2. at.slug \in Slug /\ batch.tag = "none" /\ at.pending = FALSE /\ at.visit \in Nat
      /\ batch.placed = {} /\ batch.reviewed = {}
  BY <1>1, TrayParts DEF Idle
<1>3. k \in PageJob BY <1>2, TrayParts DEF PageJob, Job
<1>4. k.kind = "transfer" /\ k.visit = at.visit /\ k.entries = {} BY DEF Job
<1>5. a2 \in PageShown BY DEF TrayInv, TrayTypes, PageShown
<1>6. a2.slug = at.slug /\ a2.visit = at.visit BY DEF TrayInv, TrayTypes, PageShown
<1> HIDE DEF k, a2
<1>7. TrayTypes' BY <1>1, <1>3, <1>5 DEF TrayInv, TrayTypes
<1>8. TrayShows(a2, tray, stored, batch) BY <1>2, <1>6 DEF TrayInv, TrayShows
<1>9. JobFollows(k, a2, tray, batch, held) BY <1>2, <1>4, <1>6 DEF JobFollows, AtWork
<1>10. \A x \in jobs : ~AtWork(x, a2) /\ x.visit <= a2.visit
                       /\ x.entries \cap batch.reviewed = {} /\ x.entries \cap k.entries = {}
  BY <1>2, <1>4, <1>6, TrayParts DEF AtWork
<1>11. JobsAreSound(jobs \cup {k}, a2, tray, batch, held, count.key)
  BY <1>4, <1>9, <1>10, JobStarts DEF TrayInv
<1> QED BY <1>1, <1>7, <1>8, <1>11 DEF TrayInv

LEMMA PlaceAllKeeps == ASSUME TrayInv, PlaceAll PROVE TrayInv'
<1> DEFINE k  == [Job("place") EXCEPT !.todo = batch.entries, !.entries = batch.entries]
           b2 == [batch EXCEPT !.tag = "placing"]
<1>1. batch.tag = "reviewing" /\ jobs' = jobs \cup {k} /\ batch' = b2
      /\ UNCHANGED <<at, stored, tray, slips, held, count>>
  BY DEF PlaceAll, Start
<1>2. batch \in PageBatch /\ batch.entries \in SUBSET TrayEntry BY DEF TrayInv, TrayTypes, PageBatch
<1>3. b2 \in PageBatch BY <1>2 DEF PageBatch
<1>4. b2.tag = "placing" /\ b2.entries = batch.entries /\ b2.placed = batch.placed
      /\ b2.failed = batch.failed /\ b2.reviewed = batch.reviewed
  BY <1>2 DEF PageBatch
<1>5. at.slug \in Slug /\ at.visit \in Nat /\ tray \in SUBSET Item /\ at.pending = FALSE
  BY <1>1, TrayParts DEF TrayInv, TrayShows
<1>6. k \in PageJob /\ k.kind = "place" /\ k.slug = at.slug /\ k.visit = at.visit
      /\ k.tray = tray /\ k.entries = batch.entries /\ k.todo = batch.entries
      /\ k.placed = {} /\ k.failed = {} /\ k.retry = {}
  BY <1>2, <1>5 DEF PageJob, Job
<1>7. BatchIsSound(b2, held) BY <1>1, <1>4 DEF TrayInv, BatchIsSound
<1>8. batch.entries \subseteq batch.reviewed BY DEF TrayInv, BatchIsSound, Split
<1>9. \A x \in jobs : ~AtWork(x, at) /\ x.visit <= at.visit
                      /\ x.entries \cap batch.reviewed = {} /\ x.entries \cap batch.entries = {}
  BY <1>1, <1>8, TrayParts
<1> HIDE DEF k, b2
<1>10. TrayTypes' BY <1>1, <1>3, <1>6 DEF TrayInv, TrayTypes
<1>11. TrayShows(at, tray, stored, b2) BY <1>4, <1>5, TrayAssumption DEF TrayInv, TrayShows
<1>12. PlaceIsSound(k, held) BY <1>6 DEF PlaceIsSound, Split, Truthful
<1>13. JobFollows(k, at, tray, b2, held)
  BY <1>4, <1>5, <1>6, <1>12 DEF JobFollows, AtWork
<1>14. JobsAreSound(jobs \cup {k}, at, tray, b2, held, count.key)
  BY <1>4, <1>6, <1>8, <1>9, <1>13, JobStarts DEF TrayInv
<1> QED BY <1>1, <1>7, <1>10, <1>11, <1>14 DEF TrayInv

(* Continuations *)

\* A job of the page shown is at work, if it is of a batch.
LEMMA WorkingJob ==
  ASSUME TrayInv, NEW j \in jobs, IsCurrent(j), j.kind \in {"quote", "place"}
  PROVE  /\ AtWork(j, at) /\ tray = j.tray /\ at.slug = j.slug /\ at.slug \in Slug
         /\ at.slug # Elsewhere /\ ~at.pending
         /\ j.kind = "quote" => batch.tag = "quoting"
         /\ j.kind = "place" => batch.tag = "placing" /\ j.entries = batch.entries
         /\ \A k \in jobs \ {j} : /\ ~AtWork(k, at) /\ k.visit <= at.visit
                                  /\ k.entries \cap j.entries = {}
                                  /\ k.entries \cap batch.reviewed = {}
<1>1. AtWork(j, at) /\ at.slug = j.slug BY DEF IsCurrent, AtWork
<1>2. JobFollows(j, at, tray, batch, held) /\ JobsAreApart(jobs, at)
  BY DEF TrayInv, JobsAreSound
<1>3. tray = j.tray /\ (j.kind = "quote" => batch.tag = "quoting")
      /\ (j.kind = "place" => batch.tag = "placing" /\ j.entries = batch.entries)
  BY <1>1, <1>2 DEF JobFollows
<1>4. ~at.pending BY <1>3, TrayParts DEF TrayInv, TrayShows
<1>5. at.slug \in Slug /\ at.slug # Elsewhere BY <1>1, TrayParts
<1>6. \A k \in jobs \ {j} : ~AtWork(k, at) /\ k.entries \cap j.entries = {}
  BY <1>1, <1>2 DEF JobsAreApart
<1>7. \A k \in jobs \ {j} : k.visit <= at.visit /\ k.entries \cap batch.reviewed = {}
  BY <1>6, TrayParts
<1> QED BY <1>1, <1>3, <1>4, <1>5, <1>6, <1>7

\* Jobs end, and nothing else changes but what is pending.
LEMMA EndsKeeps ==
  ASSUME TrayInv, NEW j \in jobs, Ends(j), UNCHANGED <<stored, tray, batch, slips, held, count>>,
         at' \in PageShown, at'.slug = at.slug, at'.visit = at.visit, at'.pending => at.pending
  PROVE  TrayInv'
<1>1. jobs' = jobs \ {j} BY DEF Ends
<1>2. TrayTypes' BY <1>1 DEF TrayInv, TrayTypes
<1>3. TrayShows(at', tray, stored, batch) BY DEF TrayInv, TrayShows
<1>4. JobsAreSound(jobs', at', tray, batch, held, count.key) BY <1>1, JobsFewer DEF TrayInv
<1> QED BY <1>2, <1>3, <1>4 DEF TrayInv

\* A job of a batch goes on, keeping what it was started with.
LEMMA GoesKeeps ==
  ASSUME TrayInv, NEW j \in jobs, NEW k \in PageJob, Goes(j, k),
         UNCHANGED <<at, stored, tray, batch, slips>>,
         AtWork(k, at) => AtWork(j, at),
         BatchIsSound(batch, held'),
         \A x \in jobs \ {j} : JobFollows(x, at, tray, batch, held'),
         JobFollows(k, at, tray, batch, held'),
         count' \in [item : Nat, key : Nat], count.key <= count'.key,
         NEW new, Extends(k, j, new, count.key, count'.key)
  PROVE  TrayInv'
<1>1. jobs' = (jobs \ {j}) \cup {k} BY DEF Goes
<1>2. TrayTypes' BY <1>1 DEF TrayInv, TrayTypes
<1>3. count.key \in Nat /\ count'.key \in Nat BY TrayParts
<1>4. JobsAreSound(jobs, at, tray, batch, held, count.key) BY DEF TrayInv
<1>5. JobsAreSound((jobs \ {j}) \cup {k}, at, tray, batch, held', count'.key)
  BY <1>3, <1>4, JobGoesOn
<1> QED BY <1>1, <1>2, <1>5 DEF TrayInv

LEMMA LoadForQuotesKeeps ==
  ASSUME TrayInv, OffersPicks, NEW j \in jobs, LoadForQuotes(j) PROVE TrayInv'
<1>1. j.kind = "quote" /\ UNCHANGED <<at, stored, tray, batch, slips, held, count>>
  BY DEF LoadForQuotes
<1>2. CASE ~IsCurrent(j)
  <2>1. Ends(j) BY <1>2 DEF LoadForQuotes
  <2>2. at' \in PageShown BY <1>1 DEF TrayInv, TrayTypes
  <2> QED BY <1>1, <2>1, <2>2, EndsKeeps
<1>3. CASE IsCurrent(j)
  <2>1. PICK b \in {Offered(league.filter), league.board} :
          Goes(j, [j EXCEPT !.loaded = TRUE, !.todo = {i \in j.tray : i.pick \in b},
                            !.drop = {i \in j.tray : i.pick \notin b},
                            !.lost = Picks(j.tray) \cap (slate \ b)])
    BY <1>3 DEF LoadForQuotes
  <2> DEFINE k == [j EXCEPT !.loaded = TRUE, !.todo = {i \in j.tray : i.pick \in b},
                            !.drop = {i \in j.tray : i.pick \notin b},
                            !.lost = Picks(j.tray) \cap (slate \ b)]
  <2>2. j \in PageJob /\ j.tray \in SUBSET Item BY TrayParts DEF PageJob
  <2>3. Picks(j.tray) \cap (slate \ b) \in SUBSET Pick BY DEF OffersPicks
  <2>4. k \in PageJob BY <2>2, <2>3 DEF PageJob
  <2>5. k.kind = j.kind /\ k.slug = j.slug /\ k.visit = j.visit /\ k.tray = j.tray
        /\ k.entries = j.entries /\ k.todo \subseteq j.tray
    BY <2>2 DEF PageJob
  <2> HIDE DEF k
  <2>6. \A x \in jobs : JobFollows(x, at, tray, batch, held) BY DEF TrayInv, JobsAreSound
  <2>7. JobFollows(k, at, tray, batch, held) BY <1>1, <2>5, <2>6 DEF JobFollows, AtWork
  <2>8. AtWork(k, at) => AtWork(j, at) BY <2>5 DEF AtWork
  <2>9. BatchIsSound(batch, held) BY DEF TrayInv
  <2>10. Goes(j, k) BY <2>1 DEF k
  <2>11. count' \in [item : Nat, key : Nat] /\ count.key <= count'.key
    BY <1>1, TrayParts DEF TrayInv, TrayTypes
  <2>12. Extends(k, j, {}, count.key, count'.key) BY <2>5 DEF Extends
  <2> QED BY <1>1, <2>4, <2>6, <2>7, <2>8, <2>9, <2>10, <2>11, <2>12, GoesKeeps
<1> QED BY <1>2, <1>3

LEMMA QuoteItemKeeps == ASSUME TrayInv, NEW j \in jobs, QuoteItem(j) PROVE TrayInv'
<1>1. j.kind = "quote" /\ UNCHANGED <<at, stored, tray, batch, slips, held>>
  BY DEF QuoteItem
<1>2. at' \in PageShown BY <1>1 DEF TrayInv, TrayTypes
<1>3. CASE ~IsCurrent(j)
  <2>1. Ends(j) /\ UNCHANGED count BY <1>3 DEF QuoteItem
  <2> QED BY <1>1, <1>2, <2>1, EndsKeeps
<1>4. CASE IsCurrent(j)
  <2>1. j \in PageJob /\ JobFollows(j, at, tray, batch, held) /\ j.tray \in SUBSET Item
    BY TrayParts DEF PageJob, TrayInv, JobsAreSound
  <2>2. j.todo \subseteq j.tray BY <1>1, <2>1 DEF JobFollows
  <2>3. PICK item \in j.todo :
          \/ /\ Goes(j, [j EXCEPT !.todo = j.todo \ {item},
                           !.entries = j.entries \cup {[item |-> item, key |-> count.key + 1]}])
             /\ count' = [count EXCEPT !.key = count.key + 1]
          \/ Goes(j, [j EXCEPT !.todo = j.todo \ {item}]) /\ UNCHANGED count
    BY <1>4 DEF QuoteItem
  <2>4. item \in Item BY <2>1, <2>2
  <2>5. batch.tag = "quoting" /\ AtWork(j, at) BY <1>1, <1>4, WorkingJob
  <2>6. batch.reviewed = {} BY <2>5 DEF TrayInv, BatchIsSound
  <2>7. BatchIsSound(batch, held') BY <1>1 DEF TrayInv
  <2>8. \A x \in jobs \ {j} : JobFollows(x, at, tray, batch, held')
    BY <1>1 DEF TrayInv, JobsAreSound
  <2>9. CASE /\ Goes(j, [j EXCEPT !.todo = j.todo \ {item},
                           !.entries = j.entries \cup {[item |-> item, key |-> count.key + 1]}])
             /\ count' = [count EXCEPT !.key = count.key + 1]
    <3> DEFINE e == [item |-> item, key |-> count.key + 1]
               k == [j EXCEPT !.todo = j.todo \ {item}, !.entries = j.entries \cup {e}]
    <3>1. count.key \in Nat /\ count.key + 1 \in Nat /\ count.key < count.key + 1
          /\ count.key <= count.key + 1
      BY TrayParts
    <3>2. e \in TrayEntry /\ e.key = count.key + 1 BY <2>4, <3>1 DEF TrayEntry
    <3> HIDE DEF e
    <3>3. count' \in [item : Nat, key : Nat] /\ count'.key = count.key + 1
      BY <2>9, <3>1 DEF TrayInv, TrayTypes
    <3>4. j.todo \ {item} \in SUBSET (Item \cup TrayEntry)
          /\ j.entries \cup {e} \in SUBSET TrayEntry
      BY <2>1, <3>2 DEF PageJob
    <3>5. k \in PageJob BY <2>1, <3>4 DEF PageJob
    <3>6. k.kind = j.kind /\ k.slug = j.slug /\ k.visit = j.visit /\ k.tray = j.tray
          /\ k.entries = j.entries \cup {e} /\ k.todo = j.todo \ {item}
      BY <2>1 DEF PageJob
    <3>7. Goes(j, k) BY <2>9 DEF e
    <3> HIDE DEF k
    <3>8. JobFollows(k, at, tray, batch, held')
      BY <1>1, <2>1, <2>2, <2>6, <3>6 DEF JobFollows, AtWork
    <3>9. Extends(k, j, {e}, count.key, count'.key) BY <3>1, <3>2, <3>3, <3>6 DEF Extends
    <3>10. count.key <= count'.key BY <3>1, <3>3
    <3> QED
      BY <1>1, <2>5, <2>7, <2>8, <3>3, <3>5, <3>7, <3>8, <3>9, <3>10, GoesKeeps
  <2>10. CASE Goes(j, [j EXCEPT !.todo = j.todo \ {item}]) /\ UNCHANGED count
    <3> DEFINE k == [j EXCEPT !.todo = j.todo \ {item}]
    <3>1. j.todo \ {item} \in SUBSET (Item \cup TrayEntry) BY <2>1 DEF PageJob
    <3>2. k \in PageJob BY <2>1, <3>1 DEF PageJob
    <3>3. k.kind = j.kind /\ k.slug = j.slug /\ k.visit = j.visit /\ k.tray = j.tray
          /\ k.entries = j.entries /\ k.todo = j.todo \ {item}
      BY <2>1 DEF PageJob
    <3>4. Goes(j, k) BY <2>10
    <3> HIDE DEF k
    <3>5. JobFollows(k, at, tray, batch, held')
      BY <1>1, <2>1, <2>2, <2>6, <3>3 DEF JobFollows, AtWork
    <3>6. Extends(k, j, {}, count.key, count'.key) BY <3>3 DEF Extends
    <3>7. count' \in [item : Nat, key : Nat] /\ count.key <= count'.key
      BY <2>10, TrayParts DEF TrayInv, TrayTypes
    <3> QED BY <1>1, <2>5, <2>7, <2>8, <3>2, <3>4, <3>5, <3>6, <3>7, GoesKeeps
  <2> QED BY <2>3, <2>9, <2>10
<1> QED BY <1>3, <1>4

\* What is added for an entry of job j makes no other entry look taken.
LEMMA OthersStayTrue ==
  ASSUME TrayInv, NEW j \in jobs, j.kind = "place", NEW e \in j.todo
  PROVE  /\ \A f \in AllEntries(jobs, batch) : f # e => Bet(f) # Bet(e)
         /\ e \in j.entries /\ e \in AllEntries(jobs, batch)
         /\ e \notin batch.failed
         /\ \A x \in jobs \ {j} : x.kind = "place" => e \notin x.failed
<1>1. PlaceIsSound(j, held) /\ JobFollows(j, at, tray, batch, held)
  BY DEF TrayInv, JobsAreSound, JobFollows
<1>2. e \in j.entries /\ e \in AllEntries(jobs, batch)
  BY <1>1 DEF PlaceIsSound, Split, AllEntries
<1>3. \A f \in AllEntries(jobs, batch) : f # e => f.key # e.key
  BY <1>2 DEF TrayInv, JobsAreSound, KeysAreOwn
<1>4. \A f \in AllEntries(jobs, batch) : f # e => Bet(f) # Bet(e) BY <1>3 DEF Bet
<1>5. e \notin batch.failed
  <2>1. batch.failed \subseteq batch.reviewed /\ batch.entries \cap batch.failed = {}
    BY DEF TrayInv, BatchIsSound, Split
  <2>2. CASE AtWork(j, at) BY <1>1, <1>2, <2>1, <2>2 DEF JobFollows
  <2>3. CASE ~AtWork(j, at) BY <1>1, <1>2, <2>1, <2>3 DEF JobFollows
  <2> QED BY <2>2, <2>3
<1>6. \A x \in jobs \ {j} : x.kind = "place" => e \notin x.failed
  <2>1. \A x \in jobs \ {j} : x.entries \cap j.entries = {}
    BY DEF TrayInv, JobsAreSound, JobsAreApart
  <2>2. \A x \in jobs : x.kind = "place" => x.failed \subseteq x.entries
    BY DEF TrayInv, JobsAreSound, JobFollows, PlaceIsSound, Split
  <2> QED BY <1>2, <2>1, <2>2
<1> QED BY <1>2, <1>4, <1>5, <1>6

\* The answer for one entry, in the job it is of.
LEMMA OutcomeIsSound ==
  ASSUME NEW j \in PageJob, NEW e \in j.todo, NEW o \in {"placed", "refused", "unknown"},
         NEW kept, NEW kept2, PlaceIsSound(j, kept), kept \subseteq kept2,
         kept2 \subseteq kept \cup {Bet(e)}, \A f \in j.entries : f # e => Bet(f) # Bet(e),
         o = "placed" => Bet(e) \in kept2, o = "refused" => Bet(e) \notin kept2
  PROVE  /\ Outcome(j, e, o) \in PageJob /\ PlaceIsSound(Outcome(j, e, o), kept2)
         /\ Outcome(j, e, o).kind = j.kind /\ Outcome(j, e, o).slug = j.slug
         /\ Outcome(j, e, o).visit = j.visit /\ Outcome(j, e, o).tray = j.tray
         /\ Outcome(j, e, o).entries = j.entries
<1> DEFINE k == Outcome(j, e, o)
           placed == IF o = "placed" THEN j.placed \cup {e} ELSE j.placed
           failed == IF o = "refused" THEN j.failed \cup {e} ELSE j.failed
           retry  == IF o = "unknown" THEN j.retry \cup {e} ELSE j.retry
<1>1. e \in TrayEntry /\ e \in j.entries /\ j.entries \subseteq TrayEntry
  BY DEF PlaceIsSound, Split, PageJob
<1>2. placed \in SUBSET TrayEntry /\ failed \in SUBSET TrayEntry /\ retry \in SUBSET TrayEntry
      /\ j.todo \ {e} \in SUBSET (Item \cup TrayEntry)
  BY <1>1 DEF PageJob
<1>3. k = [j EXCEPT !.todo = j.todo \ {e}, !.placed = placed, !.failed = failed, !.retry = retry]
  BY DEF Outcome, PageJob
<1>4. Split(j.entries, j.todo \ {e}, placed, failed \cup retry) /\ failed \cap retry = {}
  <2>1. Split(j.entries, j.todo, j.placed, j.failed \cup j.retry) /\ j.failed \cap j.retry = {}
    BY DEF PlaceIsSound
  <2>2. CASE o = "placed" BY <2>1, <2>2 DEF Split
  <2>3. CASE o = "refused" BY <2>1, <2>3 DEF Split
  <2>4. CASE o = "unknown" BY <2>1, <2>4 DEF Split
  <2> QED BY <2>2, <2>3, <2>4
<1>5. Truthful(placed, failed, kept2)
  <2>1. \A f \in j.placed : Bet(f) \in kept2 BY DEF PlaceIsSound, Truthful
  <2>2. \A f \in j.failed : f # e /\ f \in j.entries /\ Bet(f) \notin kept
    BY DEF PlaceIsSound, Truthful, Split
  <2>3. \A f \in j.failed : Bet(f) \notin kept2 BY <2>2
  <2> QED BY <2>1, <2>3 DEF Truthful
<1> HIDE DEF placed, failed, retry, k
<1>6. k \in PageJob BY <1>2, <1>3 DEF PageJob
<1>7. k.kind = j.kind /\ k.slug = j.slug /\ k.visit = j.visit /\ k.tray = j.tray
      /\ k.entries = j.entries /\ k.todo = j.todo \ {e} /\ k.placed = placed
      /\ k.failed = failed /\ k.retry = retry
  BY <1>3 DEF PageJob
<1>8. PlaceIsSound(k, kept2) BY <1>4, <1>5, <1>7 DEF PlaceIsSound
<1> QED BY <1>6, <1>7, <1>8 DEF k

LEMMA PlaceEntryKeeps == ASSUME TrayInv, NEW j \in jobs, PlaceEntry(j) PROVE TrayInv'
<1>1. j.kind = "place" /\ UNCHANGED <<at, stored, tray, batch, slips, count>>
  BY DEF PlaceEntry
<1>2. PICK e \in j.todo, o \in {"placed", "refused", "unknown"} :
        /\ Goes(j, Outcome(j, e, o))
        /\ \/ held' = held \cup {Bet(e)} /\ o # "refused"
           \/ UNCHANGED held /\ Bet(e) \notin held /\ o # "placed"
  BY DEF PlaceEntry
<1>3. j \in PageJob /\ JobFollows(j, at, tray, batch, held) /\ PlaceIsSound(j, held)
  BY <1>1, TrayParts DEF TrayInv, JobsAreSound, JobFollows
<1>4. held \subseteq held' /\ held' \subseteq held \cup {Bet(e)} BY <1>2
<1>5. \A f \in AllEntries(jobs, batch) : f # e => Bet(f) # Bet(e) BY <1>1, OthersStayTrue
<1>6. e \notin batch.failed /\ \A x \in jobs \ {j} : x.kind = "place" => e \notin x.failed
  BY <1>1, OthersStayTrue
<1>7. BatchIsSound(batch, held')
  <2>1. batch.failed \subseteq AllEntries(jobs, batch)
    BY DEF TrayInv, BatchIsSound, Split, AllEntries
  <2>2. \A f \in batch.failed : Bet(f) \notin held'
    BY <1>4, <1>5, <1>6, <2>1 DEF TrayInv, BatchIsSound, Truthful
  <2> QED BY <1>4, <2>2 DEF TrayInv, BatchIsSound, Truthful
<1>8. ASSUME NEW x \in jobs \ {j} PROVE JobFollows(x, at, tray, batch, held')
  <2>1. JobFollows(x, at, tray, batch, held) BY DEF TrayInv, JobsAreSound
  <2>2. ASSUME x.kind = "place" PROVE PlaceIsSound(x, held')
    <3>1. PlaceIsSound(x, held) BY <2>1, <2>2 DEF JobFollows
    <3>2. x.failed \subseteq AllEntries(jobs, batch)
      BY <3>1 DEF PlaceIsSound, Split, AllEntries
    <3>3. \A f \in x.failed : Bet(f) \notin held'
      BY <1>4, <1>5, <1>6, <2>2, <3>1, <3>2 DEF PlaceIsSound, Truthful
    <3> QED BY <1>4, <3>1, <3>3 DEF PlaceIsSound, Truthful
  <2> QED BY <2>1, <2>2 DEF JobFollows
<1> DEFINE k == Outcome(j, e, o)
<1>9. /\ k \in PageJob /\ PlaceIsSound(k, held')
      /\ k.kind = j.kind /\ k.slug = j.slug /\ k.visit = j.visit /\ k.tray = j.tray
      /\ k.entries = j.entries
  <2>1. \A f \in j.entries : f # e => Bet(f) # Bet(e) BY <1>5 DEF AllEntries
  <2>2. (o = "placed" => Bet(e) \in held') /\ (o = "refused" => Bet(e) \notin held') BY <1>2
  <2> QED BY <1>3, <1>4, <2>1, <2>2, OutcomeIsSound
<1> HIDE DEF k
<1>10. JobFollows(k, at, tray, batch, held') BY <1>1, <1>3, <1>9 DEF JobFollows, AtWork
<1>11. AtWork(k, at) => AtWork(j, at) BY <1>9 DEF AtWork
<1>12. Extends(k, j, {}, count.key, count'.key) BY <1>9 DEF Extends
<1>13. count' \in [item : Nat, key : Nat] /\ count.key <= count'.key
  BY <1>1, TrayParts DEF TrayInv, TrayTypes
<1>14. Goes(j, k) BY <1>2 DEF k
<1> QED BY <1>1, <1>7, <1>8, <1>9, <1>10, <1>11, <1>12, <1>13, <1>14, GoesKeeps

LEMMA QuotesDoneKeeps == ASSUME TrayInv, NEW j \in jobs, QuotesDone(j) PROVE TrayInv'
<1>1. j.kind = "quote" /\ Ends(j) /\ UNCHANGED <<at, slips, held, count>> BY DEF QuotesDone
<1>2. CASE ~IsCurrent(j)
  <2>1. UNCHANGED <<stored, tray, batch>> BY <1>2 DEF QuotesDone
  <2>2. at' \in PageShown BY <1>1 DEF TrayInv, TrayTypes
  <2> QED BY <1>1, <2>1, <2>2, EndsKeeps
<1>3. CASE IsCurrent(j)
  <2> DEFINE items == j.tray \ j.drop
             tag   == IF j.entries = {} THEN "results" ELSE "reviewing"
             b2    == [NoBatch EXCEPT !.tag = tag, !.entries = j.entries,
                                      !.reviewed = j.entries]
  <2>1. tray' = items /\ stored' = [stored EXCEPT ![j.slug] = items] /\ batch' = b2
    BY <1>3 DEF QuotesDone, Persist
  <2>2. /\ tray = j.tray /\ at.slug = j.slug /\ at.slug \in Slug /\ ~at.pending
        /\ \A k \in jobs \ {j} : ~AtWork(k, at) /\ k.visit <= at.visit
                                 /\ k.entries \cap j.entries = {}
    BY <1>1, <1>3, WorkingJob
  <2>3. j.entries \in SUBSET TrayEntry BY TrayParts DEF PageJob
  <2>4. b2 \in PageBatch /\ b2.tag = tag /\ b2.entries = j.entries /\ b2.placed = {}
        /\ b2.failed = {} /\ b2.reviewed = j.entries
    BY <2>3 DEF PageBatch, NoBatch
  <2>5. OneSideEach(items) BY <2>2, TrayParts, FS_Subset DEF OneSideEach
  <2> HIDE DEF b2, items
  <2>6. b2.tag \in {"reviewing", "results"} BY <2>4
  <2>7. BatchIsSound(b2, held) BY <2>4, <2>6 DEF BatchIsSound, Split, Truthful
  <2>8. jobs' = jobs \ {j} BY <1>1 DEF Ends
  <2>9. TraysAreSound(stored') /\ stored'[at.slug] = items
    BY <2>1, <2>2, <2>5 DEF TrayInv, TrayTypes, TraysAreSound, BySlug
  <2>10. TrayTypes' BY <1>1, <2>1, <2>4, <2>8, <2>9 DEF TrayInv, TrayTypes
  <2>11. TrayShows(at, tray', stored', b2)
    BY <2>1, <2>2, <2>4, <2>9, TrayAssumption DEF TrayShows
  <2>12. b2.reviewed \subseteq AllEntries(jobs, batch) BY <2>4 DEF AllEntries
  <2>13. \A k \in jobs' : ~AtWork(k, at) /\ k.visit <= at.visit
                          /\ k.entries \cap b2.reviewed = {}
    BY <2>2, <2>4, <2>8
  <2>14. JobsAreSound(jobs', at, tray', b2, held, count.key)
    BY <2>8, <2>12, <2>13, JobsRest DEF TrayInv
  <2> QED BY <1>1, <2>1, <2>7, <2>10, <2>11, <2>14 DEF TrayInv
<1> QED BY <1>2, <1>3

LEMMA PlacementsDoneKeeps == ASSUME TrayInv, NEW j \in jobs, PlacementsDone(j) PROVE TrayInv'
<1>1. j.kind = "place" /\ j.todo = {} /\ Ends(j) /\ UNCHANGED <<at, slips, held, count>>
  BY DEF PlacementsDone
<1>2. CASE ~IsCurrent(j)
  <2>1. UNCHANGED <<stored, tray, batch>> BY <1>2 DEF PlacementsDone
  <2>2. at' \in PageShown BY <1>1 DEF TrayInv, TrayTypes
  <2> QED BY <1>1, <2>1, <2>2, EndsKeeps
<1>3. CASE IsCurrent(j)
  <2> DEFINE items == {i \in j.tray : i.pick \notin PlacedPicks(j)}
             b2    == straightPlacementBatchTransition(batch, j)
  <2>1. tray' = items /\ stored' = [stored EXCEPT ![j.slug] = items] /\ batch' = b2
    BY <1>3 DEF PlacementsDone, Persist
  <2>2. /\ tray = j.tray /\ at.slug = j.slug /\ at.slug \in Slug /\ ~at.pending
        /\ batch.tag = "placing" /\ j.entries = batch.entries
        /\ \A k \in jobs \ {j} : ~AtWork(k, at) /\ k.visit <= at.visit
                                 /\ k.entries \cap batch.reviewed = {}
    BY <1>1, <1>3, WorkingJob
  <2>3. j \in PageJob /\ batch \in PageBatch BY DEF TrayInv, TrayTypes
  <2>4. /\ b2.tag \in {"reviewing", "results"} /\ b2.entries = j.retry
        /\ b2.placed = batch.placed \cup j.placed /\ b2.failed = batch.failed \cup j.failed
        /\ b2.reviewed = batch.reviewed
    BY <2>3 DEF PageBatch, straightPlacementBatchTransition
  <2>5. b2 \in PageBatch
    <3>1. j.retry \in SUBSET TrayEntry /\ j.placed \in SUBSET TrayEntry
          /\ j.failed \in SUBSET TrayEntry
      BY <2>3 DEF PageJob
    <3>2. batch.placed \cup j.placed \in SUBSET TrayEntry
          /\ batch.failed \cup j.failed \in SUBSET TrayEntry
      BY <2>3, <3>1 DEF PageBatch
    <3> QED BY <2>3, <3>1, <3>2 DEF PageBatch, straightPlacementBatchTransition
  <2>6. PlaceIsSound(j, held) /\ BatchIsSound(batch, held)
    BY <1>1 DEF TrayInv, JobsAreSound, JobFollows
  <2> HIDE DEF b2
  <2>7. BatchIsSound(b2, held)
    <3>1. Split(batch.reviewed, j.entries, batch.placed, batch.failed)
      BY <2>2, <2>6 DEF BatchIsSound
    <3>2. Split(j.entries, {}, j.placed, j.failed \cup j.retry) /\ j.failed \cap j.retry = {}
      BY <1>1, <2>6 DEF PlaceIsSound
    <3>3. Split(batch.reviewed, j.retry, batch.placed \cup j.placed, batch.failed \cup j.failed)
      BY <3>1, <3>2 DEF Split
    <3>4. Truthful(batch.placed \cup j.placed, batch.failed \cup j.failed, held)
      BY <2>6 DEF PlaceIsSound, BatchIsSound, Truthful
    <3> QED BY <2>4, <3>3, <3>4 DEF BatchIsSound
  <2>8. jobs' = jobs \ {j} BY <1>1 DEF Ends
  <2>9. OneSideEach(items) BY <2>2, TrayParts, FS_Subset DEF OneSideEach
  <2>10. TraysAreSound(stored') /\ stored'[at.slug] = items
    BY <2>1, <2>2, <2>9 DEF TrayInv, TrayTypes, TraysAreSound, BySlug
  <2>11. TrayTypes' BY <1>1, <2>1, <2>5, <2>8, <2>10 DEF TrayInv, TrayTypes
  <2>12. TrayShows(at, tray', stored', b2)
    <3>1. \A e \in batch.placed : e.item \notin tray BY DEF TrayInv, TrayShows
    <3>2. \A e \in b2.placed : e.item \notin items BY <2>2, <2>4, <3>1 DEF PlacedPicks
    <3> QED BY <2>1, <2>2, <2>10, <3>2, TrayAssumption DEF TrayShows
  <2>13. b2.reviewed \subseteq AllEntries(jobs, batch) BY <2>4 DEF AllEntries
  <2>14. \A k \in jobs' : ~AtWork(k, at) /\ k.visit <= at.visit
                          /\ k.entries \cap b2.reviewed = {}
    BY <2>2, <2>4, <2>8
  <2>15. JobsAreSound(jobs', at, tray', b2, held, count.key)
    BY <2>8, <2>13, <2>14, JobsRest DEF TrayInv
  <2> QED BY <1>1, <2>1, <2>7, <2>11, <2>12, <2>15 DEF TrayInv
<1> QED BY <1>2, <1>3

\* A transfer that comes to nothing only stops being pending.
LEMMA PendingEnds ==
  ASSUME TrayInv, NEW j \in jobs, Ends(j),
         at' = [at EXCEPT !.pending = at.pending /\ ~IsCurrent(j)],
         UNCHANGED <<stored, tray, batch, slips, held, count>>
  PROVE  TrayInv'
<1>1. at \in PageShown BY DEF TrayInv, TrayTypes
<1>2. (at.pending /\ ~IsCurrent(j)) \in BOOLEAN OBVIOUS
<1>3. at' \in PageShown BY <1>1, <1>2 DEF PageShown
<1>4. at'.slug = at.slug /\ at'.visit = at.visit /\ at'.pending = (at.pending /\ ~IsCurrent(j))
  BY <1>1 DEF PageShown
<1>5. at'.pending => at.pending BY <1>4
<1> QED BY <1>3, <1>4, <1>5, EndsKeeps

LEMMA TransferFailsKeeps == ASSUME TrayInv, NEW j \in jobs, TransferFails(j) PROVE TrayInv'
BY PendingEnds DEF TransferFails

LEMMA TransferLoadedKeeps == ASSUME TrayInv, NEW j \in jobs, TransferLoaded(j) PROVE TrayInv'
<1>1. Ends(j) /\ UNCHANGED <<batch, held, count>> BY DEF TransferLoaded
<1>2. CASE Matches(j) /\ Picks(j.tray) \subseteq slate
  <2>1. /\ slips' = [slips EXCEPT ![j.slug] = Picks(j.tray)]
        /\ stored' = [stored EXCEPT ![j.slug] = {}] /\ tray' = {} /\ Leaves
    BY <1>2 DEF TransferLoaded
  <2>2. batch.tag = "none" BY <1>2 DEF Matches, TrayInv, TrayShows
  <2>3. OneSideEach({}) BY FS_EmptySet DEF OneSideEach
  <2>4. TraysAreSound(stored') /\ BySlug(slips')
    <3>1. j.slug \in Slug BY TrayParts
    <3> QED BY <2>1, <2>3, <3>1 DEF TrayInv, TrayTypes, TraysAreSound, BySlug
  <2>5. jobs' \subseteq jobs BY <1>1 DEF Ends
  <2>6. at' \in PageShown /\ at'.visit >= at.visit /\ ~at'.pending /\ at'.slug = Elsewhere
    BY <2>1, LeavesPage
  <2>7. batch' = batch /\ batch.tag = "none" /\ UNCHANGED <<held, count>> BY <1>1, <2>2
  <2>8. tray' = {} BY <2>1
  <2> QED BY <2>8, <2>4, <2>5, <2>6, <2>7, PageGoes
<1>3. CASE ~(Matches(j) /\ Picks(j.tray) \subseteq slate)
  BY <1>1, <1>3, PendingEnds DEF TransferLoaded
<1> QED BY <1>2, <1>3

\* A tray that fits a teaser as a whole is taken as a whole.
LEMMA TeaserTakesAll ==
  ASSUME NEW items, OneSideEach(items), NEW offered, canBuildTeaser(items, offered),
         NEW t \in buildTeaserTransfer(items, offered)
  PROVE  t.slip = Picks(items) /\ t.remaining = {}
<1> DEFINE Fitting == {i \in items : i.pick \in Eligible \cap offered}
           Fits(S) == Cardinality(S) <= 6 /\ \A i, k \in S : <<i.pick, k.pick>> \notin Sibling
<1>1. PICK S \in SUBSET Fitting :
        t = [slip |-> Picks(S), remaining |-> items \ S] /\ \A i \in Fitting \ S : ~Fits(S \cup {i})
  BY DEF buildTeaserTransfer
<1>2. Fitting = items BY DEF canBuildTeaser, Picks
<1>3. Cardinality(items) \in Nat /\ Cardinality(items) <= 6 BY DEF canBuildTeaser
<1>4. ASSUME NEW T \in SUBSET items PROVE Fits(T)
  <2>1. Cardinality(T) <= Cardinality(items) /\ Cardinality(T) \in Nat
    BY FS_Subset, FS_CardinalityType DEF OneSideEach
  <2>2. \A i, k \in T : <<i.pick, k.pick>> \notin Sibling
    BY TrayAssumption DEF OneSideEach, Item
  <2> QED BY <1>3, <2>1, <2>2
<1> HIDE DEF Fits, Fitting
<1>5. \A i \in items \ S : S \cup {i} \in SUBSET items BY <1>1, <1>2
<1>6. ASSUME NEW i \in items \ S PROVE FALSE
  <2>1. Fits(S \cup {i}) BY <1>4, <1>5
  <2>2. i \in Fitting \ S BY <1>2
  <2> QED BY <1>1, <2>1, <2>2
<1>7. S = items BY <1>1, <1>2, <1>6
<1> QED BY <1>1, <1>7

LEMMA AddEligibleToTeaserKeeps == ASSUME TrayInv, AddEligibleToTeaser PROVE TrayInv'
<1>1. Idle /\ Leaves /\ UNCHANGED <<batch, jobs, held, count>> BY DEF AddEligibleToTeaser
<1>2. canBuildTeaser(tray, league.board) BY DEF AddEligibleToTeaser
<1>3. PICK t \in buildTeaserTransfer(tray, league.board) :
        /\ slips' = [slips EXCEPT ![at.slug] = t.slip]
        /\ stored' = [stored EXCEPT ![at.slug] = t.remaining] /\ tray' = {}
  BY DEF AddEligibleToTeaser
<1>4. t.remaining = {} BY <1>2, TrayParts, TeaserTakesAll
<1>5. OneSideEach({}) BY FS_EmptySet DEF OneSideEach
<1>6. TraysAreSound(stored') /\ BySlug(slips')
  <2>1. at.slug \in Slug BY <1>1, TrayParts DEF Idle
  <2> QED BY <1>3, <1>4, <1>5, <2>1 DEF TrayInv, TrayTypes, TraysAreSound, BySlug
<1>7. batch.tag = "none" BY <1>1 DEF Idle
<1>8. at' \in PageShown /\ at'.visit >= at.visit /\ ~at'.pending /\ at'.slug = Elsewhere
  BY <1>1, LeavesPage
<1>9. batch' = batch /\ jobs' \subseteq jobs /\ UNCHANGED <<held, count>> BY <1>1
<1>10. tray' = {} BY <1>3
<1> QED BY <1>10, <1>6, <1>7, <1>8, <1>9, PageGoes

-----------------------------------------------------------------------------
(* What the page says *)

BoardMoves  == SlateMoves \/ FilterLeague
BatchSteps  == QuoteAll \/ BackToBoard \/ PlaceAll \/ AddToParlay
JobEnds(j)  == QuotesDone(j) \/ PlacementsDone(j) \/ TransferLoaded(j) \/ TransferFails(j)
JobGoes(j)  == LoadForQuotes(j) \/ QuoteItem(j) \/ PlaceEntry(j)

LEMMA TraySteps ==
  ASSUME BoardPageNext
  PROVE  \/ BoardMoves \/ BatchSteps \/ Toggle \/ RemoveItem \/ Visit \/ Leave
         \/ AddEligibleToTeaser
         \/ \E j \in jobs : JobGoes(j) \/ JobEnds(j)
<1>1. ASSUME NEW j \in jobs, Continues(j) PROVE JobGoes(j) \/ JobEnds(j)
  BY <1>1 DEF Continues, JobGoes, JobEnds
<1>2. \/ SlateMoves \/ FilterLeague \/ Toggle \/ RemoveItem \/ Visit \/ Leave \/ QuoteAll
      \/ BackToBoard \/ PlaceAll \/ AddToParlay \/ AddEligibleToTeaser
      \/ \E j \in jobs : Continues(j)
  BY DEF BoardPageNext
<1> QED BY <1>1, <1>2 DEF BoardMoves, BatchSteps

LEMMA PicksStayOffered == ASSUME OffersPicks, BoardPageNext PROVE OffersPicks'
<1>1. slate \subseteq Pick /\ league \in [filter : BOOLEAN, board : SUBSET Pick] BY DEF OffersPicks
<1>2. \A f : Offered(f) \in SUBSET Pick BY <1>1 DEF Offered
<1>3. CASE SlateMoves BY <1>1, <1>3 DEF SlateMoves, OffersPicks
<1>4. CASE FilterLeague
  <2>1. league' = [filter |-> ~league.filter, board |-> Offered(~league.filter)]
        /\ UNCHANGED slate
    BY <1>4 DEF FilterLeague
  <2>2. (~league.filter) \in BOOLEAN OBVIOUS
  <2> QED BY <1>1, <1>2, <2>1, <2>2 DEF OffersPicks
<1>5. CASE Visit
  <2>1. league' = [filter |-> FALSE, board |-> Offered(FALSE)] /\ UNCHANGED slate
    BY <1>5 DEF Visit
  <2> QED BY <1>1, <1>2, <2>1 DEF OffersPicks
<1>6. CASE BatchSteps
  BY <1>1, <1>6 DEF BatchSteps, QuoteAll, BackToBoard, PlaceAll, AddToParlay, OffersPicks
<1>7. CASE Toggle \/ RemoveItem \/ Leave \/ AddEligibleToTeaser
  BY <1>1, <1>7 DEF Toggle, RemoveItem, Leave, AddEligibleToTeaser, OffersPicks
<1>8. ASSUME NEW j \in jobs, LoadForQuotes(j) PROVE OffersPicks'
  <2>1. CASE UNCHANGED league BY <1>1, <1>8, <2>1 DEF LoadForQuotes, OffersPicks
  <2>2. CASE \E b \in {Offered(league.filter), league.board} : league' = [league EXCEPT !.board = b]
    <3>1. PICK b \in {Offered(league.filter), league.board} : league' = [league EXCEPT !.board = b]
      BY <2>2
    <3>2. b \in SUBSET Pick BY <1>1, <1>2
    <3>3. UNCHANGED slate BY <1>8 DEF LoadForQuotes
    <3> QED BY <1>1, <3>1, <3>2, <3>3 DEF OffersPicks
  <2> QED BY <1>8, <2>1, <2>2 DEF LoadForQuotes
<1>9. ASSUME NEW j \in jobs, QuoteItem(j) \/ PlaceEntry(j) \/ JobEnds(j) PROVE OffersPicks'
  BY <1>1, <1>9
     DEF QuoteItem, PlaceEntry, JobEnds, QuotesDone, PlacementsDone, TransferLoaded,
         TransferFails, OffersPicks
<1> QED BY <1>3, <1>4, <1>5, <1>6, <1>7, <1>8, <1>9, TraySteps DEF BoardMoves, JobGoes

LEMMA TrayStep ==
  TrayInv /\ OffersPicks /\ [BoardPageNext]_boardPageVars => TrayInv' /\ OffersPicks'
<1> SUFFICES ASSUME TrayInv, OffersPicks, [BoardPageNext]_boardPageVars
             PROVE  TrayInv' /\ OffersPicks'
  OBVIOUS
<1>1. CASE UNCHANGED boardPageVars
  <2>1. TrayInv' BY <1>1, BoardMovesKeeps DEF boardPageVars
  <2>2. OffersPicks' BY <1>1 DEF boardPageVars, OffersPicks
  <2> QED BY <2>1, <2>2
<1>2. ASSUME BoardPageNext PROVE TrayInv'
  <2>1. CASE BoardMoves
    <3>1. UNCHANGED <<at, stored, tray, batch, jobs, slips, held, count>>
      BY <2>1 DEF BoardMoves, SlateMoves, FilterLeague
    <3> QED BY <3>1, BoardMovesKeeps
  <2>2. CASE BatchSteps
    BY <2>2, QuoteAllKeeps, BackToBoardKeeps, PlaceAllKeeps, AddToParlayKeeps DEF BatchSteps
  <2>3. CASE Toggle \/ RemoveItem \/ Visit \/ Leave \/ AddEligibleToTeaser
    BY <2>3, ToggleKeeps, RemoveItemKeeps, VisitKeeps, LeaveKeeps, AddEligibleToTeaserKeeps
  <2>4. ASSUME NEW j \in jobs, JobGoes(j) PROVE TrayInv'
    BY <2>4, LoadForQuotesKeeps, QuoteItemKeeps, PlaceEntryKeeps DEF JobGoes
  <2>5. ASSUME NEW j \in jobs, JobEnds(j) PROVE TrayInv'
    BY <2>5, QuotesDoneKeeps, PlacementsDoneKeeps, TransferLoadedKeeps, TransferFailsKeeps
       DEF JobEnds
  <2> QED BY <1>2, <2>1, <2>2, <2>3, <2>4, <2>5, TraySteps
<1>3. CASE BoardPageNext BY <1>2, <1>3, PicksStayOffered
<1> QED BY <1>1, <1>3

\* What OnlyShownPool says of a step.
WritesShown ==
  \A s \in Slug :
    /\ s # at.slug => stored'[s] = stored[s] /\ slips'[s] = slips[s]
    /\ slips'[s] # slips[s] =>
         /\ slips'[s] = Picks(tray)
         /\ stored'[s] = {}

LEMMA PersistWritesShown ==
  ASSUME NEW slug \in Slug, NEW items, Persist(slug, items), slug = at.slug, TrayInv,
         UNCHANGED slips
  PROVE  WritesShown
BY DEF Persist, WritesShown, TrayInv, TrayTypes, TraysAreSound, BySlug

LEMMA StepWritesShown == TrayInv /\ BoardPageNext => WritesShown
<1> SUFFICES ASSUME TrayInv, BoardPageNext PROVE WritesShown OBVIOUS
<1>1. CASE UNCHANGED <<stored, slips>> BY <1>1 DEF WritesShown
<1>2. CASE Toggle
  BY <1>2, TrayParts, PersistWritesShown DEF Toggle, Idle
<1>3. CASE RemoveItem
  BY <1>3, TrayParts, PersistWritesShown DEF RemoveItem, Idle
<1>4. CASE AddEligibleToTeaser
  <2>1. PICK t \in buildTeaserTransfer(tray, league.board) :
          slips' = [slips EXCEPT ![at.slug] = t.slip]
          /\ stored' = [stored EXCEPT ![at.slug] = t.remaining]
    BY <1>4 DEF AddEligibleToTeaser
  <2>2. t.slip = Picks(tray) /\ t.remaining = {}
    BY <1>4, TrayParts, TeaserTakesAll DEF AddEligibleToTeaser
  <2>3. BySlug(stored) /\ BySlug(slips) BY DEF TrayInv, TrayTypes, TraysAreSound
  <2> QED BY <2>1, <2>2, <2>3 DEF WritesShown, BySlug
<1>5. ASSUME NEW j \in jobs, QuotesDone(j) \/ PlacementsDone(j) PROVE WritesShown
  <2>1. UNCHANGED slips BY <1>5 DEF QuotesDone, PlacementsDone
  <2>2. CASE IsCurrent(j)
    <3>1. j.slug \in Slug /\ j.slug = at.slug BY <2>2, TrayParts DEF IsCurrent
    <3>2. \E items : Persist(j.slug, items) BY <1>5, <2>2 DEF QuotesDone, PlacementsDone
    <3> QED BY <2>1, <3>1, <3>2, PersistWritesShown
  <2>3. CASE ~IsCurrent(j) BY <1>5, <2>1, <2>3, <1>1 DEF QuotesDone, PlacementsDone
  <2> QED BY <2>2, <2>3
<1>6. ASSUME NEW j \in jobs, TransferLoaded(j) PROVE WritesShown
  <2>1. CASE Matches(j) /\ Picks(j.tray) \subseteq slate
    <3>1. slips' = [slips EXCEPT ![j.slug] = Picks(j.tray)]
          /\ stored' = [stored EXCEPT ![j.slug] = {}]
      BY <1>6, <2>1 DEF TransferLoaded
    <3>2. j.slug = at.slug /\ Picks(tray) = Picks(j.tray) BY <2>1 DEF Matches, IsCurrent
    <3>3. BySlug(stored) /\ BySlug(slips) BY DEF TrayInv, TrayTypes, TraysAreSound
    <3> QED BY <3>1, <3>2, <3>3 DEF WritesShown, BySlug
  <2>2. CASE ~(Matches(j) /\ Picks(j.tray) \subseteq slate)
    BY <1>6, <2>2, <1>1 DEF TransferLoaded
  <2> QED BY <2>1, <2>2
<1>7. CASE BoardMoves \/ BatchSteps \/ Visit \/ Leave
  BY <1>1, <1>7
     DEF BoardMoves, SlateMoves, FilterLeague, BatchSteps, QuoteAll, BackToBoard, PlaceAll,
         AddToParlay, Visit, Leave
<1>8. ASSUME NEW j \in jobs, JobGoes(j) \/ TransferFails(j) PROVE WritesShown
  BY <1>1, <1>8 DEF JobGoes, LoadForQuotes, QuoteItem, PlaceEntry, TransferFails
<1> QED BY <1>2, <1>3, <1>4, <1>5, <1>6, <1>7, <1>8, TraySteps DEF JobEnds

LEMMA TrayTellsTruth == TrayInv => TrayIsStored /\ ResultsAreTrue /\ PlacedLeavesTray
<1> SUFFICES ASSUME TrayInv PROVE TrayIsStored /\ ResultsAreTrue /\ PlacedLeavesTray OBVIOUS
<1>1. TrayIsStored BY TrayParts DEF TrayIsStored, OneSideEach, TrayInv, TrayShows
<1>2. ResultsAreTrue BY DEF ResultsAreTrue, TrayInv, BatchIsSound, Split, Truthful
<1>3. PlacedLeavesTray BY DEF PlacedLeavesTray, TrayInv, TrayShows
<1> QED BY <1>1, <1>2, <1>3

\* The odds board tells its member the truth through any interleaving of its
\* continuations: the tray shown is the one stored, every reviewed entry has one fate
\* and it is what the pool says, and a placed selection leaves the tray. A page writes
\* no other pool's tray or slip, and a slip only from the very tray it leaves empty.
THEOREM BoardPageIsAlwaysTrue == BoardPageSpec => BoardPageIsTrue
<1>1. BoardPageInit => OffersPicks BY DEF BoardPageInit, OffersPicks
<1>2. TrayInv /\ OffersPicks /\ [BoardPageNext]_boardPageVars => [WritesShown]_boardPageVars
  BY StepWritesShown
<1> QED
  BY <1>1, <1>2, TrayInitially, TrayStep, TrayTellsTruth, PTL
     DEF BoardPageSpec, BoardPageIsTrue, OnlyShownPool, WritesShown

-----------------------------------------------------------------------------
(* Sums over the rows of a table *)

\* Every nonempty set of naturals has a least element.
LEMMA LeastNatural ==
  ASSUME NEW T, T \subseteq Nat, T # {}
  PROVE  \E x \in T : \A y \in T : x <= y
<1> DEFINE R == {ss \in Nat \X Nat : ss[1] < ss[2]}
<1>1. IsWellFoundedOn(R, Nat)
  BY NatLessThanWellFounded, Zenon DEF OpToRel
<1>2. \A x, y \in Nat : x < y => <<x, y>> \in R
  OBVIOUS
<1> HIDE DEF R
<1>3. \E x \in T : \A y \in T : ~ (<<y, x>> \in R)
  BY <1>1, WFMin
<1>4. PICK x \in T : \A y \in T : ~ (<<y, x>> \in R) BY <1>3
<1>5. \A y \in T : ~ (y < x) BY <1>2, <1>4
<1>6. \A y \in T : x \in Int /\ y \in Int BY <1>4
<1> QED BY <1>4, <1>5, <1>6

\* Induction over the naturals for a set instead of a predicate.
LEMMA SetInduction ==
  ASSUME NEW S, 0 \in S, \A k \in Nat : k \in S => k + 1 \in S
  PROVE  Nat \subseteq S
<1> DEFINE T == Nat \ S
<1> SUFFICES ASSUME T # {} PROVE FALSE OBVIOUS
<1>1. T \subseteq Nat OBVIOUS
<1>2. PICK x \in T : \A y \in T : x <= y
  <2> HIDE DEF T
  <2> QED BY <1>1, LeastNatural
<1>3. x \in Nat /\ x # 0 /\ x \notin S BY <1>2
<1>4. x - 1 \in Nat /\ x - 1 \notin T
  <2> HIDE DEF T
  <2> QED BY <1>2, <1>3
<1>5. x - 1 \in S BY <1>4
<1>6. (x - 1) + 1 \in S BY <1>4, <1>5
<1> QED BY <1>3, <1>6

SumsTo(f, t, m) == t = [k \in 0..m |-> IF k = 0 THEN 0 ELSE t[k-1] + f[k]]

\* A table of running totals extends by one place.
LEMMA SumsToNext ==
  ASSUME NEW f, NEW m \in Nat, m # 0, NEW t, SumsTo(f, t, m-1)
  PROVE  SumsTo(f, [k \in 0..m |-> IF k = m THEN t[m-1] + f[m] ELSE t[k]], m)
<1> DEFINE u == [k \in 0..m |-> IF k = m THEN t[m-1] + f[m] ELSE t[k]]
<1>1. ASSUME NEW k \in 0..m PROVE u[k] = IF k = 0 THEN 0 ELSE u[k-1] + f[k]
  <2>1. CASE k = m BY <2>1
  <2>2. CASE k # m
    <3>1. k \in 0..m-1 BY <2>2
    <3>2. t[k] = IF k = 0 THEN 0 ELSE t[k-1] + f[k] BY <3>1 DEF SumsTo
    <3> QED BY <3>1, <3>2, <2>2
  <2> QED BY <2>1, <2>2
<1> QED BY <1>1 DEF SumsTo

\* Every row of numbers has a table of running totals.
LEMMA SumsExist ==
  ASSUME NEW n \in Nat, NEW f
  PROVE  \E t : SumsTo(f, t, n)
<1> DEFINE S == {m \in Nat : \E t : SumsTo(f, t, m)}
<1>1. 0 \in S
  <2>1. SumsTo(f, [k \in 0..0 |-> 0], 0) BY DEF SumsTo
  <2> QED BY <2>1
<1>2. ASSUME NEW m \in Nat, m \in S PROVE m + 1 \in S
  <2>1. PICK t : SumsTo(f, t, m) BY <1>2
  <2>2. PICK j \in Nat : j = m + 1 /\ j # 0 /\ j - 1 = m OBVIOUS
  <2>3. SumsTo(f, t, j-1) BY <2>1, <2>2
  <2>4. \E u : SumsTo(f, u, j) BY <2>2, <2>3, SumsToNext, Zenon
  <2> QED BY <2>2, <2>4
<1> HIDE DEF S
<1>3. n \in S BY <1>1, <1>2, SetInduction
<1> QED BY <1>3 DEF S

\* The recursive equations of RunningTotals.
LEMMA RunningTotalsStep ==
  ASSUME NEW n \in Nat, NEW f
  PROVE  /\ RunningTotals(f, n)[0] = 0
         /\ \A k \in 1..n : RunningTotals(f, n)[k] = RunningTotals(f, n)[k-1] + f[k]
<1>1. SumsTo(f, RunningTotals(f, n), n)
  <2>1. RunningTotals(f, n) = CHOOSE t : SumsTo(f, t, n)
    BY DEF RunningTotals, SumsTo
  <2> QED BY <2>1, SumsExist
<1> HIDE DEF RunningTotals
<1>2. \A k \in 0..n : RunningTotals(f, n)[k] =
                        IF k = 0 THEN 0 ELSE RunningTotals(f, n)[k-1] + f[k]
  BY <1>1 DEF SumsTo
<1> QED BY <1>2

\* A sum of integers is an integer.
LEMMA TotalType ==
  ASSUME NEW n \in Nat, NEW f \in [1..n -> Int]
  PROVE  Total(f, n) \in Int
<1> DEFINE r == RunningTotals(f, n)
           S == {k \in Nat : k <= n => r[k] \in Int}
<1>0. r[0] = 0 /\ \A k \in 1..n : r[k] = r[k-1] + f[k] BY RunningTotalsStep
<1> HIDE DEF r
<1>1. 0 \in S BY <1>0
<1>2. ASSUME NEW k \in Nat, k \in S PROVE k + 1 \in S
  <2> SUFFICES ASSUME k + 1 <= n PROVE r[k+1] \in Int OBVIOUS
  <2>1. k + 1 \in 1..n /\ (k + 1) - 1 = k /\ r[k] \in Int BY <1>2
  <2>2. r[k+1] = r[k] + f[k+1] /\ f[k+1] \in Int BY <1>0, <2>1
  <2> QED BY <2>1, <2>2
<1>3. n \in S
  <2> HIDE DEF S
  <2> QED BY <1>1, <1>2, SetInduction
<1> QED BY <1>3 DEF r, Total

\* Replacing one term moves the sum by the difference.
LEMMA TotalUpdate ==
  ASSUME NEW n \in Nat, NEW f \in [1..n -> Int], NEW i \in 1..n, NEW x \in Int
  PROVE  Total([f EXCEPT ![i] = x], n) = Total(f, n) - f[i] + x
<1> DEFINE g == [f EXCEPT ![i] = x]
           r == RunningTotals(f, n)
           q == RunningTotals(g, n)
           S == {k \in Nat : k <= n => /\ r[k] \in Int
                                       /\ q[k] = IF i <= k THEN r[k] - f[i] + x ELSE r[k]}
<1>0. r[0] = 0 /\ \A k \in 1..n : r[k] = r[k-1] + f[k] BY RunningTotalsStep
<1>a. q[0] = 0 /\ \A k \in 1..n : q[k] = q[k-1] + g[k] BY RunningTotalsStep
<1>b. \A k \in 1..n : g[k] = IF k = i THEN x ELSE f[k] OBVIOUS
<1> HIDE DEF r, q, g
<1>1. 0 \in S BY <1>0, <1>a
<1>2. ASSUME NEW k \in Nat, k \in S PROVE k + 1 \in S
  <2> SUFFICES ASSUME k + 1 <= n
               PROVE  /\ r[k+1] \in Int
                      /\ q[k+1] = IF i <= k + 1 THEN r[k+1] - f[i] + x ELSE r[k+1]
    OBVIOUS
  <2>1. k + 1 \in 1..n /\ (k + 1) - 1 = k OBVIOUS
  <2>2. r[k] \in Int /\ q[k] = IF i <= k THEN r[k] - f[i] + x ELSE r[k] BY <1>2
  <2>3. r[k+1] = r[k] + f[k+1] /\ f[k+1] \in Int BY <1>0, <2>1
  <2>4. q[k+1] = q[k] + (IF k + 1 = i THEN x ELSE f[k+1]) BY <1>a, <1>b, <2>1
  <2>5. f[i] \in Int OBVIOUS
  <2>6. CASE i = k + 1 BY <2>2, <2>3, <2>4, <2>5, <2>6
  <2>7. CASE i # k + 1 BY <2>2, <2>3, <2>4, <2>5, <2>7
  <2> QED BY <2>6, <2>7
<1>3. n \in S
  <2> HIDE DEF S
  <2> QED BY <1>1, <1>2, SetInduction
<1> QED BY <1>3 DEF r, q, g, Total

\* One more row adds its term.
LEMMA TotalGrows ==
  ASSUME NEW n \in Nat, NEW x \in [1..n -> Int], NEW y \in [1..n+1 -> Int],
         \A k \in 1..n : y[k] = x[k]
  PROVE  Total(x, n) \in Int /\ Total(y, n + 1) = Total(x, n) + y[n+1]
<1> DEFINE r == RunningTotals(x, n)
           q == RunningTotals(y, n + 1)
           S == {k \in Nat : k <= n => q[k] = r[k]}
<1>0. r[0] = 0 /\ \A k \in 1..n : r[k] = r[k-1] + x[k] BY RunningTotalsStep
<1>a. q[0] = 0 /\ \A k \in 1..n+1 : q[k] = q[k-1] + y[k]
  <2>1. n + 1 \in Nat OBVIOUS
  <2> QED BY <2>1, RunningTotalsStep
<1>b. Total(x, n) = r[n] /\ Total(y, n + 1) = q[n+1] BY DEF Total
<1>c. Total(x, n) \in Int BY TotalType
<1> HIDE DEF r, q
<1>1. 0 \in S BY <1>0, <1>a
<1>2. ASSUME NEW k \in Nat, k \in S PROVE k + 1 \in S
  <2> SUFFICES ASSUME k + 1 <= n PROVE q[k+1] = r[k+1] OBVIOUS
  <2>1. k + 1 \in 1..n /\ k + 1 \in 1..n+1 /\ (k + 1) - 1 = k /\ q[k] = r[k] BY <1>2
  <2>2. r[k+1] = r[k] + x[k+1] /\ q[k+1] = q[k] + y[k+1] /\ y[k+1] = x[k+1]
    BY <1>0, <1>a, <2>1
  <2> QED BY <2>1, <2>2
<1>3. n \in S
  <2> HIDE DEF S
  <2> QED BY <1>1, <1>2, SetInduction
<1>4. n + 1 \in 1..n+1 /\ (n + 1) - 1 = n /\ q[n] = r[n] BY <1>3
<1>5. q[n+1] = q[n] + y[n+1] BY <1>a, <1>4
<1> QED BY <1>b, <1>c, <1>4, <1>5

\* Column y is column x with one more number.
Lengthens(x, y, n, last) ==
  /\ x \in [1..n -> Int] /\ y \in [1..n+1 -> Int]
  /\ y[n+1] = last
  /\ \A k \in 1..n : y[k] = x[k]

\* The rows of one column that stand.
Only(st, x, n) == [k \in 1..n |-> IF k \in st THEN x[k] ELSE 0]

LEMMA OnlyType ==
  ASSUME NEW n \in Nat, NEW x \in [1..n -> Int], NEW st
  PROVE  Only(st, x, n) \in [1..n -> Int]
BY DEF Only

\* A row is added and stands.
LEMMA SumTakesOrder ==
  ASSUME NEW n \in Nat, NEW x, NEW y, NEW last, Lengthens(x, y, n, last),
         NEW st, st \subseteq 1..n,
         Total(x, n) = Total(Only(st, x, n), n)
  PROVE  Total(y, n + 1) = Total(Only(st \cup {n + 1}, y, n + 1), n + 1)
<1> DEFINE a == Only(st, x, n)
           b == Only(st \cup {n + 1}, y, n + 1)
<1>0. x \in [1..n -> Int] /\ y \in [1..n+1 -> Int] /\ \A k \in 1..n : y[k] = x[k]
  BY DEF Lengthens
<1>1. a \in [1..n -> Int] /\ b \in [1..n+1 -> Int] 
  <2>1. n + 1 \in Nat OBVIOUS
  <2> QED BY <1>0, <2>1, OnlyType
<1>2. \A k \in 1..n : k \in 1..n+1 /\ k # n + 1 OBVIOUS
<1>3. \A k \in 1..n : b[k] = a[k] BY <1>0, <1>2 DEF Only
<1>4. n + 1 \in 1..n+1 OBVIOUS
<1>5. b[n+1] = y[n+1] BY <1>4 DEF Only
<1> HIDE DEF a, b
<1>6. Total(b, n + 1) = Total(a, n) + b[n+1] BY <1>1, <1>3, TotalGrows
<1>7. Total(y, n + 1) = Total(x, n) + y[n+1] BY <1>0, TotalGrows
<1> QED BY <1>5, <1>6, <1>7 DEF a, b

\* A row is added that takes back row i, which stood.
LEMMA SumTakesBack ==
  ASSUME NEW n \in Nat, NEW x, NEW y, NEW st, st \subseteq 1..n, NEW i, i \in st,
         NEW last, last = -x[i], Lengthens(x, y, n, last),
         Total(x, n) = Total(Only(st, x, n), n)
  PROVE  Total(y, n + 1) = Total(Only(st \ {i}, y, n + 1), n + 1)
<1> DEFINE a == Only(st, x, n)
           c == Only(st \ {i}, x, n)
           b == Only(st \ {i}, y, n + 1)
<1>0. /\ x \in [1..n -> Int] /\ y \in [1..n+1 -> Int] /\ y[n+1] = -x[i]
      /\ \A k \in 1..n : y[k] = x[k]
  BY DEF Lengthens
<1>1. i \in 1..n OBVIOUS
<1>2. x[i] \in Int BY <1>0, <1>1
<1>3. a \in [1..n -> Int] /\ c \in [1..n -> Int] /\ b \in [1..n+1 -> Int] 
  <2>1. n + 1 \in Nat OBVIOUS
  <2> QED BY <1>0, <2>1, OnlyType
<1>4. a[i] = x[i] BY <1>1 DEF Only
<1>5. \A k \in 1..n : c[k] = IF k = i THEN 0 ELSE a[k] BY DEF Only
<1>6. \A k \in 1..n : k \in 1..n+1 BY SMT
<1>7. \A k \in 1..n : b[k] = c[k] BY <1>0, <1>6 DEF Only
<1>8. n + 1 \in 1..n+1 /\ n + 1 \notin st OBVIOUS
<1>9. b[n+1] = 0 BY <1>8 DEF Only
<1> HIDE DEF a, b, c
<1>10. c = [a EXCEPT ![i] = 0] BY <1>1, <1>3, <1>5
<1>11. Total(c, n) = Total(a, n) - a[i] + 0
  <2>1. 0 \in Int OBVIOUS
  <2>2. Total([a EXCEPT ![i] = 0], n) = Total(a, n) - a[i] + 0
    BY <1>1, <1>3, <2>1, TotalUpdate, Zenon
  <2> QED BY <1>10, <2>2
<1>12. Total(b, n + 1) = Total(c, n) + b[n+1] /\ Total(c, n) \in Int
  BY <1>3, <1>7, TotalGrows
<1>13. Total(y, n + 1) = Total(x, n) + y[n+1] /\ Total(x, n) \in Int
  BY <1>0, TotalGrows
<1>14. Total(a, n) = Total(x, n) BY DEF a
<1>15. Total(a, n) \in Int BY <1>3, TotalType
<1> QED BY <1>0, <1>2, <1>4, <1>9, <1>11, <1>12, <1>13, <1>14, <1>15 DEF b

-----------------------------------------------------------------------------
(***************************************************************************)
(* ShareOrders: what the commissioner's page for orders issues, and what   *)
(* it tells.  A quote's key stands for one review, and a review has one    *)
(* execution, under a key of its own.                                      *)
(***************************************************************************)

(* The inductive invariant *)

OrderForm    == [tag : {"editing", "quoting", "reviewing", "submitting", "gone"},
                 amount : Amount, quoteKey : Nat, quote : Nat, mutationKey : Nat, awaits : Nat]
ReversalForm == [tag : {"idle", "reviewing", "submitting"}, order : Nat,
                 reason : Reason \cup {NotSent}, key : Nat, awaits : Nat]
FrozenForm       == {r \in ReversalForm : r.awaits = 0}
OrderRow     == [shares : Int, price : Nat, reverses : Nat, review : Nat]
OrderBooks   == [version : Nat, active : BOOLEAN, member : BOOLEAN, orders : Seq(OrderRow)]
OrderView    == [orders : Seq(OrderRow), active : BOOLEAN]
OrderRequest == [n : Nat, body : Body]
AnswerRows   == [1..MaxOrderKeys -> Row \cup {NotSent}]
OrdersMade   == {m \in [keys : Nat, sends : Nat] : m.keys <= MaxOrderKeys}

\* The keys with a row, and every request under way or answered.
KeysOf(ans)       == {k \in 1..MaxOrderKeys : ans[k] # NotSent}
BodiesOf(wr, ans) == {w.body : w \in wr} \cup {ans[k].body : k \in KeysOf(ans)}

\* Reversals the page has in hand, or may get back.
InHand(rev, rel) == rel \cup (IF rev.tag = "idle" THEN {} ELSE {rev})

IsReviewed(f) == f.tag \in {"reviewing", "submitting", "gone"}

\* Each key is used for one quote, one execution, or reversals of one order.
KeysAreApart(bs, f, rs, n) ==
  /\ n \in Nat /\ n <= MaxOrderKeys /\ f.quoteKey \in 1..n
  /\ IsReviewed(f) => f.mutationKey \in 1..n /\ f.mutationKey # f.quoteKey
  /\ \A b \in bs :
       /\ b.key \in 1..n
       /\ \A c \in bs : b.key = c.key /\ b.kind # "reverse" => b = c
       /\ b.key = f.quoteKey => b = quoteBody(f)
       /\ IsReviewed(f) /\ b.key = f.mutationKey => b = buildShareOrderExecution(f)
  /\ \A r \in rs :
       /\ r.key \in 1..n /\ r.key # f.quoteKey
       /\ IsReviewed(f) => r.key # f.mutationKey
       /\ \A b \in bs : b.key = r.key => b.kind = "reverse"

\* A review has one execution.
ReviewsAreApart(bs, f, n) ==
  \A b \in bs : b.kind = "execute" =>
    /\ b.review \in 1..n
    /\ b.review = f.quoteKey => IsReviewed(f) /\ b = buildShareOrderExecution(f)
    /\ \A c \in bs : c.kind = "execute" /\ b.review = c.review => b = c

\* The page awaits an answer to what it last sent.
WireIsSound(wr, f, rev, n) ==
  /\ n \in Nat
  /\ \A w \in wr : /\ w.n \in 1..n /\ \A x \in wr : w.n = x.n => w = x
                   /\ w.n = f.awaits => w.body = IF f.tag = "quoting" THEN quoteBody(f)
                                                 ELSE buildShareOrderExecution(f)
  /\ f.awaits <= n /\ (f.awaits # 0 => f.tag \in {"quoting", "submitting"})
  /\ rev.awaits <= n /\ (rev.awaits # 0 => rev.tag # "idle")

\* A version that was quoted: at the current one, orders are taken from the member.
Quoted(v, bk) == v \in Nat /\ v <= bk.version /\ (v = bk.version => bk.member)

\* Nothing will come of execution m.
IsDead(m, bk) == m.version < bk.version \/ ~bk.active

\* Order i is one that was issued, not one that takes another back.
Original(orders, i) == i \in DOMAIN orders /\ orders[i].reverses = 0

QuotesAreKept(bk, ans, bs) ==
  /\ \A k \in KeysOf(ans) : ans[k].body.key = k /\ Quoted(ans[k].version, bk)
  /\ \A b \in bs : b.kind = "execute" => Quoted(b.version, bk)
  /\ \A b \in bs : b.kind = "reverse" => Original(bk.orders, b.order)

\* The execution m is order o.
IssuedFor(o, m) ==
  /\ m.kind = "execute" /\ o.reverses = 0
  /\ o.review = m.review /\ o.shares = m.amount /\ o.price = m.version

OrdersAreAnswered(bk, ans) ==
  /\ \A i \in DOMAIN bk.orders : bk.orders[i].reverses = 0 =>
       /\ bk.orders[i].price < bk.version
       /\ \E k \in KeysOf(ans) : IssuedFor(bk.orders[i], ans[k].body)
  /\ \A k \in KeysOf(ans) : ans[k].body.kind = "execute" =>
       \E i \in DOMAIN bk.orders : IssuedFor(bk.orders[i], ans[k].body)

\* Order o takes another back whole, at the price it was sold at.
TakesBack(o, orders) ==
  /\ Original(orders, o.reverses)
  /\ o.shares = -orders[o.reverses].shares /\ o.price = orders[o.reverses].price

OrdersTakeBack(orders) ==
  \A i \in DOMAIN orders : orders[i].reverses # 0 => TakesBack(orders[i], orders)

OrdersAreApart(orders) ==
  \A i, j \in DOMAIN orders : i # j =>
    /\ orders[i].reverses = 0 /\ orders[j].reverses = 0 =>
         orders[i].review # orders[j].review /\ orders[i].price # orders[j].price
    /\ orders[i].reverses # 0 /\ orders[j].reverses # 0 =>
         orders[i].reverses # orders[j].reverses

\* The totals are those of the orders that stand.
SharesOf(orders)   == [i \in 1..Len(orders) |-> orders[i].shares]
ValuesOf(orders)   == [i \in 1..Len(orders) |-> orders[i].shares * orders[i].price]
StandingOf(orders) == {i \in 1..Len(orders) : orders[i].reverses = 0 /\ i \notin Reversed(orders)}

SumStands(x, orders) ==
  Total(x, Len(orders)) = Total(Only(StandingOf(orders), x, Len(orders)), Len(orders))

SumsStand(orders) == SumStands(SharesOf(orders), orders) /\ SumStands(ValuesOf(orders), orders)

\* A refused review has no order, and gets none.
RefusalsStand(bk, ans, bs, ref) ==
  /\ \A b \in bs : b.kind = "execute" /\ b.review \in ref => IsDead(b, bk)
  /\ \A k \in KeysOf(ans) : ans[k].body.kind = "execute" => ans[k].body.review \notin ref

FormIsSound(f, bk, ans, ref, n) ==
  /\ ref \subseteq 1..n /\ f.quoteKey \notin ref
  /\ IsReviewed(f) => Quoted(f.quote, bk)
  /\ f.tag = "gone" => \E k \in KeysOf(ans) : ans[k].body = buildShareOrderExecution(f)

OrdersExist(rs, orders) == \A r \in rs : Original(orders, r.order)

\* The view is of orders on the books.
ViewIsOld(v, bk) ==
  /\ Len(v.orders) <= Len(bk.orders)
  /\ \A i \in DOMAIN v.orders : v.orders[i] = bk.orders[i]

OrdersTypes(bk, ans, wr, f, rev, v, rel, md) ==
  /\ bk \in OrderBooks /\ ans \in AnswerRows /\ wr \in SUBSET OrderRequest
  /\ f \in OrderForm /\ rev \in ReversalForm /\ rel \in SUBSET FrozenForm
  /\ v \in OrderView /\ md \in OrdersMade

OrdersSound(bk, ans, wr, f, rev, v, rel, md, ref) ==
  /\ OrdersTypes(bk, ans, wr, f, rev, v, rel, md)
  /\ KeysAreApart(BodiesOf(wr, ans), f, InHand(rev, rel), md.keys)
  /\ ReviewsAreApart(BodiesOf(wr, ans), f, md.keys)
  /\ WireIsSound(wr, f, rev, md.sends)
  /\ QuotesAreKept(bk, ans, BodiesOf(wr, ans))
  /\ OrdersAreAnswered(bk, ans) /\ OrdersAreApart(bk.orders)
  /\ OrdersTakeBack(bk.orders) /\ SumsStand(bk.orders)
  /\ RefusalsStand(bk, ans, BodiesOf(wr, ans), ref)
  /\ FormIsSound(f, bk, ans, ref, md.keys)
  /\ OrdersExist(InHand(rev, rel), bk.orders)
  /\ ViewIsOld(v, bk)

OrdersInv == OrdersSound(books, answered, wire, form, reversal, view, reloads, made, refused)

-----------------------------------------------------------------------------
(* Lemmas about requests and keys *)

LEMMA BodyFields ==
  ASSUME NEW f \in OrderForm
  PROVE  /\ quoteBody(f) \in Body /\ buildShareOrderExecution(f) \in Body
         /\ quoteBody(f).kind = "quote" /\ quoteBody(f).key = f.quoteKey
         /\ quoteBody(f).review = f.quoteKey
         /\ buildShareOrderExecution(f).kind = "execute"
         /\ buildShareOrderExecution(f).key = f.mutationKey
         /\ buildShareOrderExecution(f).review = f.quoteKey
         /\ buildShareOrderExecution(f).amount = f.amount
         /\ buildShareOrderExecution(f).version = f.quote
BY DEF quoteBody, buildShareOrderExecution, Body, OrderForm

LEMMA ReversalFields ==
  ASSUME NEW r \in ReversalForm
  PROVE  /\ reverseBody(r) \in Body /\ reverseBody(r).kind = "reverse"
         /\ reverseBody(r).key = r.key /\ reverseBody(r).order = r.order
BY DEF reverseBody, Body, ReversalForm

\* Fewer requests are as sound as more.
LEMMA FewerBodies ==
  ASSUME NEW bs, NEW bs2, bs2 \subseteq bs, NEW f, NEW rs, NEW rs2, rs2 \subseteq rs, NEW n,
         NEW bk, NEW ans, NEW ref
  PROVE  /\ KeysAreApart(bs, f, rs, n) => KeysAreApart(bs2, f, rs2, n)
         /\ ReviewsAreApart(bs, f, n) => ReviewsAreApart(bs2, f, n)
         /\ QuotesAreKept(bk, ans, bs) => QuotesAreKept(bk, ans, bs2)
         /\ RefusalsStand(bk, ans, bs, ref) => RefusalsStand(bk, ans, bs2, ref)
<1>1. KeysAreApart(bs, f, rs, n) => KeysAreApart(bs2, f, rs2, n) BY DEF KeysAreApart
<1>2. ReviewsAreApart(bs, f, n) => ReviewsAreApart(bs2, f, n) BY DEF ReviewsAreApart
<1>3. QuotesAreKept(bk, ans, bs) => QuotesAreKept(bk, ans, bs2) BY DEF QuotesAreKept
<1>4. RefusalsStand(bk, ans, bs, ref) => RefusalsStand(bk, ans, bs2, ref) BY DEF RefusalsStand
<1> QED BY <1>1, <1>2, <1>3, <1>4

\* What the page may send next: its quote, the execution it reviewed, or a reversal.
Sendable(c, f, rs) ==
  \/ c = quoteBody(f)
  \/ IsReviewed(f) /\ c = buildShareOrderExecution(f)
  \/ \E r \in rs : c = reverseBody(r)

LEMMA BodyJoins ==
  ASSUME NEW f \in OrderForm, NEW rs \in SUBSET ReversalForm, NEW bs, NEW n, NEW bk, NEW ans,
         NEW ref, NEW c, Sendable(c, f, rs),
         KeysAreApart(bs, f, rs, n), ReviewsAreApart(bs, f, n), QuotesAreKept(bk, ans, bs),
         RefusalsStand(bk, ans, bs, ref), FormIsSound(f, bk, ans, ref, n),
         OrdersExist(rs, bk.orders)
  PROVE  /\ c \in Body
         /\ KeysAreApart(bs \cup {c}, f, rs, n) /\ ReviewsAreApart(bs \cup {c}, f, n)
         /\ QuotesAreKept(bk, ans, bs \cup {c}) /\ RefusalsStand(bk, ans, bs \cup {c}, ref)
<1> DEFINE q == quoteBody(f)
           e == buildShareOrderExecution(f)
<1>1. /\ q \in Body /\ q.kind = "quote" /\ q.key = f.quoteKey
      /\ e \in Body /\ e.kind = "execute" /\ e.key = f.mutationKey /\ e.review = f.quoteKey
      /\ e.version = f.quote
  BY BodyFields
<1> HIDE DEF q, e
<1>2. /\ f.quoteKey \in 1..n
      /\ IsReviewed(f) => f.mutationKey \in 1..n /\ f.mutationKey # f.quoteKey
      /\ \A b \in bs : b.key = f.quoteKey => b = q
      /\ \A b \in bs : IsReviewed(f) /\ b.key = f.mutationKey => b = e
  BY DEF KeysAreApart, q, e
<1>3. \A r \in rs : r.key \in 1..n /\ r.key # f.quoteKey /\ (IsReviewed(f) => r.key # f.mutationKey)
                    /\ \A b \in bs : b.key = r.key => b.kind = "reverse"
  BY DEF KeysAreApart
<1>4. \A b \in bs : b.kind = "execute" /\ b.review = f.quoteKey => b = e
  BY DEF ReviewsAreApart, e
<1>5. f.quoteKey \notin ref /\ (IsReviewed(f) => Quoted(f.quote, bk)) BY DEF FormIsSound
<1>6. CASE c = q
  <2>1. KeysAreApart(bs \cup {c}, f, rs, n)
    BY <1>1, <1>2, <1>3, <1>6 DEF KeysAreApart, q, e
  <2>2. ReviewsAreApart(bs \cup {c}, f, n) BY <1>1, <1>6 DEF ReviewsAreApart
  <2>3. QuotesAreKept(bk, ans, bs \cup {c}) BY <1>1, <1>6 DEF QuotesAreKept
  <2>4. RefusalsStand(bk, ans, bs \cup {c}, ref) BY <1>1, <1>6 DEF RefusalsStand
  <2> QED BY <1>1, <1>6, <2>1, <2>2, <2>3, <2>4
<1>7. CASE IsReviewed(f) /\ c = e
  <2>1. KeysAreApart(bs \cup {c}, f, rs, n)
    BY <1>1, <1>2, <1>3, <1>7 DEF KeysAreApart, q, e
  <2>2. ReviewsAreApart(bs \cup {c}, f, n)
    BY <1>1, <1>2, <1>4, <1>7 DEF ReviewsAreApart, e
  <2>3. QuotesAreKept(bk, ans, bs \cup {c}) BY <1>1, <1>5, <1>7 DEF QuotesAreKept
  <2>4. RefusalsStand(bk, ans, bs \cup {c}, ref) BY <1>1, <1>5, <1>7 DEF RefusalsStand
  <2> QED BY <1>1, <1>7, <2>1, <2>2, <2>3, <2>4
<1>8. ASSUME NEW r \in rs, c = reverseBody(r)
      PROVE  /\ c \in Body
             /\ KeysAreApart(bs \cup {c}, f, rs, n) /\ ReviewsAreApart(bs \cup {c}, f, n)
             /\ QuotesAreKept(bk, ans, bs \cup {c}) /\ RefusalsStand(bk, ans, bs \cup {c}, ref)
  <2>1. c \in Body /\ c.kind = "reverse" /\ c.key = r.key /\ c.order = r.order
    BY <1>8, ReversalFields
  <2>2. KeysAreApart(bs \cup {c}, f, rs, n) BY <1>3, <2>1 DEF KeysAreApart
  <2>3. ReviewsAreApart(bs \cup {c}, f, n) BY <2>1 DEF ReviewsAreApart
  <2>4. QuotesAreKept(bk, ans, bs \cup {c}) BY <2>1 DEF QuotesAreKept, OrdersExist
  <2>5. RefusalsStand(bk, ans, bs \cup {c}, ref) BY <2>1 DEF RefusalsStand
  <2> QED BY <2>1, <2>2, <2>3, <2>4, <2>5
<1> QED BY <1>6, <1>7, <1>8 DEF Sendable, q, e

-----------------------------------------------------------------------------
(* The page, with whatever books, answers and requests there are *)

\* The form goes on with the same order, and awaits nothing.
SameOrder(f, f2) ==
  /\ f2 \in OrderForm /\ f2.amount = f.amount /\ f2.quoteKey = f.quoteKey /\ f2.quote = f.quote
  /\ f2.mutationKey = f.mutationKey /\ (IsReviewed(f2) <=> IsReviewed(f))

LEMMA SameBodies ==
  ASSUME NEW f, NEW f2, SameOrder(f, f2)
  PROVE  quoteBody(f2) = quoteBody(f) /\ buildShareOrderExecution(f2) = buildShareOrderExecution(f)
BY DEF SameOrder, quoteBody, buildShareOrderExecution

LEMMA FormGoesOn ==
  ASSUME NEW bk, NEW ans, NEW bs, NEW f, NEW f2, SameOrder(f, f2), NEW rs, NEW n, NEW ref,
         KeysAreApart(bs, f, rs, n), ReviewsAreApart(bs, f, n), FormIsSound(f, bk, ans, ref, n),
         f2.tag = "gone" => \E k \in KeysOf(ans) : ans[k].body = buildShareOrderExecution(f)
  PROVE  /\ KeysAreApart(bs, f2, rs, n) /\ ReviewsAreApart(bs, f2, n)
         /\ FormIsSound(f2, bk, ans, ref, n)
<1>1. quoteBody(f2) = quoteBody(f) /\ buildShareOrderExecution(f2) = buildShareOrderExecution(f)
  BY SameBodies
<1>2. KeysAreApart(bs, f2, rs, n) BY <1>1 DEF SameOrder, KeysAreApart
<1>3. ReviewsAreApart(bs, f2, n) BY <1>1 DEF SameOrder, ReviewsAreApart
<1>4. FormIsSound(f2, bk, ans, ref, n) BY <1>1 DEF SameOrder, FormIsSound
<1> QED BY <1>2, <1>3, <1>4

\* Reversals with the keys and orders of those in hand.
SameReversals(rs, rs2) ==
  /\ rs2 \in SUBSET ReversalForm
  /\ \A x \in rs2 : \E r \in rs : x.key = r.key /\ x.order = r.order

LEMMA ReversalsGoOn ==
  ASSUME NEW bs, NEW f, NEW rs, NEW rs2, SameReversals(rs, rs2), NEW n, NEW orders,
         KeysAreApart(bs, f, rs, n), OrdersExist(rs, orders)
  PROVE  KeysAreApart(bs, f, rs2, n) /\ OrdersExist(rs2, orders)
<1>1. KeysAreApart(bs, f, rs2, n) BY DEF SameReversals, KeysAreApart
<1>2. OrdersExist(rs2, orders) BY DEF SameReversals, OrdersExist
<1> QED BY <1>1, <1>2

\* What the page does without a new key: its order and its reversals go on.
LEMMA PageGoesOn ==
  ASSUME NEW bk, NEW ans, NEW wr, NEW f, NEW rev, NEW v, NEW rel, NEW md, NEW ref,
         OrdersSound(bk, ans, wr, f, rev, v, rel, md, ref),
         NEW f2, SameOrder(f, f2),
         f2.tag = "gone" => \E k \in KeysOf(ans) : ans[k].body = buildShareOrderExecution(f),
         NEW rev2 \in ReversalForm, NEW rel2 \in SUBSET FrozenForm,
         SameReversals(InHand(rev, rel), InHand(rev2, rel2)),
         WireIsSound(wr, f2, rev2, md.sends)
  PROVE  OrdersSound(bk, ans, wr, f2, rev2, v, rel2, md, ref)
<1> DEFINE bs == BodiesOf(wr, ans)
<1>1. /\ OrdersTypes(bk, ans, wr, f, rev, v, rel, md)
      /\ KeysAreApart(bs, f, InHand(rev, rel), md.keys) /\ ReviewsAreApart(bs, f, md.keys)
      /\ QuotesAreKept(bk, ans, bs) /\ OrdersAreAnswered(bk, ans) /\ OrdersAreApart(bk.orders)
      /\ OrdersTakeBack(bk.orders) /\ SumsStand(bk.orders)
      /\ RefusalsStand(bk, ans, bs, ref) /\ FormIsSound(f, bk, ans, ref, md.keys)
      /\ OrdersExist(InHand(rev, rel), bk.orders) /\ ViewIsOld(v, bk)
  BY DEF OrdersSound
<1> HIDE DEF bs
<1>2. /\ KeysAreApart(bs, f2, InHand(rev, rel), md.keys) /\ ReviewsAreApart(bs, f2, md.keys)
      /\ FormIsSound(f2, bk, ans, ref, md.keys)
  BY <1>1, FormGoesOn
<1>3. /\ KeysAreApart(bs, f2, InHand(rev2, rel2), md.keys)
      /\ OrdersExist(InHand(rev2, rel2), bk.orders)
  BY <1>1, <1>2, ReversalsGoOn
<1>4. OrdersTypes(bk, ans, wr, f2, rev2, v, rel2, md) BY <1>1 DEF OrdersTypes, SameOrder
<1> QED BY <1>1, <1>2, <1>3, <1>4 DEF OrdersSound, bs

LEMMA NothingAwaited ==
  ASSUME NEW wr, NEW f, NEW rev, NEW n, WireIsSound(wr, f, rev, n),
         NEW f2, f2 = f \/ f2.awaits = 0, NEW rev2, rev2 = rev \/ rev2.awaits = 0
  PROVE  WireIsSound(wr, f2, rev2, n)
BY DEF WireIsSound

\* A new editor has a key that nobody has used.
LEMMA EditorIsFresh ==
  ASSUME NEW bk, NEW ans, NEW wr, NEW f, NEW rev, NEW v, NEW rel, NEW md, NEW ref,
         OrdersSound(bk, ans, wr, f, rev, v, rel, md, ref),
         NEW a \in Amount, md.keys < MaxOrderKeys,
         NEW ref2, ref2 \subseteq ref \cup {f.quoteKey},
         RefusalsStand(bk, ans, BodiesOf(wr, ans), ref2)
  PROVE  OrdersSound(bk, ans, wr, Editing(a, md.keys + 1), rev, v, rel,
                     [md EXCEPT !.keys = md.keys + 1], ref2)
<1> DEFINE bs  == BodiesOf(wr, ans)
           f2  == Editing(a, md.keys + 1)
           md2 == [md EXCEPT !.keys = md.keys + 1]
           rs  == InHand(rev, rel)
<1>1. /\ OrdersTypes(bk, ans, wr, f, rev, v, rel, md)
      /\ KeysAreApart(bs, f, rs, md.keys) /\ ReviewsAreApart(bs, f, md.keys)
      /\ WireIsSound(wr, f, rev, md.sends)
      /\ QuotesAreKept(bk, ans, bs) /\ OrdersAreAnswered(bk, ans) /\ OrdersAreApart(bk.orders)
      /\ OrdersTakeBack(bk.orders) /\ SumsStand(bk.orders)
      /\ FormIsSound(f, bk, ans, ref, md.keys)
      /\ OrdersExist(rs, bk.orders) /\ ViewIsOld(v, bk)
  BY DEF OrdersSound
<1>2. md \in OrdersMade /\ md.keys \in Nat /\ md.keys + 1 \in Nat /\ md.keys + 1 <= MaxOrderKeys
  BY <1>1, OrdersAssumption DEF OrdersTypes, OrdersMade
<1>3. md2 \in OrdersMade /\ md2.keys = md.keys + 1 /\ md2.sends = md.sends
  BY <1>2 DEF OrdersMade
<1>4. f2 \in OrderForm /\ f2.tag = "editing" /\ f2.awaits = 0 /\ f2.quoteKey = md.keys + 1
      /\ ~IsReviewed(f2)
  BY <1>2 DEF Editing, OrderForm, IsReviewed
<1> HIDE DEF bs, f2, md2, rs
<1>5. KeysAreApart(bs, f2, rs, md2.keys) BY <1>1, <1>2, <1>3, <1>4 DEF KeysAreApart
<1>6. ReviewsAreApart(bs, f2, md2.keys) BY <1>1, <1>2, <1>3, <1>4 DEF ReviewsAreApart
<1>7. WireIsSound(wr, f2, rev, md2.sends) BY <1>1, <1>3, <1>4, NothingAwaited
<1>8. FormIsSound(f2, bk, ans, ref2, md2.keys)
  <2>1. f.quoteKey \in 1..md.keys BY <1>1 DEF KeysAreApart
  <2>2. ref2 \subseteq 1..md.keys BY <1>1, <2>1 DEF FormIsSound
  <2> QED BY <1>2, <1>3, <1>4, <2>2 DEF FormIsSound
<1>9. OrdersTypes(bk, ans, wr, f2, rev, v, rel, md2) BY <1>1, <1>3, <1>4 DEF OrdersTypes
<1>10. OrdersSound(bk, ans, wr, f2, rev, v, rel, md2, ref2)
  BY <1>1, <1>5, <1>6, <1>7, <1>8, <1>9 DEF OrdersSound, bs, rs
<1> QED BY <1>10 DEF f2, md2

\* A quote is shown for review: its execution gets a key that nobody has used.
LEMMA QuoteIsReviewed ==
  ASSUME NEW bk, NEW ans, NEW wr, NEW f, NEW rev, NEW v, NEW rel, NEW md, NEW ref,
         OrdersSound(bk, ans, wr, f, rev, v, rel, md, ref),
         f.tag = "quoting", md.keys < MaxOrderKeys, NEW version, Quoted(version, bk)
  PROVE  OrdersSound(bk, ans, wr,
                     [f EXCEPT !.tag = "reviewing", !.quote = version,
                               !.mutationKey = md.keys + 1, !.awaits = 0],
                     rev, v, rel, [md EXCEPT !.keys = md.keys + 1], ref)
<1> DEFINE bs  == BodiesOf(wr, ans)
           f2  == [f EXCEPT !.tag = "reviewing", !.quote = version,
                            !.mutationKey = md.keys + 1, !.awaits = 0]
           md2 == [md EXCEPT !.keys = md.keys + 1]
           rs  == InHand(rev, rel)
<1>1. /\ OrdersTypes(bk, ans, wr, f, rev, v, rel, md)
      /\ KeysAreApart(bs, f, rs, md.keys) /\ ReviewsAreApart(bs, f, md.keys)
      /\ WireIsSound(wr, f, rev, md.sends)
      /\ QuotesAreKept(bk, ans, bs) /\ OrdersAreAnswered(bk, ans) /\ OrdersAreApart(bk.orders)
      /\ OrdersTakeBack(bk.orders) /\ SumsStand(bk.orders)
      /\ RefusalsStand(bk, ans, bs, ref) /\ FormIsSound(f, bk, ans, ref, md.keys)
      /\ OrdersExist(rs, bk.orders) /\ ViewIsOld(v, bk)
  BY DEF OrdersSound
<1>2. md \in OrdersMade /\ md.keys \in Nat /\ md.keys + 1 \in Nat /\ md.keys + 1 <= MaxOrderKeys
  BY <1>1, OrdersAssumption DEF OrdersTypes, OrdersMade
<1>3. md2 \in OrdersMade /\ md2.keys = md.keys + 1 /\ md2.sends = md.sends
  BY <1>2 DEF OrdersMade
<1>4. f \in OrderForm /\ version \in Nat BY <1>1 DEF OrdersTypes, Quoted
<1>5. f2 \in OrderForm BY <1>2, <1>4 DEF OrderForm
<1>6. /\ f2.tag = "reviewing" /\ f2.awaits = 0 /\ f2.quoteKey = f.quoteKey /\ f2.quote = version
      /\ f2.mutationKey = md.keys + 1 /\ f2.amount = f.amount
  BY <1>4 DEF OrderForm
<1>7. quoteBody(f2) = quoteBody(f) /\ IsReviewed(f2) /\ ~IsReviewed(f)
  BY <1>6 DEF quoteBody, IsReviewed
<1> HIDE DEF bs, f2, md2, rs
<1>8. KeysAreApart(bs, f2, rs, md2.keys) BY <1>1, <1>2, <1>3, <1>6, <1>7 DEF KeysAreApart
<1>9. ReviewsAreApart(bs, f2, md2.keys) BY <1>1, <1>2, <1>3, <1>6, <1>7 DEF ReviewsAreApart
<1>10. WireIsSound(wr, f2, rev, md2.sends) BY <1>1, <1>3, <1>6, NothingAwaited
<1>11. FormIsSound(f2, bk, ans, ref, md2.keys) BY <1>1, <1>2, <1>3, <1>6 DEF FormIsSound
<1>12. OrdersTypes(bk, ans, wr, f2, rev, v, rel, md2) BY <1>1, <1>3, <1>5 DEF OrdersTypes
<1>13. OrdersSound(bk, ans, wr, f2, rev, v, rel, md2, ref)
  BY <1>1, <1>8, <1>9, <1>10, <1>11, <1>12 DEF OrdersSound, bs, rs
<1> QED BY <1>13 DEF f2, md2

\* The page sends a request and awaits its answer.
LEMMA PagePosts ==
  ASSUME NEW bk, NEW ans, NEW wr, NEW f, NEW rev, NEW v, NEW rel, NEW md, NEW ref,
         OrdersSound(bk, ans, wr, f, rev, v, rel, md, ref),
         NEW c, Sendable(c, f, InHand(rev, rel)),
         NEW f2, SameOrder(f, f2), f2.tag # "gone",
         NEW rev2 \in ReversalForm, SameReversals(InHand(rev, rel), InHand(rev2, rel)),
         f2 = f \/ /\ f2.awaits = md.sends + 1 /\ f2.tag \in {"quoting", "submitting"}
                   /\ c = IF f2.tag = "quoting" THEN quoteBody(f) ELSE buildShareOrderExecution(f),
         rev2 = rev \/ (rev2.awaits = md.sends + 1 /\ rev2.tag # "idle")
  PROVE  OrdersSound(bk, ans, wr \cup {[n |-> md.sends + 1, body |-> c]}, f2, rev2, v, rel,
                     [md EXCEPT !.sends = md.sends + 1], ref)
<1> DEFINE bs  == BodiesOf(wr, ans)
           rs  == InHand(rev, rel)
           x   == [n |-> md.sends + 1, body |-> c]
           wr2 == wr \cup {x}
           md2 == [md EXCEPT !.sends = md.sends + 1]
<1>1. /\ OrdersTypes(bk, ans, wr, f, rev, v, rel, md)
      /\ KeysAreApart(bs, f, rs, md.keys) /\ ReviewsAreApart(bs, f, md.keys)
      /\ WireIsSound(wr, f, rev, md.sends)
      /\ QuotesAreKept(bk, ans, bs) /\ OrdersAreAnswered(bk, ans) /\ OrdersAreApart(bk.orders)
      /\ OrdersTakeBack(bk.orders) /\ SumsStand(bk.orders)
      /\ RefusalsStand(bk, ans, bs, ref) /\ FormIsSound(f, bk, ans, ref, md.keys)
      /\ OrdersExist(rs, bk.orders) /\ ViewIsOld(v, bk)
  BY DEF OrdersSound
<1>2. md \in OrdersMade /\ md.sends \in Nat /\ md.sends + 1 \in Nat
  BY <1>1 DEF OrdersTypes, OrdersMade
<1>3. md2 \in OrdersMade /\ md2.keys = md.keys /\ md2.sends = md.sends + 1
  BY <1>2 DEF OrdersMade
<1>4. f \in OrderForm /\ rs \in SUBSET ReversalForm BY <1>1 DEF OrdersTypes, InHand, FrozenForm
<1>5. BodiesOf(wr2, ans) = bs \cup {c}
  <2>1. x.body = c OBVIOUS
  <2> HIDE DEF x
  <2>2. {w.body : w \in wr2} = {w.body : w \in wr} \cup {c} BY <2>1
  <2> QED BY <2>2 DEF BodiesOf
<1> HIDE DEF bs, rs
<1>6. /\ c \in Body
      /\ KeysAreApart(bs \cup {c}, f, rs, md.keys) /\ ReviewsAreApart(bs \cup {c}, f, md.keys)
      /\ QuotesAreKept(bk, ans, bs \cup {c}) /\ RefusalsStand(bk, ans, bs \cup {c}, ref)
  BY <1>1, <1>4, BodyJoins DEF rs
<1>7. /\ KeysAreApart(bs \cup {c}, f2, rs, md.keys) /\ ReviewsAreApart(bs \cup {c}, f2, md.keys)
      /\ FormIsSound(f2, bk, ans, ref, md.keys)
  BY <1>1, <1>6, FormGoesOn
<1>8. /\ KeysAreApart(bs \cup {c}, f2, InHand(rev2, rel), md.keys)
      /\ OrdersExist(InHand(rev2, rel), bk.orders)
  BY <1>1, <1>7, ReversalsGoOn DEF rs
<1>9. x.n = md.sends + 1 /\ x.body = c /\ x \in OrderRequest BY <1>2, <1>6 DEF OrderRequest
<1> HIDE DEF x
<1>10. WireIsSound(wr2, f2, rev2, md2.sends)
  <2>1. quoteBody(f2) = quoteBody(f) /\ buildShareOrderExecution(f2) = buildShareOrderExecution(f)
    BY SameBodies
  <2>2. f2.awaits <= md.sends + 1 /\ (f2.awaits # 0 => f2.tag \in {"quoting", "submitting"})
    BY <1>1, <1>2, <1>4 DEF WireIsSound, OrderForm
  <2>3. rev2.awaits <= md.sends + 1 /\ (rev2.awaits # 0 => rev2.tag # "idle")
    BY <1>1, <1>2 DEF WireIsSound, OrdersTypes, ReversalForm
  <2>4. \A w \in wr : w.n \in 1..md.sends BY <1>1 DEF WireIsSound
  <2>5. \A w \in wr2 : w.n \in 1..(md.sends + 1) /\ \A y \in wr2 : w.n = y.n => w = y
    BY <1>1, <1>2, <1>9, <2>4 DEF WireIsSound
  <2>6. \A w \in wr2 : w.n = f2.awaits => w.body = IF f2.tag = "quoting" THEN quoteBody(f2)
                                                   ELSE buildShareOrderExecution(f2)
    <3>1. CASE f2 = f
      <4>1. f.awaits <= md.sends /\ f.awaits \in Nat BY <1>1, <1>4 DEF WireIsSound, OrderForm
      <4>2. x.n # f.awaits BY <1>2, <1>9, <4>1
      <4> QED BY <1>1, <2>1, <3>1, <4>2 DEF WireIsSound
    <3>2. CASE f2.awaits = md.sends + 1 /\ c = IF f2.tag = "quoting" THEN quoteBody(f)
                                               ELSE buildShareOrderExecution(f)
      <4>1. \A w \in wr : w.n # f2.awaits BY <1>2, <2>4, <3>2
      <4> QED BY <1>9, <2>1, <3>2, <4>1
    <3> QED BY <3>1, <3>2
  <2> QED BY <1>2, <1>3, <2>2, <2>3, <2>5, <2>6 DEF WireIsSound
<1>11. OrdersTypes(bk, ans, wr2, f2, rev2, v, rel, md2)
  BY <1>1, <1>3, <1>9 DEF OrdersTypes, SameOrder
<1> HIDE DEF wr2, md2
<1>12. OrdersSound(bk, ans, wr2, f2, rev2, v, rel, md2, ref)
  BY <1>1, <1>3, <1>5, <1>6, <1>7, <1>8, <1>10, <1>11 DEF OrdersSound
<1> QED BY <1>12 DEF wr2, md2, x

-----------------------------------------------------------------------------
(* What the page does when an answer reaches it, or none does *)

\* What an answer to what the page awaits says is so.
AnswerIsTrue(n, answer, version, bk, ans, wr, f, ref) ==
  /\ answer \in {"ok", "stale", "terminal", "lost"}
  /\ n = f.awaits /\ f.tag = "quoting" /\ answer = "ok" => Quoted(version, bk)
  /\ n = f.awaits /\ f.tag = "submitting" /\ answer = "ok" =>
       \E k \in KeysOf(ans) : ans[k].body = buildShareOrderExecution(f)
  /\ n = f.awaits /\ f.tag = "submitting" /\ answer \in {"stale", "terminal"} =>
       RefusalsStand(bk, ans, BodiesOf(wr, ans), ref \cup {f.quoteKey})

PageSound(bk, ans, wr, v) ==
  OrdersSound(bk, ans, wr, form, reversal, v, reloads, made, refused)

PageStaysSound(bk, ans, wr, v) ==
  OrdersSound(bk, ans, wr, form', reversal', v, reloads', made', refused')

LEMMA PageTypes ==
  ASSUME NEW bk, NEW ans, NEW wr, NEW v, PageSound(bk, ans, wr, v)
  PROVE  /\ form \in OrderForm /\ reversal \in ReversalForm /\ reloads \in SUBSET ReversalForm
         /\ reloads \in SUBSET FrozenForm /\ made \in OrdersMade /\ WireIsSound(wr, form, reversal, made.sends)
BY DEF PageSound, OrdersSound, OrdersTypes, FrozenForm

LEMMA SameForm ==
  ASSUME NEW f \in OrderForm, NEW t \in {"editing", "quoting", "reviewing", "submitting", "gone"},
         NEW n \in Nat, t \in {"editing", "quoting"} <=> f.tag \in {"editing", "quoting"}
  PROVE  /\ SameOrder(f, [f EXCEPT !.tag = t, !.awaits = n])
         /\ [f EXCEPT !.tag = t, !.awaits = n].tag = t
         /\ [f EXCEPT !.tag = t, !.awaits = n].awaits = n
BY DEF SameOrder, OrderForm, IsReviewed

LEMMA QuoteAnswerIsHeard ==
  ASSUME NEW bk, NEW ans, NEW wr, NEW v, PageSound(bk, ans, wr, v), NEW answer, NEW version,
         AnswerIsTrue(form.awaits, answer, version, bk, ans, wr, form, refused),
         QuoteAnswered(answer, version)
  PROVE  PageStaysSound(bk, ans, wr, v)
<1> USE DEF PageSound, PageStaysSound
<1>1. CASE commandOutcome(answer) = "ok"
  <2>1. answer = "ok" /\ form.tag = "quoting" /\ made.keys < MaxOrderKeys
    BY <1>1 DEF QuoteAnswered, commandOutcome
  <2>2. Quoted(version, bk) BY <2>1 DEF AnswerIsTrue
  <2>3. /\ form' = [form EXCEPT !.tag = "reviewing", !.quote = version,
                                !.mutationKey = made.keys + 1, !.awaits = 0]
        /\ made' = [made EXCEPT !.keys = made.keys + 1]
        /\ reversal' = reversal /\ reloads' = reloads /\ refused' = refused
    BY <1>1 DEF QuoteAnswered, Fresh
  <2>4. OrdersSound(bk, ans, wr, [form EXCEPT !.tag = "reviewing", !.quote = version,
                                              !.mutationKey = made.keys + 1, !.awaits = 0],
                    reversal, v, reloads, [made EXCEPT !.keys = made.keys + 1], refused)
    BY <2>1, <2>2, QuoteIsReviewed
  <2> QED BY <2>3, <2>4
<1>2. CASE commandOutcome(answer) # "ok"
  <2> DEFINE f2 == [form EXCEPT !.tag = "editing", !.awaits = 0]
  <2>1. /\ form.tag = "quoting" /\ form' = f2
        /\ reversal' = reversal /\ reloads' = reloads /\ refused' = refused /\ made' = made
    BY <1>2 DEF QuoteAnswered
  <2>2. SameOrder(form, f2) /\ f2.tag = "editing" /\ f2.awaits = 0 BY <2>1, PageTypes, SameForm
  <2> HIDE DEF f2
  <2>3. WireIsSound(wr, f2, reversal, made.sends) BY <2>2, PageTypes, NothingAwaited
  <2>4. SameReversals(InHand(reversal, reloads), InHand(reversal, reloads))
    BY PageTypes DEF SameReversals, InHand
  <2>5. OrdersSound(bk, ans, wr, f2, reversal, v, reloads, made, refused)
    BY <2>2, <2>3, <2>4, PageTypes, PageGoesOn
  <2> QED BY <2>1, <2>5
<1> QED BY <1>1, <1>2

LEMMA ExecutionIsHeard ==
  ASSUME NEW bk, NEW ans, NEW wr, NEW v, PageSound(bk, ans, wr, v), NEW answer, NEW version,
         AnswerIsTrue(form.awaits, answer, version, bk, ans, wr, form, refused),
         ExecuteAnswered(answer)
  PROVE  PageStaysSound(bk, ans, wr, v)
<1> USE DEF PageSound, PageStaysSound
<1>0. form.tag = "submitting" /\ form \in OrderForm BY PageTypes DEF ExecuteAnswered
<1>1. CASE commandOutcome(answer) = "ok"
  <2> DEFINE f2 == [form EXCEPT !.tag = "gone", !.awaits = 0]
  <2>1. /\ form' = f2 /\ reversal' = NotReversing /\ reloads' = {}
        /\ made' = made /\ refused' = refused /\ answer = "ok"
    BY <1>1 DEF ExecuteAnswered, commandOutcome
  <2>2. SameOrder(form, f2) /\ f2.tag = "gone" /\ f2.awaits = 0 BY <1>0, SameForm
  <2> HIDE DEF f2
  <2>3. \E k \in KeysOf(ans) : ans[k].body = buildShareOrderExecution(form)
    BY <1>0, <2>1 DEF AnswerIsTrue
  <2>4. NotReversing \in ReversalForm /\ NotReversing.awaits = 0 /\ NotReversing.tag = "idle"
    BY DEF NotReversing, ReversalForm
  <2>5. WireIsSound(wr, f2, NotReversing, made.sends) BY <2>2, <2>4, PageTypes, NothingAwaited
  <2>6. SameReversals(InHand(reversal, reloads), InHand(NotReversing, {}))
    BY <2>4 DEF SameReversals, InHand
  <2>7. OrdersSound(bk, ans, wr, f2, NotReversing, v, {}, made, refused)
    BY <2>2, <2>3, <2>4, <2>5, <2>6, PageGoesOn
  <2> QED BY <2>1, <2>7
<1>2. CASE commandOutcome(answer) \in {"stale", "terminal"}
  <2>1. answer \in {"stale", "terminal"} BY <1>2 DEF commandOutcome
  <2>2. RefusalsStand(bk, ans, BodiesOf(wr, ans), refused \cup {form.quoteKey})
    BY <1>0, <2>1 DEF AnswerIsTrue
  <2>3. /\ made.keys < MaxOrderKeys /\ form' = Editing(form.amount, made.keys + 1)
        /\ made' = [made EXCEPT !.keys = made.keys + 1]
        /\ refused' = refused \cup {form.quoteKey} /\ reversal' = reversal /\ reloads' = reloads
    BY <1>2 DEF ExecuteAnswered, freshEditor, Fresh
  <2>4. form.amount \in Amount BY <1>0 DEF OrderForm
  <2>5. OrdersSound(bk, ans, wr, Editing(form.amount, made.keys + 1), reversal, v, reloads,
                    [made EXCEPT !.keys = made.keys + 1], refused \cup {form.quoteKey})
    BY <2>2, <2>3, <2>4, EditorIsFresh
  <2> QED BY <2>3, <2>5
<1>3. CASE commandOutcome(answer) \notin {"ok", "stale", "terminal"}
  <2> DEFINE f2 == [form EXCEPT !.tag = "reviewing", !.awaits = 0]
  <2>1. /\ form' = f2 /\ made' = made /\ refused' = refused
        /\ reversal' = reversal /\ reloads' = reloads
    BY <1>3 DEF ExecuteAnswered
  <2>2. SameOrder(form, f2) /\ f2.tag = "reviewing" /\ f2.awaits = 0 BY <1>0, SameForm
  <2> HIDE DEF f2
  <2>3. WireIsSound(wr, f2, reversal, made.sends) BY <2>2, PageTypes, NothingAwaited
  <2>4. SameReversals(InHand(reversal, reloads), InHand(reversal, reloads))
    BY PageTypes DEF SameReversals, InHand
  <2>5. OrdersSound(bk, ans, wr, f2, reversal, v, reloads, made, refused)
    BY <2>2, <2>3, <2>4, PageTypes, PageGoesOn
  <2> QED BY <2>1, <2>5
<1> QED BY <1>1, <1>2, <1>3

LEMMA ReversalIsHeard ==
  ASSUME NEW bk, NEW ans, NEW wr, NEW v, PageSound(bk, ans, wr, v), NEW answer,
         reversal.awaits # 0, ReverseAnswered(answer)
  PROVE  PageStaysSound(bk, ans, wr, v)
<1> USE DEF PageSound, PageStaysSound
<1> DEFINE revived == [reversal EXCEPT !.tag = "reviewing", !.awaits = 0]
<1>1. /\ form' = form /\ made' = made /\ refused' = refused
      /\ \/ reversal' = NotReversing /\ reloads' = reloads \cup {revived}
         \/ reversal' = revived /\ reloads' = reloads
  BY DEF ReverseAnswered
<1>2. reversal.tag # "idle" /\ reversal \in ReversalForm BY PageTypes DEF WireIsSound
<1>3. /\ revived \in ReversalForm /\ revived.tag = "reviewing" /\ revived.awaits = 0
      /\ revived.key = reversal.key /\ revived.order = reversal.order
  BY <1>2 DEF ReversalForm
<1>4. NotReversing \in ReversalForm /\ NotReversing.awaits = 0 /\ NotReversing.tag = "idle"
  BY DEF NotReversing, ReversalForm
<1> HIDE DEF revived
<1>5. /\ SameOrder(form, form)
      /\ form.tag = "gone" => \E k \in KeysOf(ans) : ans[k].body = buildShareOrderExecution(form)
  BY PageTypes DEF SameOrder, OrdersSound, FormIsSound
<1>6. SameReversals(InHand(reversal, reloads), InHand(reversal', reloads'))
  <2>1. InHand(reversal, reloads) = reloads \cup {reversal} BY <1>2 DEF InHand
  <2>2. InHand(reversal', reloads') = reloads \cup {revived} BY <1>1, <1>3, <1>4 DEF InHand
  <2> QED BY <1>3, <2>1, <2>2, PageTypes DEF SameReversals
<1>7. WireIsSound(wr, form, reversal', made.sends)
  BY <1>1, <1>3, <1>4, PageTypes, NothingAwaited
<1>8. reversal' \in ReversalForm /\ reloads' \in SUBSET FrozenForm
  BY <1>1, <1>3, <1>4, PageTypes DEF FrozenForm
<1>9. OrdersSound(bk, ans, wr, form, reversal', v, reloads', made, refused)
  BY <1>5, <1>6, <1>7, <1>8, PageGoesOn
<1> QED BY <1>1, <1>9

LEMMA PageIsAnswered ==
  ASSUME NEW bk, NEW ans, NEW wr, NEW v, PageSound(bk, ans, wr, v), NEW n, NEW answer, NEW version,
         n # 0, AnswerIsTrue(n, answer, version, bk, ans, wr, form, refused),
         PageHears(n, answer, version)
  PROVE  PageStaysSound(bk, ans, wr, v)
<1>1. CASE form.awaits = n /\ QuoteAnswered(answer, version) BY <1>1, QuoteAnswerIsHeard
<1>2. CASE form.awaits = n /\ ExecuteAnswered(answer) BY <1>2, ExecutionIsHeard
<1>3. CASE reversal.awaits = n /\ ReverseAnswered(answer) BY <1>3, ReversalIsHeard
<1> QED BY <1>1, <1>2, <1>3 DEF PageHears

-----------------------------------------------------------------------------
(* The pool *)

\* The books as they are, or after more commands.
Grown(bk, bk2) ==
  /\ bk2 \in OrderBooks /\ bk.version < bk2.version /\ (~bk.active => ~bk2.active)
  /\ Len(bk.orders) <= Len(bk2.orders)
  /\ \A i \in DOMAIN bk.orders : bk2.orders[i] = bk.orders[i]

LEMMA LaterBooks ==
  ASSUME NEW bk \in OrderBooks, NEW bk2, bk2 = bk \/ Grown(bk, bk2)
  PROVE  /\ bk2 \in OrderBooks /\ bk.version <= bk2.version
         /\ \A u : Quoted(u, bk) => Quoted(u, bk2)
         /\ \A m \in Body : IsDead(m, bk) => IsDead(m, bk2)
         /\ DOMAIN bk.orders \subseteq DOMAIN bk2.orders /\ Len(bk.orders) <= Len(bk2.orders)
         /\ \A i \in DOMAIN bk.orders : bk2.orders[i] = bk.orders[i]
<1>1. bk2 \in OrderBooks BY DEF Grown
<1>2. /\ bk.version \in Nat /\ bk2.version \in Nat
      /\ bk.orders \in Seq(OrderRow) /\ bk2.orders \in Seq(OrderRow)
      /\ Len(bk.orders) \in Nat /\ Len(bk2.orders) \in Nat
      /\ DOMAIN bk.orders = 1..Len(bk.orders) /\ DOMAIN bk2.orders = 1..Len(bk2.orders)
  BY <1>1 DEF OrderBooks
<1>3. bk.version <= bk2.version /\ Len(bk.orders) <= Len(bk2.orders) BY <1>2 DEF Grown
<1>4. \A u : Quoted(u, bk) => Quoted(u, bk2) BY <1>2 DEF Grown, Quoted
<1>5. \A m \in Body : IsDead(m, bk) => IsDead(m, bk2)
  <2>1. \A m \in Body : m.version \in Nat BY DEF Body
  <2> QED BY <1>2, <2>1 DEF Grown, IsDead
<1>6. DOMAIN bk.orders \subseteq DOMAIN bk2.orders BY <1>2, <1>3
<1>7. \A i \in DOMAIN bk.orders : bk2.orders[i] = bk.orders[i] BY DEF Grown
<1> QED BY <1>1, <1>3, <1>4, <1>5, <1>6, <1>7

LEMMA BodyTypes ==
  ASSUME NEW bk, NEW ans, NEW wr, NEW f, NEW rev, NEW v, NEW rel, NEW md,
         OrdersTypes(bk, ans, wr, f, rev, v, rel, md)
  PROVE  /\ BodiesOf(wr, ans) \subseteq Body
         /\ \A k \in KeysOf(ans) : ans[k] \in Row /\ ans[k].body \in Body
<1>1. \A k \in KeysOf(ans) : ans[k] \in Row
  BY DEF OrdersTypes, AnswerRows, KeysOf
<1>2. \A k \in KeysOf(ans) : ans[k].body \in Body BY <1>1 DEF Row
<1>3. \A w \in wr : w.body \in Body BY DEF OrdersTypes, OrderRequest
<1> QED BY <1>1, <1>2, <1>3 DEF BodiesOf

RowsKept(ans, ans2) == \A k \in KeysOf(ans) : k \in KeysOf(ans2) /\ ans2[k] = ans[k]

RowsAreSound(ks, ans, bk, ref) ==
  \A k \in ks : /\ ans[k].body.key = k /\ Quoted(ans[k].version, bk)
                /\ ans[k].body.kind = "execute" => ans[k].body.review \notin ref

\* Rows are added, requests handled, and the books move on: what is known stays known.
LEMMA PoolMovesOn ==
  ASSUME NEW bk, NEW ans, NEW wr, NEW f, NEW rev, NEW v, NEW rel, NEW md, NEW ref,
         OrdersSound(bk, ans, wr, f, rev, v, rel, md, ref),
         NEW bk2, bk2 = bk \/ Grown(bk, bk2),
         NEW ans2 \in AnswerRows, NEW wr2, wr2 \subseteq wr,
         BodiesOf(wr2, ans2) \subseteq BodiesOf(wr, ans),
         RowsKept(ans, ans2), RowsAreSound(KeysOf(ans2) \ KeysOf(ans), ans2, bk2, ref),
         OrdersAreAnswered(bk2, ans2), OrdersAreApart(bk2.orders),
         OrdersTakeBack(bk2.orders), SumsStand(bk2.orders)
  PROVE  OrdersSound(bk2, ans2, wr2, f, rev, v, rel, md, ref)
<1> DEFINE bs  == BodiesOf(wr, ans)
           bs2 == BodiesOf(wr2, ans2)
           rs  == InHand(rev, rel)
<1> USE DEF RowsKept, RowsAreSound
<1>1. /\ OrdersTypes(bk, ans, wr, f, rev, v, rel, md)
      /\ KeysAreApart(bs, f, rs, md.keys) /\ ReviewsAreApart(bs, f, md.keys)
      /\ WireIsSound(wr, f, rev, md.sends)
      /\ QuotesAreKept(bk, ans, bs)
      /\ RefusalsStand(bk, ans, bs, ref) /\ FormIsSound(f, bk, ans, ref, md.keys)
      /\ OrdersExist(rs, bk.orders) /\ ViewIsOld(v, bk)
  BY DEF OrdersSound
<1>2. bk \in OrderBooks /\ v \in OrderView /\ bs \subseteq Body BY <1>1, BodyTypes DEF OrdersTypes
<1>3. /\ bk2 \in OrderBooks /\ bk.version <= bk2.version
      /\ \A u : Quoted(u, bk) => Quoted(u, bk2)
      /\ \A m \in Body : IsDead(m, bk) => IsDead(m, bk2)
      /\ DOMAIN bk.orders \subseteq DOMAIN bk2.orders /\ Len(bk.orders) <= Len(bk2.orders)
      /\ \A i \in DOMAIN bk.orders : bk2.orders[i] = bk.orders[i]
  BY <1>2, LaterBooks
<1> HIDE DEF bs, bs2, rs
<1>4. KeysAreApart(bs2, f, rs, md.keys) /\ ReviewsAreApart(bs2, f, md.keys)
  BY <1>1, FewerBodies DEF bs, bs2
<1>5. WireIsSound(wr2, f, rev, md.sends) BY <1>1 DEF WireIsSound
<1>6. QuotesAreKept(bk2, ans2, bs2)
  <2>1. \A k \in KeysOf(ans2) : ans2[k].body.key = k /\ Quoted(ans2[k].version, bk2)
    BY <1>1, <1>3 DEF QuotesAreKept
  <2>2. bs2 \subseteq bs BY DEF bs, bs2
  <2> QED BY <1>1, <1>3, <2>1, <2>2 DEF QuotesAreKept, Original
<1>7. RefusalsStand(bk2, ans2, bs2, ref)
  <2>1. bs2 \subseteq bs BY DEF bs, bs2
  <2>2. \A b \in bs2 : b.kind = "execute" /\ b.review \in ref => IsDead(b, bk2)
    BY <1>1, <1>2, <1>3, <2>1 DEF RefusalsStand
  <2>3. \A k \in KeysOf(ans2) : ans2[k].body.kind = "execute" => ans2[k].body.review \notin ref
    BY <1>1 DEF RefusalsStand
  <2> QED BY <2>2, <2>3 DEF RefusalsStand
<1>8. FormIsSound(f, bk2, ans2, ref, md.keys)
  <2>1. f.tag = "gone" => \E k \in KeysOf(ans2) : ans2[k].body = buildShareOrderExecution(f)
    BY <1>1 DEF FormIsSound
  <2> QED BY <1>1, <1>3, <2>1 DEF FormIsSound
<1>9. OrdersExist(rs, bk2.orders) BY <1>1, <1>3 DEF OrdersExist, Original
<1>10. ViewIsOld(v, bk2)
  <2>1. v.orders \in Seq(OrderRow) /\ bk.orders \in Seq(OrderRow) /\ bk2.orders \in Seq(OrderRow)
    BY <1>2, <1>3 DEF OrderView, OrderBooks
  <2>2. /\ Len(v.orders) \in Nat /\ Len(bk.orders) \in Nat /\ Len(bk2.orders) \in Nat
        /\ DOMAIN v.orders = 1..Len(v.orders) /\ DOMAIN bk.orders = 1..Len(bk.orders)
    BY <2>1
  <2>3. /\ Len(v.orders) <= Len(bk.orders)
        /\ \A i \in DOMAIN v.orders : v.orders[i] = bk.orders[i]
    BY <1>1 DEF ViewIsOld
  <2>4. Len(v.orders) <= Len(bk2.orders) BY <1>3, <2>2, <2>3
  <2>5. DOMAIN v.orders \subseteq DOMAIN bk.orders BY <2>2, <2>3
  <2> QED BY <1>3, <2>3, <2>4, <2>5 DEF ViewIsOld
<1>11. OrdersTypes(bk2, ans2, wr2, f, rev, v, rel, md) BY <1>1, <1>3 DEF OrdersTypes
<1> QED BY <1>4, <1>5, <1>6, <1>7, <1>8, <1>9, <1>10, <1>11 DEF OrdersSound, bs2, rs

\* A request is handled and leaves no trace.
LEMMA PoolDrops ==
  ASSUME NEW bk, NEW ans, NEW wr, NEW f, NEW rev, NEW v, NEW rel, NEW md, NEW ref,
         OrdersSound(bk, ans, wr, f, rev, v, rel, md, ref), NEW wr2, wr2 \subseteq wr
  PROVE  OrdersSound(bk, ans, wr2, f, rev, v, rel, md, ref)
<1>1. /\ ans \in AnswerRows /\ OrdersAreAnswered(bk, ans) /\ OrdersAreApart(bk.orders)
      /\ OrdersTakeBack(bk.orders) /\ SumsStand(bk.orders)
  BY DEF OrdersSound, OrdersTypes
<1>2. BodiesOf(wr2, ans) \subseteq BodiesOf(wr, ans) BY DEF BodiesOf
<1>3. RowsKept(ans, ans) /\ RowsAreSound(KeysOf(ans) \ KeysOf(ans), ans, bk, ref)
  BY DEF RowsKept, RowsAreSound
<1> QED BY <1>1, <1>2, <1>3, PoolMovesOn

\* The row that handling m leaves.
Answering(ans, m, version) == [ans EXCEPT ![m.key] = [body |-> m, version |-> version]]

\* Request w had no row, and has one now.
RowAdded(ans, ans2, wr, w, version) ==
  /\ w.body \in Body /\ w.body \in BodiesOf(wr, ans) /\ w.body.key \notin KeysOf(ans)
  /\ ans2 \in AnswerRows /\ KeysOf(ans2) = KeysOf(ans) \cup {w.body.key}
  /\ \A k \in KeysOf(ans) : ans2[k] = ans[k]
  /\ ans2[w.body.key].body = w.body /\ ans2[w.body.key].version = version
  /\ BodiesOf(wr \ {w}, ans2) \subseteq BodiesOf(wr, ans)

LEMMA RowIsWritten ==
  ASSUME NEW bk, NEW ans, NEW wr, NEW f, NEW rev, NEW v, NEW rel, NEW md, NEW ref,
         OrdersSound(bk, ans, wr, f, rev, v, rel, md, ref),
         NEW w \in wr, ans[w.body.key] = NotSent
  PROVE  RowAdded(ans, Answering(ans, w.body, bk.version), wr, w, bk.version)
<1> DEFINE m    == w.body
           row  == [body |-> m, version |-> bk.version]
           ans2 == Answering(ans, m, bk.version)
<1>1. /\ OrdersTypes(bk, ans, wr, f, rev, v, rel, md)
      /\ KeysAreApart(BodiesOf(wr, ans), f, InHand(rev, rel), md.keys)
  BY DEF OrdersSound
<1>2. /\ bk.version \in Nat /\ ans \in AnswerRows /\ md.keys \in Nat /\ md.keys <= MaxOrderKeys
      /\ w \in OrderRequest
  BY <1>1 DEF OrdersTypes, OrderBooks, OrdersMade
<1>3. m \in Body /\ m \in BodiesOf(wr, ans) BY <1>2 DEF OrderRequest, BodiesOf
<1>4. m.key \in 1..MaxOrderKeys
  <2>1. m.key \in 1..md.keys BY <1>1, <1>3 DEF KeysAreApart
  <2> QED BY <1>2, <2>1, OrdersAssumption
<1>5. row \in Row /\ row.body = m /\ row.version = bk.version /\ row # NotSent
  BY <1>2, <1>3, OrdersAssumption DEF Row
<1> HIDE DEF row
<1>6. ans2 = [ans EXCEPT ![m.key] = row] BY DEF Answering, row
<1> HIDE DEF m, ans2
<1>7. ans2 \in AnswerRows /\ ans2[m.key] = row /\ \A k \in 1..MaxOrderKeys \ {m.key} : ans2[k] = ans[k]
  BY <1>2, <1>4, <1>5, <1>6 DEF AnswerRows
<1>8. m.key \notin KeysOf(ans) BY DEF KeysOf, m
<1>9. KeysOf(ans2) = KeysOf(ans) \cup {m.key} BY <1>4, <1>5, <1>7 DEF KeysOf
<1>10. \A k \in KeysOf(ans) : ans2[k] = ans[k] BY <1>7, <1>8 DEF KeysOf
<1>11. BodiesOf(wr \ {w}, ans2) \subseteq BodiesOf(wr, ans)
  <2>1. {ans2[k].body : k \in KeysOf(ans2)} \subseteq {ans[k].body : k \in KeysOf(ans)} \cup {m}
    BY <1>5, <1>7, <1>9, <1>10
  <2> QED BY <1>3, <2>1 DEF BodiesOf
<1>12. ans2[m.key].body = m /\ ans2[m.key].version = bk.version BY <1>5, <1>7
<1>13. RowAdded(ans, ans2, wr, w, bk.version)
  BY <1>3, <1>7, <1>8, <1>9, <1>10, <1>11, <1>12 DEF RowAdded, m
<1> QED BY <1>13 DEF m, ans2

LEMMA OrderFields ==
  ASSUME NEW bk \in OrderBooks, NEW i \in DOMAIN bk.orders
  PROVE  /\ bk.orders[i] \in OrderRow /\ bk.orders[i].shares \in Int
         /\ bk.orders[i].price \in Nat /\ bk.orders[i].reverses \in Nat
<1>1. bk.orders \in Seq(OrderRow) BY DEF OrderBooks
<1>2. bk.orders[i] \in OrderRow BY <1>1
<1> QED BY <1>2 DEF OrderRow

\* A quote leaves the books alone.
LEMMA QuoteIsAnswered ==
  ASSUME NEW bk, NEW ans, NEW wr, NEW f, NEW rev, NEW v, NEW rel, NEW md, NEW ref,
         OrdersSound(bk, ans, wr, f, rev, v, rel, md, ref),
         NEW w \in wr, ans[w.body.key] = NotSent, w.body.kind = "quote", bk.member
  PROVE  OrdersSound(bk, Answering(ans, w.body, bk.version), wr \ {w}, f, rev, v, rel, md, ref)
<1> DEFINE m    == w.body
           ans2 == Answering(ans, m, bk.version)
<1>1. /\ m \in BodiesOf(wr, ans) /\ m.key \notin KeysOf(ans) /\ ans2 \in AnswerRows
      /\ KeysOf(ans2) = KeysOf(ans) \cup {m.key} /\ \A k \in KeysOf(ans) : ans2[k] = ans[k]
      /\ ans2[m.key].body = m /\ ans2[m.key].version = bk.version
      /\ BodiesOf(wr \ {w}, ans2) \subseteq BodiesOf(wr, ans)
  <2>1. RowAdded(ans, ans2, wr, w, bk.version) BY RowIsWritten
  <2> HIDE DEF ans2
  <2> QED BY <2>1 DEF RowAdded
<1> HIDE DEF ans2, m
<1>2. /\ OrdersAreAnswered(bk, ans) /\ OrdersAreApart(bk.orders)
      /\ OrdersTakeBack(bk.orders) /\ SumsStand(bk.orders)
      /\ bk \in OrderBooks
  BY DEF OrdersSound, OrdersTypes
<1>3. m.kind = "quote" BY DEF m
<1>4. OrdersAreAnswered(bk, ans2) BY <1>1, <1>2, <1>3 DEF OrdersAreAnswered
<1>5. Quoted(bk.version, bk) BY <1>2 DEF Quoted, OrderBooks
<1>6. RowsAreSound(KeysOf(ans2) \ KeysOf(ans), ans2, bk, ref)
  BY <1>1, <1>3, <1>5 DEF RowsAreSound
<1>7. OrdersSound(bk, ans2, wr \ {w}, f, rev, v, rel, md, ref)
  <2>1. RowsKept(ans, ans2) BY <1>1 DEF RowsKept
  <2> QED BY <1>1, <1>2, <1>4, <1>6, <2>1, PoolMovesOn
<1> QED BY <1>7 DEF ans2, m

\* The books with one more order.
Adding(bk, o) == [bk EXCEPT !.version = bk.version + 1, !.orders = Append(bk.orders, o)]

LEMMA OrderIsAdded ==
  ASSUME NEW bk \in OrderBooks, NEW o \in OrderRow
  PROVE  /\ Grown(bk, Adding(bk, o)) /\ Adding(bk, o) \in OrderBooks
         /\ Adding(bk, o).version = bk.version + 1
         /\ DOMAIN Adding(bk, o).orders = DOMAIN bk.orders \cup {Len(bk.orders) + 1}
         /\ Len(bk.orders) + 1 \notin DOMAIN bk.orders
         /\ Adding(bk, o).orders[Len(bk.orders) + 1] = o
         /\ \A i \in DOMAIN bk.orders : Adding(bk, o).orders[i] = bk.orders[i]
<1> DEFINE os  == Append(bk.orders, o)
           bk2 == Adding(bk, o)
<1>1. bk.orders \in Seq(OrderRow) /\ bk.version \in Nat BY DEF OrderBooks
<1>2. /\ os \in Seq(OrderRow) /\ Len(os) = Len(bk.orders) + 1 /\ Len(bk.orders) \in Nat
      /\ DOMAIN bk.orders = 1..Len(bk.orders) /\ DOMAIN os = 1..Len(os)
      /\ \A i \in 1..Len(bk.orders) : os[i] = bk.orders[i]
      /\ os[Len(bk.orders) + 1] = o
  BY <1>1
<1> HIDE DEF os
<1>3. /\ bk2 \in OrderBooks /\ bk2.version = bk.version + 1 /\ bk2.orders = os
      /\ bk2.active = bk.active
  <2>1. bk2 = [bk EXCEPT !.version = bk.version + 1, !.orders = os] BY DEF Adding, os
  <2>2. os \in Seq(OrderRow) /\ bk.version + 1 \in Nat BY <1>1, <1>2
  <2> HIDE DEF bk2
  <2> QED BY <2>1, <2>2 DEF OrderBooks
<1> HIDE DEF bk2
<1>4. bk.version < bk2.version /\ Len(bk.orders) <= Len(bk2.orders) BY <1>1, <1>2, <1>3
<1>5. Grown(bk, bk2) BY <1>2, <1>3, <1>4 DEF Grown
<1>6. /\ DOMAIN os = DOMAIN bk.orders \cup {Len(bk.orders) + 1}
      /\ Len(bk.orders) + 1 \notin DOMAIN bk.orders
  BY <1>2
<1> QED BY <1>2, <1>3, <1>5, <1>6 DEF bk2

\* What an added order does to the columns of shares and of values.
LEMMA ColumnsGrow ==
  ASSUME NEW bk \in OrderBooks, NEW o \in OrderRow
  PROVE  /\ Len(bk.orders) \in Nat /\ Len(Adding(bk, o).orders) = Len(bk.orders) + 1
         /\ Lengthens(SharesOf(bk.orders), SharesOf(Adding(bk, o).orders), Len(bk.orders), o.shares)
         /\ Lengthens(ValuesOf(bk.orders), ValuesOf(Adding(bk, o).orders), Len(bk.orders),
                    o.shares * o.price)
<1> DEFINE n  == Len(bk.orders)
           es == bk.orders
           os == Adding(bk, o).orders
<1>1. es \in Seq(OrderRow) /\ n \in Nat /\ DOMAIN es = 1..n /\ Len(es) = n BY DEF OrderBooks
<1>2. os \in Seq(OrderRow)
  <2>1. Adding(bk, o) \in OrderBooks BY OrderIsAdded
  <2> HIDE DEF os
  <2>2. os = Adding(bk, o).orders BY DEF os
  <2> QED BY <2>1, <2>2 DEF OrderBooks
<1>3. /\ DOMAIN os = DOMAIN es \cup {n + 1} /\ os[n+1] = o
      /\ \A k \in DOMAIN es : os[k] = es[k]
  BY OrderIsAdded
<1> HIDE DEF n, es, os
<1>4. DOMAIN os = 1..n \cup {n + 1} /\ \A k \in 1..n : os[k] = es[k] BY <1>1, <1>3
<1>5. Len(os) = n + 1
  <2>1. Len(os) \in Nat /\ DOMAIN os = 1..Len(os) BY <1>2
  <2>2. \A k \in Nat \ {0} : k \in 1..Len(os) <=> k \in 1..n+1 BY <1>1, <1>4, <2>1
  <2>3. n + 1 \in 1..Len(os) /\ n + 2 \notin 1..Len(os) BY <1>1, <2>2
  <2>4. n + 1 <= Len(os) /\ ~(n + 2 <= Len(os)) BY <1>1, <2>1, <2>3
  <2>5. n \in Nat /\ Len(os) \in Nat BY <1>1, <2>1
  <2> QED BY <2>4, <2>5
<1>6. \A k \in 1..n : es[k] \in OrderRow BY <1>1
<1>7. \A r \in OrderRow : r.shares \in Int /\ r.price \in Int BY DEF OrderRow
<1>8. \A k \in 1..n+1 : k \in 1..n \/ k = n + 1 BY <1>1
<1>9. \A k \in 1..n+1 : os[k] \in OrderRow BY <1>3, <1>4, <1>6, <1>8
<1>10. \A a, b \in Int : a * b \in Int OBVIOUS
<1>11. SharesOf(es) \in [1..n -> Int] /\ ValuesOf(es) \in [1..n -> Int]
  BY <1>1, <1>6, <1>7, <1>10 DEF SharesOf, ValuesOf
<1>12. SharesOf(os) \in [1..n+1 -> Int] /\ ValuesOf(os) \in [1..n+1 -> Int]
  BY <1>5, <1>7, <1>9, <1>10 DEF SharesOf, ValuesOf
<1>13. (\A k \in 1..n : k \in 1..n+1) /\ n + 1 \in 1..n+1 BY <1>1
<1>14. \A k \in 1..n : SharesOf(os)[k] = SharesOf(es)[k] /\ ValuesOf(os)[k] = ValuesOf(es)[k]
  BY <1>1, <1>4, <1>5, <1>13 DEF SharesOf, ValuesOf
<1>15. SharesOf(os)[n+1] = o.shares /\ ValuesOf(os)[n+1] = o.shares * o.price
  BY <1>3, <1>5, <1>13 DEF SharesOf, ValuesOf
<1>16. /\ Lengthens(SharesOf(es), SharesOf(os), n, o.shares)
       /\ Lengthens(ValuesOf(es), ValuesOf(os), n, o.shares * o.price)
  BY <1>11, <1>12, <1>14, <1>15 DEF Lengthens
<1> QED BY <1>1, <1>5, <1>16 DEF n, es, os

\* An order that nothing takes back is added to both sums.
LEMMA OrderIsSummed ==
  ASSUME NEW bk \in OrderBooks, NEW o \in OrderRow, o.reverses = 0, SumsStand(bk.orders),
         Len(bk.orders) + 1 \notin Reversed(Adding(bk, o).orders),
         Reversed(Adding(bk, o).orders) = Reversed(bk.orders)
  PROVE  SumsStand(Adding(bk, o).orders)
<1> DEFINE n  == Len(bk.orders)
           es == bk.orders
           os == Adding(bk, o).orders
           st == StandingOf(es)
<1>1. /\ n \in Nat /\ Len(os) = n + 1
      /\ Lengthens(SharesOf(es), SharesOf(os), n, o.shares)
      /\ Lengthens(ValuesOf(es), ValuesOf(os), n, o.shares * o.price)
  BY ColumnsGrow
<1>2. DOMAIN es = 1..n /\ (\A k \in DOMAIN es : os[k] = es[k]) /\ os[n+1] = o
  BY OrderIsAdded DEF OrderBooks
<1>3. n + 1 \notin Reversed(os) /\ Reversed(os) = Reversed(es) OBVIOUS
<1>4. st = {i \in 1..n : es[i].reverses = 0 /\ i \notin Reversed(es)} BY DEF StandingOf
<1>5. SumStands(SharesOf(es), es) /\ SumStands(ValuesOf(es), es) /\ Len(es) = n BY DEF SumsStand
<1> HIDE DEF n, es, os, st
<1>6. StandingOf(os) = st \cup {n + 1}
  <2>1. 1..Len(os) = 1..n \cup {n + 1} BY <1>1
  <2> QED BY <1>2, <1>3, <1>4, <2>1 DEF StandingOf
<1>7. st \subseteq 1..n BY <1>4
<1>8. /\ Total(SharesOf(es), n) = Total(Only(st, SharesOf(es), n), n)
      /\ Total(ValuesOf(es), n) = Total(Only(st, ValuesOf(es), n), n)
  BY <1>5 DEF SumStands, st
<1>9. Total(SharesOf(os), n + 1) = Total(Only(st \cup {n + 1}, SharesOf(os), n + 1), n + 1)
  <2> DEFINE x == SharesOf(es)
             y == SharesOf(os)
  <2>1. \E last : Lengthens(x, y, n, last) BY <1>1
  <2>2. Total(x, n) = Total(Only(st, x, n), n) BY <1>8
  <2> HIDE DEF x, y
  <2>3. Total(y, n + 1) = Total(Only(st \cup {n + 1}, y, n + 1), n + 1)
    BY <1>1, <1>7, <2>1, <2>2, SumTakesOrder
  <2> QED BY <2>3 DEF y
<1>10. Total(ValuesOf(os), n + 1) = Total(Only(st \cup {n + 1}, ValuesOf(os), n + 1), n + 1)
  <2> DEFINE x == ValuesOf(es)
             y == ValuesOf(os)
  <2>1. \E last : Lengthens(x, y, n, last) BY <1>1
  <2>2. Total(x, n) = Total(Only(st, x, n), n) BY <1>8
  <2> HIDE DEF x, y
  <2>3. Total(y, n + 1) = Total(Only(st \cup {n + 1}, y, n + 1), n + 1)
    BY <1>1, <1>7, <2>1, <2>2, SumTakesOrder
  <2> QED BY <2>3 DEF y
<1>11. SumsStand(os) BY <1>1, <1>6, <1>9, <1>10 DEF SumsStand, SumStands
<1> QED BY <1>11 DEF os

\* A reversal takes from both sums what its order added.
LEMMA ReversalIsSummed ==
  ASSUME NEW bk \in OrderBooks, NEW o \in OrderRow, o.reverses # 0, SumsStand(bk.orders),
         o.reverses \in DOMAIN bk.orders, bk.orders[o.reverses].reverses = 0,
         o.reverses \notin Reversed(bk.orders),
         o.shares = -bk.orders[o.reverses].shares, o.price = bk.orders[o.reverses].price
  PROVE  SumsStand(Adding(bk, o).orders)
<1> DEFINE n  == Len(bk.orders)
           es == bk.orders
           os == Adding(bk, o).orders
           st == StandingOf(es)
           i  == o.reverses
<1>1. /\ n \in Nat /\ Len(os) = n + 1
      /\ Lengthens(SharesOf(es), SharesOf(os), n, o.shares)
      /\ Lengthens(ValuesOf(es), ValuesOf(os), n, o.shares * o.price)
  BY ColumnsGrow
<1>2. /\ DOMAIN es = 1..n /\ (\A k \in DOMAIN es : os[k] = es[k]) /\ os[n+1] = o
      /\ DOMAIN os = DOMAIN es \cup {n + 1}
  <2>1. DOMAIN es = 1..n BY DEF OrderBooks
  <2> QED BY <2>1, OrderIsAdded
<1>3. i \in 1..n /\ i # 0 /\ es[i].reverses = 0 /\ i \notin Reversed(es) BY <1>2
<1>4. st = {k \in 1..n : es[k].reverses = 0 /\ k \notin Reversed(es)} BY DEF StandingOf
<1>5. SumStands(SharesOf(es), es) /\ SumStands(ValuesOf(es), es) /\ Len(es) = n BY DEF SumsStand
<1>6. /\ o.shares = -es[i].shares /\ o.price = es[i].price /\ o.reverses = i
      /\ es[i].shares \in Int /\ es[i].price \in Int
  <2>1. bk.orders[i].shares \in Int /\ bk.orders[i].price \in Nat BY OrderFields
  <2> QED BY <2>1
<1> HIDE DEF n, es, os, st, i
<1>7. StandingOf(os) = st \ {i}
  <2>1. 1..Len(os) = 1..n \cup {n + 1} BY <1>1
  <2>2. Reversed(os) = Reversed(es) \cup {i} BY <1>2, <1>3, <1>6 DEF Reversed
  <2> QED BY <1>2, <1>3, <1>4, <1>6, <2>1, <2>2 DEF StandingOf
<1>8. st \subseteq 1..n /\ i \in st BY <1>3, <1>4
<1>9. /\ Total(SharesOf(es), n) = Total(Only(st, SharesOf(es), n), n)
      /\ Total(ValuesOf(es), n) = Total(Only(st, ValuesOf(es), n), n)
  BY <1>5 DEF SumStands, st
<1>10. SharesOf(es)[i] = es[i].shares /\ ValuesOf(es)[i] = es[i].shares * es[i].price
  BY <1>3, <1>5 DEF SharesOf, ValuesOf
<1>11. \A a, b \in Int : (-a) * b = -(a * b) OBVIOUS
<1>12. o.shares = -SharesOf(es)[i] /\ o.shares * o.price = -ValuesOf(es)[i]
  BY <1>6, <1>10, <1>11
<1>13. Total(SharesOf(os), n + 1) = Total(Only(st \ {i}, SharesOf(os), n + 1), n + 1)
  <2> DEFINE x == SharesOf(es)
             y == SharesOf(os)
             last == o.shares
  <2>1. last = -x[i] /\ Lengthens(x, y, n, last) BY <1>1, <1>12
  <2>2. Total(x, n) = Total(Only(st, x, n), n) /\ n \in Nat BY <1>1, <1>9
  <2> HIDE DEF x, y, last
  <2>3. Total(y, n + 1) = Total(Only(st \ {i}, y, n + 1), n + 1)
    BY <1>8, <2>1, <2>2, SumTakesBack
  <2> QED BY <2>3 DEF y
<1>14. Total(ValuesOf(os), n + 1) = Total(Only(st \ {i}, ValuesOf(os), n + 1), n + 1)
  <2> DEFINE x == ValuesOf(es)
             y == ValuesOf(os)
             last == o.shares * o.price
  <2>1. last = -x[i] /\ Lengthens(x, y, n, last) BY <1>1, <1>12
  <2>2. Total(x, n) = Total(Only(st, x, n), n) /\ n \in Nat BY <1>1, <1>9
  <2> HIDE DEF x, y, last
  <2>3. Total(y, n + 1) = Total(Only(st \ {i}, y, n + 1), n + 1)
    BY <1>8, <2>1, <2>2, SumTakesBack
  <2> QED BY <2>3 DEF y
<1>15. SumsStand(os) BY <1>1, <1>7, <1>13, <1>14 DEF SumsStand, SumStands
<1> QED BY <1>15 DEF os

LEMMA BodyNumbers == ASSUME NEW m \in Body PROVE m.amount \in Nat /\ m.review \in Nat
<1>1. m.amount \in Amount \cup {0} /\ m.review \in Nat BY DEF Body
<1>2. Amount \subseteq Nat \ {0} BY OrdersAssumption, Zenon
<1>3. 0 \in Nat OBVIOUS
<1> QED BY <1>1, <1>2, <1>3, Zenon

\* An execution that is accepted is one more order, at the version it was quoted at.
LEMMA ExecutionIsAnswered ==
  ASSUME NEW bk, NEW ans, NEW wr, NEW f, NEW rev, NEW v, NEW rel, NEW md, NEW ref,
         OrdersSound(bk, ans, wr, f, rev, v, rel, md, ref),
         NEW w \in wr, ans[w.body.key] = NotSent, w.body.kind = "execute",
         bk.active, w.body.version = bk.version
  PROVE  OrdersSound(Adding(bk, [shares |-> w.body.amount, price |-> bk.version, reverses |-> 0,
                                 review |-> w.body.review]),
                     Answering(ans, w.body, bk.version), wr \ {w}, f, rev, v, rel, md, ref)
<1> DEFINE m    == w.body
           o    == [shares |-> m.amount, price |-> bk.version, reverses |-> 0, review |-> m.review]
           bk2  == Adding(bk, o)
           ans2 == Answering(ans, m, bk.version)
           last == Len(bk.orders) + 1
           bs   == BodiesOf(wr, ans)
<1>1. /\ m \in Body /\ m \in bs /\ m.key \notin KeysOf(ans) /\ ans2 \in AnswerRows
      /\ KeysOf(ans2) = KeysOf(ans) \cup {m.key} /\ \A k \in KeysOf(ans) : ans2[k] = ans[k]
      /\ ans2[m.key].body = m /\ ans2[m.key].version = bk.version
      /\ BodiesOf(wr \ {w}, ans2) \subseteq bs
  <2>1. RowAdded(ans, ans2, wr, w, bk.version) BY RowIsWritten
  <2> HIDE DEF ans2
  <2> QED BY <2>1 DEF RowAdded
<1>2. /\ OrdersTypes(bk, ans, wr, f, rev, v, rel, md)
      /\ OrdersAreAnswered(bk, ans) /\ OrdersAreApart(bk.orders)
      /\ OrdersTakeBack(bk.orders) /\ SumsStand(bk.orders)
      /\ ReviewsAreApart(bs, f, md.keys) /\ QuotesAreKept(bk, ans, bs)
      /\ RefusalsStand(bk, ans, bs, ref)
  BY DEF OrdersSound
<1>3. bk \in OrderBooks /\ bk.version \in Nat BY <1>2 DEF OrdersTypes, OrderBooks
<1>4. m.amount \in Nat /\ m.review \in Nat BY <1>1, BodyNumbers
<1>5. /\ o \in OrderRow /\ o.shares = m.amount /\ o.price = bk.version /\ o.reverses = 0
      /\ o.review = m.review
  BY <1>3, <1>4 DEF OrderRow
<1>6. m.kind = "execute" /\ m.version = bk.version OBVIOUS
<1> HIDE DEF o, m, ans2, bs
<1>7. /\ Grown(bk, bk2) /\ bk2.version = bk.version + 1
      /\ DOMAIN bk2.orders = DOMAIN bk.orders \cup {last} /\ last \notin DOMAIN bk.orders
      /\ bk2.orders[last] = o /\ \A i \in DOMAIN bk.orders : bk2.orders[i] = bk.orders[i]
  BY <1>3, <1>5, OrderIsAdded
<1> HIDE DEF bk2, last
<1>8. IssuedFor(o, m) BY <1>5, <1>6 DEF IssuedFor
<1>9. OrdersAreAnswered(bk2, ans2)
  <2>1. ASSUME NEW i \in DOMAIN bk2.orders, bk2.orders[i].reverses = 0
        PROVE  /\ bk2.orders[i].price < bk2.version
               /\ \E k \in KeysOf(ans2) : IssuedFor(bk2.orders[i], ans2[k].body)
    <3>1. CASE i \in DOMAIN bk.orders
      <4>1. bk2.orders[i] = bk.orders[i] /\ bk.orders[i].reverses = 0 BY <1>7, <2>1, <3>1
      <4>2. bk.orders[i].price < bk.version BY <1>2, <3>1, <4>1 DEF OrdersAreAnswered
      <4>3. bk.orders[i].price \in Nat BY <1>3, <3>1, OrderFields
      <4>4. bk2.orders[i].price < bk2.version BY <1>3, <1>7, <4>1, <4>2, <4>3
      <4>5. PICK k \in KeysOf(ans) : IssuedFor(bk.orders[i], ans[k].body)
        BY <1>2, <3>1, <4>1 DEF OrdersAreAnswered
      <4> QED BY <1>1, <4>1, <4>4, <4>5
    <3>2. CASE i = last
      <4>1. bk2.orders[i].price < bk2.version BY <1>3, <1>5, <1>7, <3>2
      <4> QED BY <1>1, <1>7, <1>8, <3>2, <4>1
    <3> QED BY <1>7, <3>1, <3>2
  <2>2. ASSUME NEW k \in KeysOf(ans2), ans2[k].body.kind = "execute"
        PROVE  \E i \in DOMAIN bk2.orders : IssuedFor(bk2.orders[i], ans2[k].body)
    <3>1. CASE k \in KeysOf(ans)
      <4>1. ans2[k] = ans[k] BY <1>1, <3>1
      <4>2. PICK i \in DOMAIN bk.orders : IssuedFor(bk.orders[i], ans[k].body)
        BY <1>2, <2>2, <3>1, <4>1 DEF OrdersAreAnswered
      <4> QED BY <1>7, <4>1, <4>2
    <3>2. CASE k = m.key BY <1>1, <1>7, <1>8, <3>2
    <3> QED BY <1>1, <3>1, <3>2
  <2> QED BY <2>1, <2>2 DEF OrdersAreAnswered
<1>10. ASSUME NEW i \in DOMAIN bk.orders, bk.orders[i].reverses = 0
       PROVE  bk.orders[i].review # m.review /\ bk.orders[i].price # bk.version
  <2>1. /\ bk.orders[i].price < bk.version
        /\ \E k \in KeysOf(ans) : IssuedFor(bk.orders[i], ans[k].body)
    BY <1>2, <1>10 DEF OrdersAreAnswered
  <2>2. PICK k \in KeysOf(ans) : IssuedFor(bk.orders[i], ans[k].body) BY <2>1
  <2>3. bk.orders[i].price \in Nat BY <1>3, <1>10, OrderFields
  <2>4. ASSUME bk.orders[i].review = m.review PROVE FALSE
    <3>1. ans[k].body \in bs BY <2>2 DEF bs, BodiesOf
    <3>2. ans[k].body.kind = "execute" /\ ans[k].body.review = m.review BY <2>2, <2>4 DEF IssuedFor
    <3>3. ans[k].body = m BY <1>1, <1>2, <1>6, <3>1, <3>2 DEF ReviewsAreApart
    <3>4. ans[k].body.key = k BY <1>2, <2>2 DEF QuotesAreKept
    <3> QED BY <1>1, <2>2, <3>3, <3>4
  <2> QED BY <1>3, <2>1, <2>3, <2>4
<1>11. OrdersAreApart(bk2.orders)
  <2>1. SUFFICES ASSUME NEW i \in DOMAIN bk2.orders, NEW j \in DOMAIN bk2.orders, i # j
        PROVE  /\ bk2.orders[i].reverses = 0 /\ bk2.orders[j].reverses = 0 =>
                    bk2.orders[i].review # bk2.orders[j].review
                    /\ bk2.orders[i].price # bk2.orders[j].price
               /\ bk2.orders[i].reverses # 0 /\ bk2.orders[j].reverses # 0 =>
                    bk2.orders[i].reverses # bk2.orders[j].reverses
    BY DEF OrdersAreApart
  <2>2. CASE i \in DOMAIN bk.orders /\ j \in DOMAIN bk.orders
    BY <1>2, <1>7, <2>1, <2>2 DEF OrdersAreApart
  <2>3. CASE i = last /\ j \in DOMAIN bk.orders BY <1>5, <1>7, <1>10, <2>3
  <2>4. CASE j = last /\ i \in DOMAIN bk.orders BY <1>5, <1>7, <1>10, <2>4
  <2> QED BY <1>7, <2>1, <2>2, <2>3, <2>4
<1>12. m.review \notin ref
  <2>1. ~IsDead(m, bk) BY <1>3, <1>6 DEF IsDead
  <2> QED BY <1>1, <1>2, <1>6, <2>1 DEF RefusalsStand
<1>13. Quoted(bk.version, bk2) BY <1>3, <1>7 DEF Quoted
<1>14. RowsAreSound(KeysOf(ans2) \ KeysOf(ans), ans2, bk2, ref)
  BY <1>1, <1>12, <1>13 DEF RowsAreSound
<1>15. OrdersSound(bk2, ans2, wr \ {w}, f, rev, v, rel, md, ref)
  <2>1. RowsKept(ans, ans2) BY <1>1 DEF RowsKept
  <2>2. OrdersTakeBack(bk2.orders)
    BY <1>2, <1>5, <1>7 DEF OrdersTakeBack, TakesBack, Original
  <2>3. SumsStand(bk2.orders)
    <3>1. last \notin Reversed(bk2.orders)
      <4>1. \A i \in DOMAIN bk.orders : bk.orders[i].reverses # last
        <5>1. \A i \in DOMAIN bk.orders : bk.orders[i].reverses # 0 =>
                                            bk.orders[i].reverses \in DOMAIN bk.orders
          BY <1>2 DEF OrdersTakeBack, TakesBack, Original
        <5>2. last # 0 BY <1>3 DEF last, OrderBooks
        <5> QED BY <1>7, <5>1, <5>2
      <4> QED BY <1>5, <1>7, <4>1 DEF Reversed
    <3>2. Reversed(bk2.orders) = Reversed(bk.orders) BY <1>5, <1>7 DEF Reversed
    <3> QED BY <1>2, <1>3, <1>5, <1>7, <3>1, <3>2, OrderIsSummed DEF bk2, last
  <2> QED BY <1>1, <1>7, <1>9, <1>11, <1>14, <2>1, <2>2, <2>3, PoolMovesOn DEF bs
<1> QED BY <1>15 DEF bk2, ans2, o, m

\* A reversal that is accepted takes back an order that stands.
LEMMA ReversalIsAnswered ==
  ASSUME NEW bk, NEW ans, NEW wr, NEW f, NEW rev, NEW v, NEW rel, NEW md, NEW ref,
         OrdersSound(bk, ans, wr, f, rev, v, rel, md, ref),
         NEW w \in wr, ans[w.body.key] = NotSent, w.body.kind = "reverse",
         w.body.order \notin Reversed(bk.orders)
  PROVE  OrdersSound(Adding(bk, [shares |-> -bk.orders[w.body.order].shares,
                                 price |-> bk.orders[w.body.order].price,
                                 reverses |-> w.body.order, review |-> 0]),
                     Answering(ans, w.body, bk.version), wr \ {w}, f, rev, v, rel, md, ref)
<1> DEFINE m    == w.body
           o    == [shares |-> -bk.orders[m.order].shares, price |-> bk.orders[m.order].price,
                    reverses |-> m.order, review |-> 0]
           bk2  == Adding(bk, o)
           ans2 == Answering(ans, m, bk.version)
           last == Len(bk.orders) + 1
           bs   == BodiesOf(wr, ans)
<1>1. /\ m \in Body /\ m \in bs /\ m.key \notin KeysOf(ans) /\ ans2 \in AnswerRows
      /\ KeysOf(ans2) = KeysOf(ans) \cup {m.key} /\ \A k \in KeysOf(ans) : ans2[k] = ans[k]
      /\ ans2[m.key].body = m /\ ans2[m.key].version = bk.version
      /\ BodiesOf(wr \ {w}, ans2) \subseteq bs
  <2>1. RowAdded(ans, ans2, wr, w, bk.version) BY RowIsWritten
  <2> HIDE DEF ans2
  <2> QED BY <2>1 DEF RowAdded
<1>2. /\ OrdersTypes(bk, ans, wr, f, rev, v, rel, md)
      /\ OrdersAreAnswered(bk, ans) /\ OrdersAreApart(bk.orders)
      /\ OrdersTakeBack(bk.orders) /\ SumsStand(bk.orders) /\ QuotesAreKept(bk, ans, bs)
  BY DEF OrdersSound
<1>3. bk \in OrderBooks /\ bk.version \in Nat BY <1>2 DEF OrdersTypes, OrderBooks
<1>4. m.kind = "reverse" /\ m.order \notin Reversed(bk.orders) OBVIOUS
<1> HIDE DEF o, m, ans2, bs
<1>5. m.order \in DOMAIN bk.orders /\ bk.orders[m.order].reverses = 0
  BY <1>1, <1>2, <1>4 DEF QuotesAreKept, Original
<1>6. m.order \in Nat /\ m.order # 0
  <2>1. bk.orders \in Seq(OrderRow) BY <1>3 DEF OrderBooks
  <2>2. DOMAIN bk.orders = 1..Len(bk.orders) /\ Len(bk.orders) \in Nat BY <2>1
  <2> QED BY <1>5, <2>2
<1>7. /\ o \in OrderRow /\ o.reverses = m.order
      /\ o.shares = -bk.orders[m.order].shares /\ o.price = bk.orders[m.order].price
  <2>1. bk.orders[m.order].shares \in Int /\ bk.orders[m.order].price \in Nat
    BY <1>3, <1>5, OrderFields
  <2>2. -bk.orders[m.order].shares \in Int BY <2>1
  <2> QED BY <1>6, <2>1, <2>2 DEF OrderRow, o
<1>8. /\ Grown(bk, bk2) /\ bk2.version = bk.version + 1
      /\ DOMAIN bk2.orders = DOMAIN bk.orders \cup {last} /\ last \notin DOMAIN bk.orders
      /\ bk2.orders[last] = o /\ \A i \in DOMAIN bk.orders : bk2.orders[i] = bk.orders[i]
  BY <1>3, <1>7, OrderIsAdded
<1> HIDE DEF bk2, last
<1>9. OrdersAreAnswered(bk2, ans2)
  <2>1. ASSUME NEW i \in DOMAIN bk2.orders, bk2.orders[i].reverses = 0
        PROVE  /\ bk2.orders[i].price < bk2.version
               /\ \E k \in KeysOf(ans2) : IssuedFor(bk2.orders[i], ans2[k].body)
    <3>0. i # last BY <1>6, <1>7, <1>8, <2>1
    <3>1. i \in DOMAIN bk.orders /\ bk2.orders[i] = bk.orders[i] BY <1>8, <3>0
    <3>2. bk.orders[i].price < bk.version BY <1>2, <2>1, <3>1 DEF OrdersAreAnswered
    <3>3. bk.orders[i].price \in Nat BY <1>3, <3>1, OrderFields
    <3>4. bk2.orders[i].price < bk2.version BY <1>3, <1>8, <3>1, <3>2, <3>3
    <3>5. PICK k \in KeysOf(ans) : IssuedFor(bk.orders[i], ans[k].body)
      BY <1>2, <2>1, <3>1 DEF OrdersAreAnswered
    <3> QED BY <1>1, <3>1, <3>4, <3>5
  <2>2. ASSUME NEW k \in KeysOf(ans2), ans2[k].body.kind = "execute"
        PROVE  \E i \in DOMAIN bk2.orders : IssuedFor(bk2.orders[i], ans2[k].body)
    <3>1. k # m.key BY <1>1, <1>4, <2>2
    <3>2. k \in KeysOf(ans) /\ ans2[k] = ans[k] BY <1>1, <3>1
    <3>3. PICK i \in DOMAIN bk.orders : IssuedFor(bk.orders[i], ans[k].body)
      BY <1>2, <2>2, <3>2 DEF OrdersAreAnswered
    <3> QED BY <1>8, <3>2, <3>3
  <2> QED BY <2>1, <2>2 DEF OrdersAreAnswered
<1>10. \A i \in DOMAIN bk.orders : bk.orders[i].reverses # m.order
  BY <1>4, <1>6 DEF Reversed
<1>11. OrdersAreApart(bk2.orders)
  <2>1. SUFFICES ASSUME NEW i \in DOMAIN bk2.orders, NEW j \in DOMAIN bk2.orders, i # j
        PROVE  /\ bk2.orders[i].reverses = 0 /\ bk2.orders[j].reverses = 0 =>
                    bk2.orders[i].review # bk2.orders[j].review
                    /\ bk2.orders[i].price # bk2.orders[j].price
               /\ bk2.orders[i].reverses # 0 /\ bk2.orders[j].reverses # 0 =>
                    bk2.orders[i].reverses # bk2.orders[j].reverses
    BY DEF OrdersAreApart
  <2>2. CASE i \in DOMAIN bk.orders /\ j \in DOMAIN bk.orders
    BY <1>2, <1>8, <2>1, <2>2 DEF OrdersAreApart
  <2>3. CASE i = last /\ j \in DOMAIN bk.orders BY <1>6, <1>7, <1>8, <1>10, <2>3
  <2>4. CASE j = last /\ i \in DOMAIN bk.orders BY <1>6, <1>7, <1>8, <1>10, <2>4
  <2> QED BY <1>8, <2>1, <2>2, <2>3, <2>4
<1>12. Quoted(bk.version, bk2) BY <1>3, <1>8 DEF Quoted
<1>13. RowsAreSound(KeysOf(ans2) \ KeysOf(ans), ans2, bk2, ref)
  BY <1>1, <1>4, <1>12 DEF RowsAreSound
<1>14. OrdersSound(bk2, ans2, wr \ {w}, f, rev, v, rel, md, ref)
  <2>1. RowsKept(ans, ans2) BY <1>1 DEF RowsKept
  <2>2. OrdersTakeBack(bk2.orders)
    BY <1>2, <1>5, <1>7, <1>8 DEF OrdersTakeBack, TakesBack, Original
  <2>3. SumsStand(bk2.orders)
    BY <1>2, <1>3, <1>4, <1>5, <1>6, <1>7, ReversalIsSummed DEF bk2
  <2> QED BY <1>1, <1>8, <1>9, <1>11, <1>13, <2>1, <2>2, <2>3, PoolMovesOn DEF bs
<1> QED BY <1>14 DEF bk2, ans2, o, m

-----------------------------------------------------------------------------
(* The steps *)

\* What a request awaited by the form asks for.
LEMMA AwaitedBody ==
  ASSUME NEW bk, NEW ans, NEW wr, NEW v, PageSound(bk, ans, wr, v),
         NEW w \in wr, w.n = form.awaits
  PROVE  /\ form.tag = "quoting" => w.body = quoteBody(form) /\ w.body.kind = "quote"
         /\ form.tag = "submitting" =>
              /\ w.body = buildShareOrderExecution(form) /\ w.body.kind = "execute"
              /\ w.body.review = form.quoteKey
<1>1. w.body = IF form.tag = "quoting" THEN quoteBody(form) ELSE buildShareOrderExecution(form)
  BY PageTypes DEF WireIsSound
<1>2. form \in OrderForm BY PageTypes
<1> QED BY <1>1, <1>2, BodyFields

\* A request that has a row is answered from it: its own row is the only one it may find.
LEMMA AnswerOfRow ==
  ASSUME NEW bk, NEW ans, NEW wr, NEW v, PageSound(bk, ans, wr, v),
         NEW w \in wr, ans[w.body.key] # NotSent
  PROVE  /\ PageSound(bk, ans, wr \ {w}, v)
         /\ AnswerIsTrue(w.n, IF ans[w.body.key].body = w.body THEN "ok" ELSE "terminal",
                         ans[w.body.key].version, bk, ans, wr \ {w}, form, refused)
<1> DEFINE m      == w.body
           answer == IF ans[m.key].body = m THEN "ok" ELSE "terminal"
           bs     == BodiesOf(wr, ans)
<1>1. /\ OrdersTypes(bk, ans, wr, form, reversal, v, reloads, made)
      /\ KeysAreApart(bs, form, InHand(reversal, reloads), made.keys)
      /\ QuotesAreKept(bk, ans, bs)
  BY DEF PageSound, OrdersSound
<1>2. PageSound(bk, ans, wr \ {w}, v) BY PoolDrops DEF PageSound
<1>3. m \in bs BY DEF BodiesOf
<1>4. m.key \in KeysOf(ans)
  <2>1. m.key \in 1..made.keys BY <1>1, <1>3 DEF KeysAreApart
  <2>2. made.keys \in Nat /\ made.keys <= MaxOrderKeys BY <1>1 DEF OrdersTypes, OrdersMade
  <2> QED BY <2>1, <2>2, OrdersAssumption DEF KeysOf
<1>5. ans[m.key].body \in bs BY <1>4 DEF BodiesOf
<1>6. ans[m.key].body.key = m.key /\ Quoted(ans[m.key].version, bk) BY <1>1, <1>4 DEF QuotesAreKept
<1> HIDE DEF m, bs
<1>7. m.kind # "reverse" => ans[m.key].body = m BY <1>1, <1>3, <1>5, <1>6 DEF KeysAreApart
<1>8. w.n = form.awaits /\ form.tag = "submitting" =>
        m = buildShareOrderExecution(form) /\ m.kind = "execute"
  BY AwaitedBody DEF m
<1>9. AnswerIsTrue(w.n, answer, ans[m.key].version, bk, ans, wr \ {w}, form, refused)
  BY <1>4, <1>6, <1>7, <1>8 DEF AnswerIsTrue
<1> QED BY <1>2, <1>9 DEF m

\* An execution that was refused will be refused again.
LEMMA AnswerOfRefusal ==
  ASSUME NEW bk, NEW ans, NEW wr, NEW v, PageSound(bk, ans, wr, v),
         NEW w \in wr, ans[w.body.key] = NotSent,
         NEW answer \in {"stale", "terminal"}, NEW version,
         w.body.kind = "execute" =>
           ~bk.member \/ ~bk.active \/ w.body.version # bk.version
  PROVE  /\ PageSound(bk, ans, wr \ {w}, v)
         /\ AnswerIsTrue(w.n, answer, version, bk, ans, wr \ {w}, form, refused)
<1> DEFINE m  == w.body
           bs == BodiesOf(wr, ans)
<1>1. /\ OrdersTypes(bk, ans, wr, form, reversal, v, reloads, made)
      /\ ReviewsAreApart(bs, form, made.keys)
      /\ QuotesAreKept(bk, ans, bs) /\ RefusalsStand(bk, ans, bs, refused)
  BY DEF PageSound, OrdersSound
<1>2. PageSound(bk, ans, wr \ {w}, v) BY PoolDrops DEF PageSound
<1>3. m \in bs BY DEF BodiesOf
<1>4. m \in Body /\ m.version \in Nat
  <2>1. m \in Body BY <1>1, <1>3, BodyTypes
  <2> QED BY <2>1 DEF Body
<1>5. bk.version \in Nat /\ \A k \in KeysOf(ans) : ans[k].body \in bs
  BY <1>1 DEF OrdersTypes, OrderBooks, BodiesOf
<1>6. BodiesOf(wr \ {w}, ans) \subseteq bs BY DEF BodiesOf
<1>7. ASSUME w.n = form.awaits, form.tag = "submitting"
      PROVE  RefusalsStand(bk, ans, BodiesOf(wr \ {w}, ans), refused \cup {form.quoteKey})
  <2>1. /\ m = buildShareOrderExecution(form) /\ m.kind = "execute" /\ m.review = form.quoteKey
    BY <1>7, AwaitedBody
  <2>2. m.key \notin KeysOf(ans) BY DEF KeysOf
  <2>3. ~bk.member \/ ~bk.active \/ m.version # bk.version BY <2>1
  <2> HIDE DEF m, bs
  <2>4. IsDead(m, bk)
    <3>1. Quoted(m.version, bk) BY <1>1, <1>3, <2>1 DEF QuotesAreKept
    <3> QED BY <1>4, <1>5, <2>3, <3>1 DEF IsDead, Quoted
  <2>5. \A b \in bs : b.kind = "execute" /\ b.review = form.quoteKey => b = m
    BY <1>1, <1>3, <2>1 DEF ReviewsAreApart
  <2>6. \A b \in BodiesOf(wr \ {w}, ans) :
          b.kind = "execute" /\ b.review \in refused \cup {form.quoteKey} => IsDead(b, bk)
    BY <1>1, <1>6, <2>4, <2>5 DEF RefusalsStand
  <2>7. ASSUME NEW k \in KeysOf(ans), ans[k].body.kind = "execute"
        PROVE  ans[k].body.review \notin refused \cup {form.quoteKey}
    <3>1. ans[k].body.review \notin refused BY <1>1, <2>7 DEF RefusalsStand
    <3>2. ans[k].body.key = k /\ ans[k].body \in bs BY <1>1, <1>5 DEF QuotesAreKept
    <3>3. ans[k].body.review = form.quoteKey => ans[k].body = m BY <2>5, <2>7, <3>2
    <3> QED BY <2>2, <3>1, <3>2, <3>3
  <2> QED BY <2>6, <2>7 DEF RefusalsStand
<1>8. AnswerIsTrue(w.n, answer, version, bk, ans, wr \ {w}, form, refused)
  BY <1>7 DEF AnswerIsTrue
<1> QED BY <1>2, <1>8

\* What is accepted is what the page is told, if it still listens.
LEMMA AnswerOfProcess ==
  ASSUME OrdersInv, NEW w \in wire, answered[w.body.key] = NotSent,
         "ok" \in Fate(w.body), Process(w.body, "ok")
  PROVE  /\ PageSound(books', answered', wire \ {w}, view)
         /\ AnswerIsTrue(w.n, "ok", books.version, books', answered', wire \ {w}, form, refused)
<1> DEFINE m    == w.body
           ans2 == Answering(answered, m, books.version)
<1>0. PageSound(books, answered, wire, view) BY DEF OrdersInv, PageSound
<1>1. /\ OrdersTypes(books, answered, wire, form, reversal, view, reloads, made)
      /\ QuotesAreKept(books, answered, BodiesOf(wire, answered))
  BY DEF OrdersInv, OrdersSound
<1>2. answered' = ans2 BY DEF Process, Answering
<1>3. m.key \in KeysOf(ans2) /\ ans2[m.key].body = m /\ m \in Body
  <2>1. RowAdded(answered, ans2, wire, w, books.version) BY RowIsWritten DEF OrdersInv
  <2> HIDE DEF ans2
  <2> QED BY <2>1 DEF RowAdded
<1>4. m.kind \in {"quote", "execute", "reverse"} BY <1>3 DEF Body
<1>5. w.n = form.awaits /\ form.tag = "submitting" => m = buildShareOrderExecution(form)
  BY <1>0, AwaitedBody
<1>6. w.n = form.awaits /\ form.tag = "quoting" => m.kind = "quote" BY <1>0, AwaitedBody
<1>7. CASE m.kind = "quote"
  <2>1. books' = books /\ books.member BY <1>7 DEF Process, Fate
  <2>2. OrdersSound(books, ans2, wire \ {w}, form, reversal, view, reloads, made, refused)
    BY <1>7, <2>1, QuoteIsAnswered DEF OrdersInv
  <2>3. Quoted(books.version, books) BY <1>1, <2>1 DEF OrdersTypes, OrderBooks, Quoted
  <2> HIDE DEF ans2, m
  <2>4. PageSound(books', answered', wire \ {w}, view) BY <1>2, <2>1, <2>2 DEF PageSound
  <2>5. AnswerIsTrue(w.n, "ok", books.version, books', answered', wire \ {w}, form, refused)
    BY <1>2, <1>3, <1>5, <2>1, <2>3 DEF AnswerIsTrue
  <2> QED BY <2>4, <2>5
<1>8. CASE m.kind = "execute"
  <2> DEFINE o == [shares |-> m.amount, price |-> books.version, reverses |-> 0, review |-> m.review]
  <2>1. books' = Adding(books, o) BY <1>8 DEF Process, Move, Ordered, Adding
  <2>2. books.active /\ m.version = books.version
    BY <1>8 DEF Fate, applyOrder, OrderQuoteStale
  <2>3. OrdersSound(Adding(books, o), ans2, wire \ {w}, form, reversal, view, reloads, made, refused)
    BY <1>8, <2>2, ExecutionIsAnswered DEF OrdersInv
  <2> HIDE DEF ans2, m, o
  <2>4. PageSound(books', answered', wire \ {w}, view) BY <1>2, <2>1, <2>3 DEF PageSound
  <2>5. AnswerIsTrue(w.n, "ok", books.version, books', answered', wire \ {w}, form, refused)
    BY <1>2, <1>3, <1>5, <1>6, <1>8 DEF AnswerIsTrue
  <2> QED BY <2>4, <2>5
<1>9. CASE m.kind = "reverse"
  <2> DEFINE o == [shares |-> -books.orders[m.order].shares, price |-> books.orders[m.order].price,
                   reverses |-> m.order, review |-> 0]
  <2>1. books' = Adding(books, o) BY <1>9 DEF Process, Move, TakenBack, Adding
  <2>2. m.order \notin Reversed(books.orders) BY <1>9 DEF Fate, reverseOrder
  <2>3. OrdersSound(Adding(books, o), ans2, wire \ {w}, form, reversal, view, reloads, made, refused)
    BY <1>9, <2>2, ReversalIsAnswered DEF OrdersInv
  <2> HIDE DEF ans2, m, o
  <2>4. PageSound(books', answered', wire \ {w}, view) BY <1>2, <2>1, <2>3 DEF PageSound
  <2>5. AnswerIsTrue(w.n, "ok", books.version, books', answered', wire \ {w}, form, refused)
    BY <1>2, <1>3, <1>5, <1>6, <1>9 DEF AnswerIsTrue
  <2> QED BY <2>4, <2>5
<1> QED BY <1>4, <1>7, <1>8, <1>9

\* The rest of a step that hears an answer, or does not.
LEMMA PageHearsOrNot ==
  ASSUME NEW bk, NEW ans, NEW wr, NEW v, PageSound(bk, ans, wr, v), NEW n, NEW answer, NEW version,
         n # 0, AnswerIsTrue(n, answer, version, bk, ans, wr, form, refused), NEW heard \in BOOLEAN,
         IF heard THEN PageHears(n, answer, version)
                  ELSE UNCHANGED <<form, reversal, reloads, made, refused>>
  PROVE  PageStaysSound(bk, ans, wr, v)
<1>1. CASE heard BY <1>1, PageIsAnswered
<1>2. CASE ~heard BY <1>2 DEF PageSound, PageStaysSound
<1> QED BY <1>1, <1>2

LEMMA RequestIsHandled ==
  ASSUME OrdersInv, NEW w \in wire, NEW heard \in BOOLEAN, Handle(w, heard)
  PROVE  OrdersInv'
<1> DEFINE m == w.body
<1>0. PageSound(books, answered, wire, view) BY DEF OrdersInv, PageSound
<1>1. wire' = wire \ {w} /\ view' = view BY DEF Handle
<1>2. w.n # 0
  <2>1. WireIsSound(wire, form, reversal, made.sends) BY <1>0, PageTypes
  <2> QED BY <2>1 DEF WireIsSound
<1>3. SUFFICES PageStaysSound(books', answered', wire \ {w}, view)
  BY <1>1 DEF OrdersInv, PageStaysSound
<1>4. CASE answered[m.key] # NotSent
  <2> DEFINE answer == IF answered[m.key].body = m THEN "ok" ELSE "terminal"
  <2>1. /\ PageSound(books, answered, wire \ {w}, view)
        /\ AnswerIsTrue(w.n, answer, answered[m.key].version, books, answered, wire \ {w}, form,
                        refused)
    BY <1>0, <1>4, AnswerOfRow
  <2>2. /\ books' = books /\ answered' = answered
        /\ IF heard THEN PageHears(w.n, answer, answered[m.key].version)
                    ELSE UNCHANGED <<form, reversal, reloads, made, refused>>
    BY <1>4 DEF Handle
  <2> HIDE DEF answer, m
  <2> QED BY <1>2, <2>1, <2>2, PageHearsOrNot
<1>5. CASE answered[m.key] = NotSent
  <2>1. PICK answer \in Fate(m) :
          /\ IF answer = "ok" THEN Process(m, answer) ELSE UNCHANGED <<books, answered>>
          /\ IF heard THEN PageHears(w.n, answer, books.version)
                      ELSE UNCHANGED <<form, reversal, reloads, made, refused>>
    BY <1>5 DEF Handle
  <2>2. CASE answer = "ok"
    <3>1. /\ PageSound(books', answered', wire \ {w}, view)
          /\ AnswerIsTrue(w.n, "ok", books.version, books', answered', wire \ {w}, form, refused)
      BY <1>5, <2>1, <2>2, AnswerOfProcess
    <3> HIDE DEF m
    <3> QED BY <1>2, <2>1, <2>2, <3>1, PageHearsOrNot
  <2>3. CASE answer # "ok"
    <3>1. /\ answer \in {"stale", "terminal"}
          /\ m.kind = "execute" => ~books.member \/ ~books.active \/ m.version # books.version
      <4>1. m.kind \in {"quote", "execute", "reverse"}
        <5>1. m \in Body BY BodyTypes DEF OrdersInv, OrdersSound, BodiesOf
        <5> QED BY <5>1 DEF Body
      <4> QED BY <2>1, <2>3, <4>1 DEF Fate, applyOrder, reverseOrder, OrderQuoteStale
    <3>2. /\ PageSound(books, answered, wire \ {w}, view)
          /\ AnswerIsTrue(w.n, answer, books.version, books, answered, wire \ {w}, form, refused)
      BY <1>0, <1>5, <3>1, AnswerOfRefusal
    <3>3. books' = books /\ answered' = answered BY <2>1, <2>3
    <3> HIDE DEF m
    <3> QED BY <1>2, <2>1, <3>2, <3>3, PageHearsOrNot
  <2> QED BY <2>2, <2>3
<1> QED BY <1>4, <1>5

LEMMA ViewIsLoaded ==
  ASSUME NEW bk, NEW ans, NEW wr, NEW f, NEW rev, NEW v, NEW rel, NEW md, NEW ref,
         OrdersSound(bk, ans, wr, f, rev, v, rel, md, ref)
  PROVE  OrdersSound(bk, ans, wr, f, rev, [orders |-> bk.orders, active |-> bk.active], rel, md, ref)
<1> DEFINE v2 == [orders |-> bk.orders, active |-> bk.active]
<1>1. OrdersTypes(bk, ans, wr, f, rev, v, rel, md) BY DEF OrdersSound
<1>2. v2 \in OrderView /\ v2.orders = bk.orders
  BY <1>1 DEF OrdersTypes, OrderBooks, OrderView
<1> HIDE DEF v2
<1>3. ViewIsOld(v2, bk)
  <2>1. Len(bk.orders) \in Nat BY <1>1 DEF OrdersTypes, OrderBooks
  <2>2. Len(v2.orders) <= Len(bk.orders) BY <1>2, <2>1
  <2> QED BY <1>2, <2>2 DEF ViewIsOld
<1>4. OrdersTypes(bk, ans, wr, f, rev, v2, rel, md) BY <1>1, <1>2 DEF OrdersTypes
<1>5. OrdersSound(bk, ans, wr, f, rev, v2, rel, md, ref) BY <1>3, <1>4 DEF OrdersSound
<1> QED BY <1>5 DEF v2

LEMMA PageFacts ==
  ASSUME OrdersInv
  PROVE  /\ OrdersTypes(books, answered, wire, form, reversal, view, reloads, made)
         /\ form \in OrderForm /\ reversal \in ReversalForm /\ reloads \in SUBSET FrozenForm
         /\ WireIsSound(wire, form, reversal, made.sends)
         /\ SameReversals(InHand(reversal, reloads), InHand(reversal, reloads))
         /\ SameOrder(form, form)
         /\ form.tag = "gone" =>
              \E k \in KeysOf(answered) : answered[k].body = buildShareOrderExecution(form)
<1>1. /\ OrdersTypes(books, answered, wire, form, reversal, view, reloads, made)
      /\ WireIsSound(wire, form, reversal, made.sends)
      /\ FormIsSound(form, books, answered, refused, made.keys)
  BY DEF OrdersInv, OrdersSound
<1>2. form \in OrderForm /\ reversal \in ReversalForm /\ reloads \in SUBSET FrozenForm
  BY <1>1 DEF OrdersTypes
<1>3. SameReversals(InHand(reversal, reloads), InHand(reversal, reloads))
  BY <1>2 DEF SameReversals, InHand, FrozenForm
<1>4. SameOrder(form, form) BY <1>2 DEF SameOrder
<1> QED BY <1>1, <1>2, <1>3, <1>4 DEF FormIsSound

\* The step of a new editor, once the view is as it is.
LEMMA EditorOpens ==
  ASSUME NEW v, OrdersSound(books, answered, wire, form, reversal, v, reloads, made, refused),
         NEW a \in Amount, freshEditor(a), view' = v,
         UNCHANGED <<books, answered, wire, reversal, reloads, refused>>
  PROVE  OrdersInv'
<1>1. /\ made.keys < MaxOrderKeys /\ form' = Editing(a, made.keys + 1)
      /\ made' = [made EXCEPT !.keys = made.keys + 1]
  BY DEF freshEditor, Fresh
<1>2. RefusalsStand(books, answered, BodiesOf(wire, answered), refused) BY DEF OrdersSound
<1>3. OrdersSound(books, answered, wire, Editing(a, made.keys + 1), reversal, v, reloads,
                  [made EXCEPT !.keys = made.keys + 1], refused)
  BY <1>1, <1>2, EditorIsFresh
<1> QED BY <1>1, <1>3 DEF OrdersInv

LEMMA OpenPageSafe == ASSUME OrdersInv, OpenPage PROVE OrdersInv'
<1>1. OrdersSound(books, answered, wire, form, reversal,
                  [orders |-> books.orders, active |-> books.active], reloads, made, refused)
  BY ViewIsLoaded DEF OrdersInv
<1>2. /\ freshEditor(Usual) /\ view' = [orders |-> books.orders, active |-> books.active]
      /\ UNCHANGED <<books, answered, wire, reversal, reloads, refused>>
  BY DEF OpenPage
<1>3. Usual \in Amount BY OrdersAssumption
<1> QED BY <1>1, <1>2, <1>3, EditorOpens

LEMMA EditOrderSafe == ASSUME OrdersInv, EditOrder PROVE OrdersInv'
<1>1. PICK a \in Amount : freshEditor(a) BY DEF EditOrder
<1>2. view' = view /\ UNCHANGED <<books, answered, wire, reversal, reloads, refused>>
  BY DEF EditOrder
<1> QED BY <1>1, <1>2, EditorOpens DEF OrdersInv

LEMMA ReturnSafe == ASSUME OrdersInv, returnToEditor PROVE OrdersInv'
<1>1. form.amount \in Amount BY PageFacts DEF OrderForm
<1>2. /\ freshEditor(form.amount) /\ view' = view
      /\ UNCHANGED <<books, answered, wire, reversal, reloads, refused>>
  BY DEF returnToEditor
<1> QED BY <1>1, <1>2, EditorOpens DEF OrdersInv

\* The step of a request.
LEMMA RequestIsSent ==
  ASSUME OrdersInv, NEW c, Sendable(c, form, InHand(reversal, reloads)), Post(c),
         made' = [made EXCEPT !.sends = made.sends + 1],
         SameOrder(form, form'), form'.tag = form.tag \/ form'.tag # "gone", form.tag # "gone",
         reversal' \in ReversalForm,
         SameReversals(InHand(reversal, reloads), InHand(reversal', reloads)),
         form' = form \/ /\ form'.awaits = made.sends + 1 /\ form'.tag \in {"quoting", "submitting"}
                         /\ c = IF form'.tag = "quoting" THEN quoteBody(form)
                                ELSE buildShareOrderExecution(form),
         reversal' = reversal \/ (reversal'.awaits = made.sends + 1 /\ reversal'.tag # "idle"),
         UNCHANGED <<books, answered, view, reloads, refused>>
  PROVE  OrdersInv'
<1>1. wire' = wire \cup {[n |-> made.sends + 1, body |-> c]} BY DEF Post
<1>2. OrdersSound(books, answered, wire \cup {[n |-> made.sends + 1, body |-> c]}, form', reversal',
                  view, reloads, [made EXCEPT !.sends = made.sends + 1], refused)
  BY PagePosts DEF OrdersInv
<1> QED BY <1>1, <1>2 DEF OrdersInv

LEMMA QuoteOrderSafe == ASSUME OrdersInv, quoteOrder PROVE OrdersInv'
<1> DEFINE f2 == [form EXCEPT !.tag = "quoting", !.awaits = made.sends + 1]
<1>1. /\ form.tag = "editing" /\ Post(quoteBody(form)) /\ form' = f2
      /\ made' = [made EXCEPT !.sends = made.sends + 1] /\ reversal' = reversal
      /\ UNCHANGED <<books, answered, view, reloads, refused>>
  BY DEF quoteOrder
<1>2. made.sends + 1 \in Nat BY PageFacts DEF OrdersTypes, OrdersMade
<1>3. SameOrder(form, f2) /\ f2.tag = "quoting" /\ f2.awaits = made.sends + 1
  BY <1>1, <1>2, PageFacts DEF SameOrder, OrderForm, IsReviewed
<1>4. Sendable(quoteBody(form), form, InHand(reversal, reloads)) BY DEF Sendable
<1> HIDE DEF f2
<1> QED BY <1>1, <1>3, <1>4, PageFacts, RequestIsSent

LEMMA ExecuteSafe == ASSUME OrdersInv, execute PROVE OrdersInv'
<1> DEFINE f2 == [form EXCEPT !.tag = "submitting", !.awaits = made.sends + 1]
<1>1. /\ form.tag = "reviewing" /\ Post(buildShareOrderExecution(form)) /\ form' = f2
      /\ made' = [made EXCEPT !.sends = made.sends + 1] /\ reversal' = reversal
      /\ UNCHANGED <<books, answered, view, reloads, refused>>
  BY DEF execute, Screen
<1>2. made.sends + 1 \in Nat BY PageFacts DEF OrdersTypes, OrdersMade
<1>3. SameOrder(form, f2) /\ f2.tag = "submitting" /\ f2.awaits = made.sends + 1
  BY <1>1, <1>2, PageFacts DEF SameOrder, OrderForm, IsReviewed
<1>4. Sendable(buildShareOrderExecution(form), form, InHand(reversal, reloads))
  BY <1>1 DEF Sendable, IsReviewed
<1> HIDE DEF f2
<1> QED BY <1>1, <1>3, <1>4, PageFacts, RequestIsSent

LEMMA ReverseSafe == ASSUME OrdersInv, reverse PROVE OrdersInv'
<1> DEFINE r2 == [reversal EXCEPT !.tag = "submitting", !.awaits = made.sends + 1]
<1>1. /\ form.tag # "gone" /\ reversal.tag = "reviewing" /\ Post(reverseBody(reversal))
      /\ reversal' = r2 /\ made' = [made EXCEPT !.sends = made.sends + 1] /\ form' = form
      /\ UNCHANGED <<books, answered, view, reloads, refused>>
  BY DEF reverse, Screen
<1>2. made.sends + 1 \in Nat BY PageFacts DEF OrdersTypes, OrdersMade
<1>3. /\ r2 \in ReversalForm /\ r2.tag = "submitting" /\ r2.awaits = made.sends + 1
      /\ r2.key = reversal.key /\ r2.order = reversal.order
  BY <1>2, PageFacts DEF ReversalForm
<1>4. Sendable(reverseBody(reversal), form, InHand(reversal, reloads))
  BY <1>1 DEF Sendable, InHand
<1> HIDE DEF r2
<1>5. SameReversals(InHand(reversal, reloads), InHand(r2, reloads))
  BY <1>1, <1>3, PageFacts DEF SameReversals, InHand, FrozenForm
<1> QED BY <1>1, <1>3, <1>4, <1>5, PageFacts, RequestIsSent

LEMMA OpenReversalSafe == ASSUME OrdersInv, OpenReversal PROVE OrdersInv'
<1> DEFINE bs  == BodiesOf(wire, answered)
           rs  == InHand(reversal, reloads)
           rs2 == InHand(reversal', reloads)
<1>1. PICK i \in reversible(view), reason \in Reason :
        reversal' = [tag |-> "reviewing", order |-> i, reason |-> reason, key |-> made.keys + 1,
                     awaits |-> 0]
  BY DEF OpenReversal, Fresh
<1>2. /\ made.keys < MaxOrderKeys /\ made' = [made EXCEPT !.keys = made.keys + 1]
      /\ UNCHANGED <<books, answered, wire, form, view, reloads, refused>>
  BY DEF OpenReversal, Fresh
<1>3. /\ OrdersTypes(books, answered, wire, form, reversal, view, reloads, made)
      /\ KeysAreApart(bs, form, rs, made.keys) /\ ReviewsAreApart(bs, form, made.keys)
      /\ WireIsSound(wire, form, reversal, made.sends)
      /\ QuotesAreKept(books, answered, bs)
      /\ OrdersAreAnswered(books, answered) /\ OrdersAreApart(books.orders)
      /\ OrdersTakeBack(books.orders) /\ SumsStand(books.orders)
      /\ RefusalsStand(books, answered, bs, refused)
      /\ FormIsSound(form, books, answered, refused, made.keys)
      /\ OrdersExist(rs, books.orders) /\ ViewIsOld(view, books)
  BY DEF OrdersInv, OrdersSound
<1>4. made.keys \in Nat /\ made.keys + 1 \in Nat /\ made.keys + 1 <= MaxOrderKeys
  BY <1>2, <1>3, OrdersAssumption DEF OrdersTypes, OrdersMade
<1>5. made' \in OrdersMade /\ made'.keys = made.keys + 1 /\ made'.sends = made.sends
  BY <1>2, <1>3, <1>4 DEF OrdersTypes, OrdersMade
<1>6. Original(books.orders, i) /\ i \in Nat
  <2>1. view.orders \in Seq(OrderRow) /\ books.orders \in Seq(OrderRow)
    BY <1>3 DEF OrdersTypes, OrderView, OrderBooks
  <2>2. i \in DOMAIN view.orders /\ view.orders[i].reverses = 0 BY DEF reversible
  <2>3. /\ DOMAIN view.orders = 1..Len(view.orders) /\ Len(view.orders) \in Nat
        /\ DOMAIN books.orders = 1..Len(books.orders) /\ Len(books.orders) \in Nat
    BY <2>1
  <2>4. i \in DOMAIN books.orders /\ i \in Nat BY <1>3, <2>2, <2>3 DEF ViewIsOld
  <2>5. books.orders[i] = view.orders[i] BY <1>3, <2>2 DEF ViewIsOld
  <2> QED BY <2>2, <2>4, <2>5 DEF Original
<1>7. /\ reversal' \in ReversalForm /\ reversal'.order = i /\ reversal'.key = made.keys + 1
      /\ reversal'.awaits = 0
  BY <1>1, <1>4, <1>6 DEF ReversalForm
<1>8. rs2 \subseteq rs \cup {reversal'} BY DEF InHand
<1> HIDE DEF bs, rs, rs2
<1>9. KeysAreApart(bs, form, rs2, made.keys + 1)
  BY <1>3, <1>4, <1>7, <1>8 DEF KeysAreApart
<1>10. ReviewsAreApart(bs, form, made.keys + 1) BY <1>3, <1>4 DEF ReviewsAreApart
<1>11. WireIsSound(wire, form, reversal', made.sends) BY <1>3, <1>7, NothingAwaited
<1>12. FormIsSound(form, books, answered, refused, made.keys + 1)
  BY <1>3, <1>4 DEF FormIsSound
<1>13. OrdersExist(rs2, books.orders) BY <1>3, <1>6, <1>7, <1>8 DEF OrdersExist
<1>14. OrdersTypes(books, answered, wire, form, reversal', view, reloads, made')
  BY <1>3, <1>5, <1>7 DEF OrdersTypes
<1>15. OrdersSound(books, answered, wire, form, reversal', view, reloads, made', refused)
  BY <1>3, <1>5, <1>9, <1>10, <1>11, <1>12, <1>13, <1>14 DEF OrdersSound, bs, rs2
<1> QED BY <1>2, <1>15 DEF OrdersInv

LEMMA EditReversalSafe == ASSUME OrdersInv, EditReversal PROVE OrdersInv'
<1>1. /\ reversal.tag = "reviewing"
      /\ UNCHANGED <<books, answered, wire, form, view, reloads, made, refused>>
  BY DEF EditReversal
<1>2. /\ reversal' \in ReversalForm
      /\ SameReversals(InHand(reversal, reloads), InHand(reversal', reloads))
      /\ WireIsSound(wire, form, reversal', made.sends)
  <2>1. ASSUME NEW reason \in Reason, reversal' = [reversal EXCEPT !.reason = reason]
        PROVE  /\ reversal' \in ReversalForm
               /\ SameReversals(InHand(reversal, reloads), InHand(reversal', reloads))
               /\ WireIsSound(wire, form, reversal', made.sends)
    <3>1. /\ reversal' \in ReversalForm /\ reversal'.tag = "reviewing"
          /\ reversal'.key = reversal.key /\ reversal'.order = reversal.order
          /\ reversal'.awaits = reversal.awaits
      BY <1>1, <2>1, PageFacts DEF ReversalForm
    <3>2. SameReversals(InHand(reversal, reloads), InHand(reversal', reloads))
      BY <1>1, <3>1, PageFacts DEF SameReversals, InHand, FrozenForm
    <3>3. WireIsSound(wire, form, reversal', made.sends) BY <3>1, PageFacts DEF WireIsSound
    <3> QED BY <3>1, <3>2, <3>3
  <2>2. CASE reversal' = NotReversing
    <3>1. reversal' \in ReversalForm /\ reversal'.tag = "idle" /\ reversal'.awaits = 0
      BY <2>2 DEF NotReversing, ReversalForm
    <3>2. SameReversals(InHand(reversal, reloads), InHand(reversal', reloads))
      BY <3>1, PageFacts DEF SameReversals, InHand, FrozenForm
    <3> QED BY <3>1, <3>2, PageFacts, NothingAwaited
  <2> QED BY <2>1, <2>2 DEF EditReversal
<1>3. OrdersSound(books, answered, wire, form, reversal', view, reloads, made, refused)
  BY <1>2, PageFacts, PageGoesOn DEF OrdersInv
<1> QED BY <1>1, <1>3 DEF OrdersInv

LEMMA ReloadSafe == ASSUME OrdersInv, Reload PROVE OrdersInv'
<1> DEFINE v2 == [orders |-> books.orders, active |-> books.active]
<1>1. PICK revived \in reloads :
        /\ reloads' = reloads \ {revived}
        /\ \/ view' = v2 /\ reversal' = reversal
           \/ reversal' = revived /\ view' = view
        /\ UNCHANGED <<books, answered, wire, form, made, refused>>
  BY DEF Reload
<1>2. revived \in ReversalForm /\ revived.awaits = 0 /\ reloads' \in SUBSET FrozenForm
  BY <1>1, PageFacts DEF FrozenForm
<1>3. OrdersSound(books, answered, wire, form, reversal, view', reloads, made, refused)
  BY <1>1, ViewIsLoaded DEF OrdersInv
<1>4. /\ reversal' \in ReversalForm /\ (reversal' = reversal \/ reversal'.awaits = 0)
      /\ InHand(reversal', reloads') \subseteq InHand(reversal, reloads)
  BY <1>1, <1>2, PageFacts DEF InHand
<1>5. SameReversals(InHand(reversal, reloads), InHand(reversal', reloads'))
  BY <1>4, PageFacts DEF SameReversals
<1>6. WireIsSound(wire, form, reversal', made.sends) BY <1>4, PageFacts, NothingAwaited
<1>7. OrdersSound(books, answered, wire, form, reversal', view', reloads', made, refused)
  <2>1. SameOrder(form, form) BY PageFacts
  <2>2. form.tag = "gone" =>
          \E k \in KeysOf(answered) : answered[k].body = buildShareOrderExecution(form)
    BY PageFacts
  <2>3. reversal' \in ReversalForm /\ reloads' \in SUBSET FrozenForm BY <1>2, <1>4
  <2> QED BY <1>3, <1>5, <1>6, <2>1, <2>2, <2>3, PageGoesOn
<1> QED BY <1>1, <1>7 DEF OrdersInv

LEMMA GiveUpSafe == ASSUME OrdersInv, GiveUp PROVE OrdersInv'
<1>1. PICK n \in {form.awaits, reversal.awaits} \ {0} : PageHears(n, "lost", 0) BY DEF GiveUp
<1>2. UNCHANGED <<books, answered, wire, view>> BY DEF GiveUp
<1>3. PageSound(books, answered, wire, view) BY DEF OrdersInv, PageSound
<1>4. AnswerIsTrue(n, "lost", 0, books, answered, wire, form, refused) BY DEF AnswerIsTrue
<1>5. PageStaysSound(books, answered, wire, view) BY <1>1, <1>3, <1>4, PageIsAnswered
<1> QED BY <1>2, <1>5 DEF PageStaysSound, OrdersInv

LEMMA OtherCommandSafe == ASSUME OrdersInv, OtherCommand PROVE OrdersInv'
<1>1. PICK member \in BOOLEAN, active \in BOOLEAN :
        books' = [books EXCEPT !.version = books.version + 1, !.member = member, !.active = active]
  BY DEF OtherCommand
<1>2. /\ books.active
      /\ UNCHANGED <<answered, wire, form, reversal, view, reloads, made, refused>>
  BY DEF OtherCommand
<1>3. /\ OrdersTypes(books, answered, wire, form, reversal, view, reloads, made)
      /\ OrdersAreAnswered(books, answered) /\ OrdersAreApart(books.orders)
      /\ OrdersTakeBack(books.orders) /\ SumsStand(books.orders)
  BY DEF OrdersInv, OrdersSound
<1>4. books \in OrderBooks /\ books.version \in Nat /\ answered \in AnswerRows
  BY <1>3 DEF OrdersTypes, OrderBooks
<1>5. /\ books' \in OrderBooks /\ books'.version = books.version + 1
      /\ books'.orders = books.orders
  <2>1. books.version + 1 \in Nat BY <1>4
  <2> QED BY <1>1, <1>4, <2>1 DEF OrderBooks
<1>6. Grown(books, books')
  <2>1. Len(books.orders) \in Nat BY <1>4 DEF OrderBooks
  <2> QED BY <1>2, <1>4, <1>5, <2>1 DEF Grown
<1>7. OrdersAreAnswered(books', answered)
  <2>1. \A i \in DOMAIN books.orders : books.orders[i].price \in Nat BY <1>4, OrderFields
  <2>2. \A i \in DOMAIN books.orders :
          books.orders[i].price < books.version => books.orders[i].price < books'.version
    BY <1>4, <1>5, <2>1
  <2> QED BY <1>3, <1>5, <2>2 DEF OrdersAreAnswered
<1>8. OrdersAreApart(books'.orders) /\ OrdersTakeBack(books'.orders) /\ SumsStand(books'.orders)
  BY <1>3, <1>5
<1>9. RowsKept(answered, answered)
      /\ RowsAreSound(KeysOf(answered) \ KeysOf(answered), answered, books', refused)
  BY DEF RowsKept, RowsAreSound
<1>10. OrdersSound(books', answered, wire, form, reversal, view, reloads, made, refused)
  BY <1>4, <1>6, <1>7, <1>8, <1>9, PoolMovesOn DEF OrdersInv
<1> QED BY <1>2, <1>10 DEF OrdersInv

LEMMA OrdersStep == ASSUME OrdersInv, [OrdersNext]_ordersVars PROVE OrdersInv'
<1>1. CASE OpenPage BY <1>1, OpenPageSafe
<1>2. CASE EditOrder BY <1>2, EditOrderSafe
<1>3. CASE quoteOrder BY <1>3, QuoteOrderSafe
<1>4. CASE execute BY <1>4, ExecuteSafe
<1>5. CASE returnToEditor BY <1>5, ReturnSafe
<1>6. CASE OpenReversal BY <1>6, OpenReversalSafe
<1>7. CASE EditReversal BY <1>7, EditReversalSafe
<1>8. CASE reverse BY <1>8, ReverseSafe
<1>9. CASE Reload BY <1>9, ReloadSafe
<1>10. CASE GiveUp BY <1>10, GiveUpSafe
<1>11. CASE OtherCommand BY <1>11, OtherCommandSafe
<1>12. ASSUME NEW w \in wire, NEW heard \in BOOLEAN, Handle(w, heard) PROVE OrdersInv'
  BY <1>12, RequestIsHandled
<1>13. CASE UNCHANGED ordersVars BY <1>13 DEF ordersVars, OrdersInv
<1> QED
  BY <1>1, <1>2, <1>3, <1>4, <1>5, <1>6, <1>7, <1>8, <1>9, <1>10, <1>11, <1>12, <1>13
     DEF OrdersNext

LEMMA OrdersInitially == OrdersInit => OrdersInv
<1> SUFFICES ASSUME OrdersInit PROVE OrdersInv OBVIOUS
<1>1. MaxOrderKeys \in Nat /\ MaxOrderKeys > 0 /\ Usual \in Amount BY OrdersAssumption
<1>2. /\ books = [version |-> 1, active |-> TRUE, member |-> TRUE, orders |-> <<>>]
      /\ answered = [k \in 1..MaxOrderKeys |-> NotSent]
      /\ wire = {} /\ reloads = {} /\ refused = {}
      /\ form = Editing(Usual, 1) /\ made = [keys |-> 1, sends |-> 0]
      /\ reversal = NotReversing /\ view = [orders |-> <<>>, active |-> TRUE]
  BY DEF OrdersInit
<1>3. /\ books \in OrderBooks /\ books.orders = <<>> /\ view \in OrderView /\ view.orders = <<>>
  BY <1>2 DEF OrderBooks, OrderView
<1>4. made \in OrdersMade /\ made.keys = 1 /\ made.sends = 0 BY <1>1, <1>2 DEF OrdersMade
<1>5. /\ form \in OrderForm /\ form.tag = "editing" /\ form.quoteKey = 1 /\ form.awaits = 0
      /\ ~IsReviewed(form)
  BY <1>1, <1>2 DEF Editing, OrderForm, IsReviewed
<1>6. reversal \in ReversalForm /\ reversal.tag = "idle" /\ reversal.awaits = 0
  BY <1>2 DEF NotReversing, ReversalForm
<1>7. answered \in AnswerRows /\ KeysOf(answered) = {} BY <1>1, <1>2 DEF AnswerRows, KeysOf
<1>8. BodiesOf(wire, answered) = {} BY <1>2, <1>7 DEF BodiesOf
<1>9. InHand(reversal, reloads) = {} BY <1>2, <1>6 DEF InHand
<1>10. DOMAIN books.orders = {} /\ ViewIsOld(view, books) BY <1>3 DEF ViewIsOld
<1>11. OrdersTypes(books, answered, wire, form, reversal, view, reloads, made)
  BY <1>2, <1>3, <1>4, <1>5, <1>6, <1>7 DEF OrdersTypes
<1>12. KeysAreApart({}, form, {}, made.keys) /\ ReviewsAreApart({}, form, made.keys)
  BY <1>1, <1>4, <1>5 DEF KeysAreApart, ReviewsAreApart
<1>13. WireIsSound(wire, form, reversal, made.sends)
  BY <1>2, <1>4, <1>5, <1>6 DEF WireIsSound
<1>14. /\ QuotesAreKept(books, answered, {}) /\ RefusalsStand(books, answered, {}, refused)
       /\ OrdersAreAnswered(books, answered) /\ OrdersAreApart(books.orders)
       /\ OrdersTakeBack(books.orders)
  BY <1>7, <1>10
     DEF QuotesAreKept, RefusalsStand, OrdersAreAnswered, OrdersAreApart, OrdersTakeBack
<1>15. FormIsSound(form, books, answered, refused, made.keys)
  BY <1>2, <1>4, <1>5 DEF FormIsSound, IsReviewed
<1>16. OrdersExist({}, books.orders) BY DEF OrdersExist
<1>17. SumsStand(books.orders)
  <2>1. Len(books.orders) = 0 BY <1>3
  <2>2. \A x : Total(x, 0) = 0
    <3>1. 0 \in Nat OBVIOUS
    <3> QED BY <3>1, RunningTotalsStep DEF Total
  <2> QED BY <2>1, <2>2 DEF SumsStand, SumStands
<1> QED
  BY <1>8, <1>9, <1>10, <1>11, <1>12, <1>13, <1>14, <1>15, <1>16, <1>17
     DEF OrdersInv, OrdersSound

LEMMA OrdersInvImplies ==
  ASSUME OrdersInv
  PROVE  OrdersAreAsReviewed
<1>1. /\ OrdersTypes(books, answered, wire, form, reversal, view, reloads, made)
      /\ OrdersAreAnswered(books, answered) /\ OrdersAreApart(books.orders)
      /\ OrdersTakeBack(books.orders) /\ SumsStand(books.orders)
      /\ RefusalsStand(books, answered, BodiesOf(wire, answered), refused)
      /\ FormIsSound(form, books, answered, refused, made.keys)
      /\ ViewIsOld(view, books)
  BY DEF OrdersInv, OrdersSound
<1>2. IssuedAsReviewed
  <2>1. \A i, j \in Originals :
          i # j => /\ books.orders[i].review # books.orders[j].review
                   /\ books.orders[i].price # books.orders[j].price
    BY <1>1 DEF Originals, OrdersAreApart
  <2>2. ASSUME NEW i \in Originals PROVE books.orders[i].review \notin refused
    <3>1. PICK k \in KeysOf(answered) : IssuedFor(books.orders[i], answered[k].body)
      BY <1>1 DEF Originals, OrdersAreAnswered
    <3> QED BY <1>1, <3>1 DEF IssuedFor, RefusalsStand
  <2>3. ASSUME form.tag = "gone"
        PROVE  \E i \in Originals : /\ books.orders[i].review = form.quoteKey
                                    /\ books.orders[i].shares = form.amount
                                    /\ books.orders[i].price = form.quote
    <3> DEFINE e == buildShareOrderExecution(form)
    <3>1. PICK k \in KeysOf(answered) : answered[k].body = e BY <1>1, <2>3 DEF FormIsSound
    <3>2. /\ e.kind = "execute" /\ e.review = form.quoteKey /\ e.amount = form.amount
          /\ e.version = form.quote
      BY <1>1, BodyFields DEF OrdersTypes
    <3> HIDE DEF e
    <3>3. PICK i \in DOMAIN books.orders : IssuedFor(books.orders[i], answered[k].body)
      BY <1>1, <3>1, <3>2 DEF OrdersAreAnswered
    <3> QED BY <3>1, <3>2, <3>3 DEF IssuedFor, Originals
  <2>4. form.tag = "reviewing" => form.quoteKey \notin refused BY <1>1 DEF FormIsSound
  <2> QED BY <2>1, <2>2, <2>3, <2>4 DEF IssuedAsReviewed
<1>3. ReversedOnce
  BY <1>1 DEF ReversedOnce, Originals, OrdersAreApart, OrdersTakeBack, TakesBack, Original
<1>4. OffersWhatStands
  <2>1. view.orders \in Seq(OrderRow) /\ books.orders \in Seq(OrderRow)
    BY <1>1 DEF OrdersTypes, OrderView, OrderBooks
  <2>2. DOMAIN view.orders \subseteq DOMAIN books.orders
    <3>1. /\ DOMAIN view.orders = 1..Len(view.orders) /\ Len(view.orders) \in Nat
          /\ DOMAIN books.orders = 1..Len(books.orders) /\ Len(books.orders) \in Nat
      BY <2>1
    <3> QED BY <1>1, <3>1 DEF ViewIsOld
  <2>3. reversible(view) \subseteq DOMAIN books.orders BY <2>2 DEF reversible
  <2>4. view.orders = books.orders /\ books.active /\ view.active => reversible(view) = Standing
    BY DEF reversible, Standing, Originals
  <2> QED BY <2>3, <2>4 DEF OffersWhatStands
<1>5. TotalsStand
  <2> DEFINE os == books.orders
             n  == Len(books.orders)
             shares == [i \in DOMAIN os |-> os[i].shares]
             values == [i \in DOMAIN os |-> os[i].shares * os[i].price]
  <2>1. DOMAIN os = 1..n BY <1>1 DEF OrdersTypes, OrderBooks
  <2>2. shares = SharesOf(os) /\ values = ValuesOf(os) BY <2>1 DEF SharesOf, ValuesOf
  <2>3. StandingOf(os) = Standing BY <2>1 DEF StandingOf, Standing, Originals
  <2>4. /\ Only(Standing, shares, n) = [i \in DOMAIN os |-> IF i \in Standing THEN shares[i] ELSE 0]
        /\ Only(Standing, values, n) = [i \in DOMAIN os |-> IF i \in Standing THEN values[i] ELSE 0]
    BY <2>1 DEF Only
  <2>5. /\ Total(shares, n) = Total(Only(Standing, shares, n), n)
        /\ Total(values, n) = Total(Only(Standing, values, n), n)
    BY <1>1, <2>2, <2>3 DEF SumsStand, SumStands
  <2> QED BY <2>4, <2>5 DEF TotalsStand, netShares, netValue
<1> QED BY <1>2, <1>3, <1>4, <1>5 DEF OrdersAreAsReviewed

\* The commissioner's orders are issued as they were reviewed, at most once and never after
\* the page was told of a refusal; a reversal takes back an order whole, no order is taken
\* back twice, and the totals shown are those of the orders that stand; and the page offers
\* for reversal what stood when it looked.
THEOREM OrdersAreAlwaysAsReviewed == OrdersSpec => []OrdersAreAsReviewed
<1>1. OrdersInit => OrdersInv BY OrdersInitially
<1>2. OrdersInv /\ [OrdersNext]_ordersVars => OrdersInv' BY OrdersStep
<1>3. OrdersInv => OrdersAreAsReviewed BY OrdersInvImplies
<1> QED BY <1>1, <1>2, <1>3, PTL DEF OrdersSpec

\* Both at once, as the run PoolCommands checks them: whatever the commissioner does on
\* either of the pages, what they send is what was reviewed or typed on them, once.
THEOREM AdminActsAreAlwaysAsReviewed == CommissionerSpec => []AdminActsAreAsReviewed
<1>1. OrdersAreAsReviewed /\ PagesAreTrue => AdminActsAreAsReviewed BY DEF AdminActsAreAsReviewed
<1> QED BY <1>1, OrdersAreAlwaysAsReviewed, PagesAreAlwaysTrue, PTL DEF CommissionerSpec
=============================================================================
