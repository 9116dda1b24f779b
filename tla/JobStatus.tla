------------------------------ MODULE JobStatus ------------------------------
(***************************************************************************)
(* What the operators are told of the scheduled jobs: every attempt of the *)
(* odds and of the backup job records how it ended in one row per job      *)
(* (worker/job-status.ts), and the health routes read the rows             *)
(* (worker/health.ts).  Attempts overlap and end in any order, a record    *)
(* gets lost, and a probe of the health reads the clock before the rows.   *)
(***************************************************************************)
EXTENDS Naturals, FiniteSets

CONSTANTS
  JobKind,         \* the configured jobs, "odds" and "backup"
  AttemptOf,       \* the attempts of each job: ids, which decide between equal times
  Missed,          \* expectedBy: an observation older than this is stale
  MaxJobTime

ASSUME AttemptAssumption == AttemptOf \in [JobKind -> SUBSET Nat] /\ Missed \in Nat

VARIABLES
  jobTime,
  attempt,    \* per job and attempt: its progress, trigger time and outcome
  status,     \* ops_job_status
  probe       \* a request to /health/scheduler: the clock it read, and its answer

jobVars == <<jobTime, attempt, status, probe>>

Outcomes == {"success", "not_due", "failed", "superseded"}
Fine     == {"success", "not_due"}

NotStarted == [pc |-> "waiting", started |-> 0, outcome |-> "failed", at |-> 0]
NoStatus   == [key |-> <<0, 0>>, outcome |-> "failed", observed |-> 0, success |-> 0]
NoProbe    == [pc |-> "idle", now |-> 0, answer |-> "none"]

\* attemptKey: the time of the trigger, then a random id.
Key(k, a) == <<attempt[k][a].started, a>>
Before(x, y) == x[1] < y[1] \/ (x[1] = y[1] /\ x[2] < y[2])

JobTimePasses ==
  /\ jobTime < MaxJobTime /\ jobTime' = jobTime + 1
  /\ UNCHANGED <<attempt, status, probe>>

StartAttempt(k, a) ==
  /\ attempt[k][a].pc = "waiting"
  /\ attempt' = [attempt EXCEPT ![k][a].pc = "running", ![k][a].started = jobTime]
  /\ UNCHANGED <<jobTime, status, probe>>

\* The job ends and takes the time; the record is then awaited.  A backup ends as
\* success if it stored every pool of its page, not_due if there was none, and else
\* as failed; the odds as success, not_due, superseded or failed.
EndAttempt(k, a) ==
  /\ attempt[k][a].pc = "running"
  /\ \E o \in Outcomes \ (IF k = "backup" THEN {"superseded"} ELSE {}) :
       attempt' = [attempt EXCEPT ![k][a].pc = "ended", ![k][a].outcome = o,
                                  ![k][a].at = jobTime]
  /\ UNCHANGED <<jobTime, status, probe>>

\* Fault: the last attempt to end has the row.
LastEnded(row, key) == TRUE

\* ... WHERE excluded.attempt_key > ops_job_status.attempt_key
Replaces(row, key) == Before(row.key, key)

\* Fault: a record without a success forgets the last one.
SuccessForgotten(row, x) == IF x.outcome = "success" THEN x.at ELSE 0

SuccessAfter(row, x) ==
  IF x.outcome = "success" /\ x.at > row.success THEN x.at ELSE row.success

RecordJobStatus(k, a) ==
  LET x == attempt[k][a] IN
    /\ x.pc = "ended"
    /\ status' = IF Replaces(status[k], Key(k, a))
                 THEN [status EXCEPT ![k] =
                        [key |-> Key(k, a), outcome |-> x.outcome, observed |-> x.at,
                         success |-> SuccessAfter(status[k], x)]]
                 ELSE status
    /\ attempt' = [attempt EXCEPT ![k][a].pc = "recorded"]
    /\ UNCHANGED <<jobTime, probe>>

\* The write fails, or the Worker stops first: nothing is repeated.
RecordLost(k, a) ==
  /\ attempt[k][a].pc \in {"running", "ended"}
  /\ attempt' = [attempt EXCEPT ![k][a] = [NotStarted EXCEPT !.pc = "lost"]]
  /\ UNCHANGED <<jobTime, status, probe>>

AskHealth ==
  /\ probe.pc = "idle"
  /\ probe' = [pc |-> "asked", now |-> jobTime, answer |-> "none"]
  /\ UNCHANGED <<jobTime, attempt, status>>

\* Fault: the oldest observation is not looked at.
NewestObservation(now) == \A k \in JobKind : now > status[k].observed + Missed

Stale(now) == \E k \in JobKind : now > status[k].observed + Missed

\* A row of the future is unreadable: it was written after the clock was read.
SchedulerHealth(now) ==
  IF \E k \in JobKind : \/ status[k] = NoStatus
                         \/ status[k].observed > now \/ status[k].success > now THEN "unknown"
  ELSE IF Stale(now) THEN "stale"
  ELSE IF \E k \in JobKind : status[k].outcome = "failed" THEN "failed"
  ELSE IF \E k \in JobKind : status[k].outcome = "superseded" THEN "unknown"
  ELSE "ok"

\* Fault: a superseded run is a fine one.
SupersededIsOk(k, now) ==
  IF status[k] = NoStatus \/ status[k].observed > now \/ status[k].success > now THEN "unknown"
  ELSE IF now > status[k].observed + Missed THEN "stale"
  ELSE IF status[k].outcome \in Fine \cup {"superseded"} THEN "ok" ELSE status[k].outcome

\* The probe of one job.
JobHealth(k, now) ==
  IF status[k] = NoStatus \/ status[k].observed > now \/ status[k].success > now THEN "unknown"
  ELSE IF now > status[k].observed + Missed THEN "stale"
  ELSE IF status[k].outcome \in Fine THEN "ok" ELSE status[k].outcome

AnswerHealth ==
  /\ probe.pc = "asked"
  /\ probe' = [probe EXCEPT !.pc = "idle", !.answer = SchedulerHealth(probe.now)]
  /\ UNCHANGED <<jobTime, attempt, status>>

JobInit ==
  /\ jobTime = 1
  /\ attempt = [k \in JobKind |-> [a \in AttemptOf[k] |-> NotStarted]]
  /\ status = [k \in JobKind |-> NoStatus]
  /\ probe = NoProbe

JobNext ==
  \/ JobTimePasses \/ AskHealth \/ AnswerHealth
  \/ \E k \in JobKind : \E a \in AttemptOf[k] :
       StartAttempt(k, a) \/ EndAttempt(k, a) \/ RecordJobStatus(k, a) \/ RecordLost(k, a)

JobSpec == JobInit /\ [][JobNext]_jobVars

-----------------------------------------------------------------------------
(* Properties *)

Recorded(k) == {a \in AttemptOf[k] : attempt[k][a].pc = "recorded"}

\* In whatever order attempts end and record, the row is that of the attempt started
\* last among those that got recorded, and its last success is one of theirs.
RowIsLatestAttempt(k) ==
  /\ \A a \in Recorded(k) : ~Before(status[k].key, Key(k, a))
  /\ status[k] # NoStatus =>
       \E a \in Recorded(k) : /\ status[k].key = Key(k, a)
                              /\ status[k].outcome = attempt[k][a].outcome
  /\ status[k].success # 0 =>
       \E a \in Recorded(k) : /\ attempt[k][a].outcome = "success"
                              /\ attempt[k][a].at = status[k].success

\* The scheduler is called healthy only if every job was seen, within the window before
\* the clock was read, to end well by an attempt no recorded one was started after;
\* and no answer takes the last success back.
HealthIsEarned ==
  [][/\ \A k \in JobKind : status'[k].success >= status[k].success
     /\ probe.pc = "asked" /\ probe'.answer = "ok" =>
          \A k \in JobKind :
            \E a \in Recorded(k) :
              /\ attempt[k][a].outcome \in Fine
              /\ attempt[k][a].at <= probe.now /\ probe.now <= attempt[k][a].at + Missed
              /\ \A b \in Recorded(k) : ~Before(Key(k, a), Key(k, b))]_jobVars

\* Asked at one time, the probe of the scheduler is ok exactly when each job's is.
ProbesAgree ==
  \A now \in 1..jobTime :
    SchedulerHealth(now) = "ok" <=> \A k \in JobKind : JobHealth(k, now) = "ok"

\* The operational status is earned: each job row is that of its latest attempt, "ok" is
\* said only on attempts that ended well within the window, and the probes agree on it.
StatusIsEarned == [](ProbesAgree /\ \A k \in JobKind : RowIsLatestAttempt(k)) /\ HealthIsEarned
=============================================================================
