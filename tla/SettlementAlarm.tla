--------------------------- MODULE SettlementAlarm ---------------------------
(***************************************************************************)
(* How a pool's Durable Object comes to settle at all: the single alarm    *)
(* slot of the object, the reconciliation row of every event that was      *)
(* accepted for a wager or as the Super Bowl, the discovery of the Super   *)
(* Bowl, and the outbox rows that share the alarm with them.               *)
(*                                                                         *)
(* A run of PoolDO.alarm() is started by the platform when the alarm is    *)
(* due, or by the authenticated POST /internal/settle.  It awaits D1 and   *)
(* the queue, and at each await other requests of the object are served:   *)
(* a run is a sequence of steps over the object's rows (db), and what it   *)
(* read before an await it still holds after it.  The accounting behind    *)
(* "settled" is SeasonLedger's; here a wager is open or it is not.         *)
(*                                                                         *)
(* Times are remaining durations.  Tick lets one unit pass and is disabled *)
(* while a run is on its way: runs take seconds, timers minutes to hours.  *)
(***************************************************************************)
EXTENDS Integers, FiniteSets

CONSTANTS
  Event,          \* events that members may wager on
  SuperBowl,      \* the season's Super Bowl
  Run,            \* "alarm", and "settle" when the service may call too
  Confirmation,   \* outbox row of the ConfirmSuperBowl command
  Settlement,     \* outbox rows of the settlement transactions
  PollDelay,      \* normalPollDelay
  RetryDelay,     \* retryDelay
  SendDelay,      \* delay of a failed queue send
  Final15,        \* FINAL_15_MINUTES
  Final24,        \* FINAL_24_HOURS
  DiscoveryDelay, \* six hours between looks for the Super Bowl
  MaxErrors,      \* MAX_PROVIDER_ERROR_ATTEMPTS
  MaxAttempts,    \* MAX_OUTBOX_ATTEMPTS
  MaxVersion,     \* bound on the correction versions of one event
  Interruptible   \* the object may go down between a commit and its setAlarm

ASSUME DelaysAssumption ==
  /\ {PollDelay, RetryDelay, SendDelay, Final15, DiscoveryDelay} \subseteq Nat \ {0}
  /\ Final24 \in Nat /\ Final24 >= Final15
  /\ Interruptible \in BOOLEAN
  /\ MaxErrors \in Nat \ {0} /\ MaxAttempts \in Nat \ {0} /\ MaxVersion \in Nat
ASSUME NamesAssumption ==
  /\ SuperBowl \in Event /\ "alarm" \in Run /\ Run \subseteq {"alarm", "settle"}
  /\ {Confirmation, Settlement} \cap Event = {} /\ Confirmation # Settlement

VARIABLES
  db,           \* the object's rows
  alarm,        \* time until the alarm, or Never
  arming,       \* a command has committed and its setAlarm is still to come
  interrupted,  \* why the alarm may be late: "crash", the object went down before a
                \* setAlarm that nobody repeats, and nothing has set the alarm since;
                \* "overlap", runs overlapped, and none has started alone since
  run,          \* the runs of alarm() in progress
  feed,         \* correction version D1 has published per event, 0 before a result
  announced,    \* the provider lists the Super Bowl as scheduled
  stale         \* events whose next look a failed run set although another run had
                \* moved the event on since the failed one read it (history)

vars == <<db, alarm, arming, interrupted, run, feed, announced, stale>>

-----------------------------------------------------------------------------
(* Rows and times *)

Never == -1     \* a NULL timestamp
Row   == Event \cup {Confirmation, Settlement}  \* Event: the placement's row

Nothing   == <<>>   \* the function with an empty domain
Idle      == [pc |-> "idle", held |-> Nothing, answer |-> Nothing,
              errors |-> 0, deadline |-> Never, rows |-> Nothing]
NoLife    == [phase |-> "none", errors |-> 0, due |-> Never, final |-> Never]
OpenLife  == [phase |-> "open", errors |-> 0, due |-> 0, final |-> Never]
NoRow     == [attempts |-> 0, due |-> Never]
FreshRow  == [attempts |-> 0, due |-> 0]

Soonest(times) ==
  LET set == times \ {Never}
  IN  IF set = {} THEN Never ELSE CHOOSE t \in set : \A u \in set : t <= u

Watched(b) == {e \in Event : b.life[e].phase \notin {"none", "complete"}}
Pending(b) == {r \in Row : b.outbox[r].due # Never}
Seeking(b) == b.season = "active" /\ ~b.canonical /\ b.discovery.due # Never

DueEvents(b) == {e \in Watched(b) : b.life[e].due = 0}
DueRows(b)   == {r \in Pending(b) : b.outbox[r].due = 0}

\* What runSettlementAlarm returns: the soonest reconciliation or discovery.
SettlementDeadline(b) ==
  Soonest({b.life[e].due : e \in Watched(b)}
            \cup (IF Seeking(b) THEN {b.discovery.due} ELSE {}))

NextOutboxAttempt(b) == Soonest({b.outbox[r].due : r \in Pending(b)})

-----------------------------------------------------------------------------
(* Commands.  The transaction and the setAlarm after it are two steps.     *)

Committed(b) ==
  /\ ~arming
  /\ db' = b
  /\ arming' = TRUE
  /\ UNCHANGED <<alarm, interrupted, run, feed, announced, stale>>

\* placeWager accepts an event that has not started, hence has no result, and
\* reconciles it from then on.  Bound: one accepted wager per event.
PlaceWager(e) ==
  /\ db.season = "active"
  /\ feed[e] = 0 /\ e \notin db.open
  /\ Committed([db EXCEPT
       !.open      = @ \cup {e},
       !.life[e]   = IF @.phase = "none" THEN OpenLife ELSE @,
       !.outbox[e] = FreshRow])

\* Bound: the commissioner confirms once (a repeat changes no row but its own).
ConfirmSuperBowl ==
  /\ db.season = "active" /\ db.canonical /\ ~db.confirmed
  /\ Committed([db EXCEPT
       !.confirmed            = TRUE,
       !.life[SuperBowl]      = IF @.phase = "none" THEN OpenLife ELSE @,
       !.outbox[Confirmation] = FreshRow])

\* setAlarm(now + outboxDrainGraceMs) after the commit replaces any alarm.
Arm ==
  /\ arming
  /\ arming' = FALSE /\ interrupted' = interrupted \ {"crash"}
  /\ alarm' = 0
  /\ UNCHANGED <<db, run, feed, announced, stale>>

-----------------------------------------------------------------------------
(* Runs of alarm() *)

\* The run's record as it starts to drain the outbox: the settlement deadline
\* is taken before the first send is awaited.
Draining(b) ==
  [Idle EXCEPT !.pc = "draining", !.deadline = SettlementDeadline(b),
               !.rows = [r \in DueRows(b) |-> b.outbox[r].attempts]]

\* The run's record once discovery is over: it holds the due reconciliations.
Asking(b) ==
  IF DueEvents(b) = {} THEN Draining(b)
  ELSE [Idle EXCEPT !.pc = "asking", !.held = [e \in DueEvents(b) |-> b.life[e]]]

Started(b) ==
  IF Seeking(b) /\ b.discovery.due = 0
  THEN [Idle EXCEPT !.pc = "discovering", !.errors = b.discovery.errors]
  ELSE Asking(b)

Overlaps(r) ==
  interrupted' = IF \A other \in Run \ {r} : run[other] = Idle
                 THEN interrupted \ {"overlap"} ELSE interrupted \cup {"overlap"}

\* The platform runs one alarm() at a time and empties the slot as it does.
AlarmFires ==
  /\ alarm = 0 /\ run["alarm"] = Idle
  /\ alarm' = Never
  /\ run' = [run EXCEPT !["alarm"] = Started(db)]
  /\ Overlaps("alarm")
  /\ UNCHANGED <<db, arming, feed, announced, stale>>

\* POST /internal/settle calls alarm() whether or not a run is in progress.
ServiceSettles ==
  /\ "settle" \in Run /\ run["settle"] = Idle
  /\ run' = [run EXCEPT !["settle"] = Started(db)]
  /\ Overlaps("settle")
  /\ UNCHANGED <<db, alarm, arming, feed, announced, stale>>

Step(r, b) ==
  /\ db' = b
  /\ run' = [run EXCEPT ![r] = Asking(b)]
  /\ UNCHANGED <<alarm, arming, interrupted, feed, announced, stale>>

\* The provider lists the game until it has a result.
DiscoveryAnswers(r) ==
  LET found == announced /\ feed[SuperBowl] = 0
  IN  /\ run[r].pc = "discovering"
      /\ Step(r, [db EXCEPT
           !.canonical = @ \/ found,
           !.discovery = [errors |-> 0, due |-> IF found THEN Never ELSE DiscoveryDelay]])

\* Fault: discovery gives up when its error attempts are exhausted.
DiscoveryGivesUp(r) ==
  LET errors == run[r].errors + 1
  IN  /\ run[r].pc = "discovering"
      /\ Step(r, [db EXCEPT !.discovery =
           IF errors >= MaxErrors THEN [errors |-> errors, due |-> Never]
                                  ELSE [errors |-> errors, due |-> RetryDelay]])

\* The errors are counted from the row as the run read it.
DiscoveryFails(r) ==
  LET errors == run[r].errors + 1
  IN  /\ run[r].pc = "discovering"
      /\ Step(r, [db EXCEPT !.discovery =
           IF errors >= MaxErrors THEN [errors |-> 0, due |-> DiscoveryDelay]
                                  ELSE [errors |-> errors, due |-> RetryDelay]])

\* getFinalResults: the versions D1 has at the moment of the query.
QueryResults(r) ==
  /\ run[r].pc = "asking"
  /\ run' = [run EXCEPT
       ![r].pc     = "answered",
       ![r].answer = [e \in {d \in DOMAIN run[r].held : feed[d] > 0} |-> feed[e]]]
  /\ UNCHANGED <<db, alarm, arming, interrupted, feed, announced, stale>>

\* Fault: an event is taken as complete when its 15-minute look is done.
Skips24Hours(held) ==
  CASE held.phase = "open" -> [phase |-> "final_15", errors |-> 0,
                               due |-> Final15, final |-> Final24]
    [] OTHER               -> [held EXCEPT !.phase = "complete", !.due = Never]

\* A lifecycle whose event has a terminal answer.
Advance(held) ==
  CASE held.phase = "open"     -> [phase |-> "final_15", errors |-> 0,
                                   due |-> Final15, final |-> Final24]
    [] held.phase = "final_15" -> [phase |-> "final_24", errors |-> 0,
                                   due |-> held.final, final |-> held.final]
    [] OTHER                   -> [held EXCEPT !.phase = "complete", !.due = Never]

\* Fault: the first result of an event is kept (INSERT OR IGNORE).
KeepFirst(b, answer) ==
  [b EXCEPT !.snapshot = [e \in Event |->
     IF e \in DOMAIN answer /\ b.snapshot[e] = 0 THEN answer[e] ELSE b.snapshot[e]]]

\* INSERT OR REPLACE INTO event_result_snapshot
Keep(b, answer) ==
  [b EXCEPT !.snapshot = [e \in Event |->
     IF e \in DOMAIN answer THEN answer[e] ELSE b.snapshot[e]]]

\* Fault: closure is considered only when the run has settled a wager.
ClosesWithWagerOnly(b) ==
  LET open   == IF b.season = "active"
                THEN {e \in b.open : b.snapshot[e] = 0} ELSE b.open
      closes == /\ b.season = "active" /\ b.confirmed
                /\ b.snapshot[SuperBowl] > 0 /\ open = {} /\ b.open # {}
  IN  [b EXCEPT !.open   = open,
                !.season = IF closes THEN "closed" ELSE @,
                !.outbox[Settlement] = IF open # b.open THEN FreshRow ELSE @]

\* settleWagers and closeEligibleSeasons over the snapshots.
Settle(b) ==
  LET open   == IF b.season = "active"
                THEN {e \in b.open : b.snapshot[e] = 0} ELSE b.open
      closes == /\ b.season = "active" /\ b.confirmed
                /\ b.snapshot[SuperBowl] > 0 /\ open = {}
      moved  == open # b.open \/ closes
  IN  [b EXCEPT !.open   = open,
                !.season = IF closes THEN "closed" ELSE @,
                !.outbox[Settlement] = IF moved THEN FreshRow ELSE @]

\* The transaction of runSettlementAlarm: snapshots, settlement, lifecycles.
ApplyResults(r) ==
  LET held   == run[r].held
      answer == run[r].answer
      b      == Settle(Keep(db, answer))
      after  == [b EXCEPT !.life = [e \in Event |->
                  CASE e \in DOMAIN answer -> Advance(held[e])
                    [] e \in DOMAIN held \ DOMAIN answer ->
                         [b.life[e] EXCEPT !.errors = 0, !.due = PollDelay]
                    [] OTHER -> b.life[e]]]
  IN  /\ run[r].pc = "answered"
      /\ db' = after
      /\ run' = [run EXCEPT ![r] = Draining(after)]
      /\ UNCHANGED <<alarm, arming, interrupted, feed, announced, stale>>

\* Fault: an event whose error attempts are exhausted is abandoned.
AbandonAfterErrors(b, held) ==
  [b EXCEPT !.life = [e \in Event |->
     IF e \notin DOMAIN held THEN b.life[e]
     ELSE IF held[e].errors + 1 >= MaxErrors
     THEN [b.life[e] EXCEPT !.errors = MaxErrors, !.due = Never]
     ELSE [b.life[e] EXCEPT !.errors = held[e].errors + 1, !.due = RetryDelay]]]

BackOff(b, held) ==
  [b EXCEPT !.life = [e \in Event |->
     IF e \notin DOMAIN held THEN b.life[e]
     ELSE IF held[e].errors + 1 >= MaxErrors
     THEN [b.life[e] EXCEPT !.errors = 0, !.due = PollDelay]
     ELSE [b.life[e] EXCEPT !.errors = held[e].errors + 1, !.due = RetryDelay]]]

\* The query fails, or the transaction throws and is rolled back.
RunFails(r) ==
  LET held  == run[r].held
      after == BackOff(db, held)
  IN  /\ run[r].pc \in {"asking", "answered"}
      /\ db' = after
      /\ run' = [run EXCEPT ![r] = Draining(after)]
      /\ stale' = stale \cup {e \in DOMAIN held : held[e].phase # db.life[e].phase}
      /\ UNCHANGED <<alarm, arming, interrupted, feed, announced>>

Sent(r, row, value) ==
  /\ run[r].pc = "draining" /\ row \in DOMAIN run[r].rows
  /\ db' = IF db.outbox[row].due = Never THEN db ELSE [db EXCEPT !.outbox[row] = value]
  /\ run' = [run EXCEPT ![r].rows = [q \in DOMAIN @ \ {row} |-> @[q]]]
  /\ UNCHANGED <<alarm, arming, interrupted, feed, announced, stale>>

SendSucceeds(r, row) == Sent(r, row, NoRow)

\* An exhausted row is no longer pending.
SendFails(r, row) ==
  LET attempts == run[r].rows[row] + 1
  IN  Sent(r, row, IF attempts >= MaxAttempts THEN NoRow
                   ELSE [attempts |-> attempts, due |-> SendDelay])

\* Fault: the next alarm is the next queue retry whenever there is one.
OutboxFirst(deadline, b) ==
  IF NextOutboxAttempt(b) # Never THEN NextOutboxAttempt(b) ELSE deadline

\* Fault: a queue retry sets no alarm.
NoQueueRetry(deadline, b) == deadline

\* Queue retries and result coverage share the slot: the sooner one is set.
NextAlarm(deadline, b) == Soonest({deadline, NextOutboxAttempt(b)})

Finish(r) ==
  LET next == NextAlarm(run[r].deadline, db)
  IN  /\ run[r].pc = "draining" /\ run[r].rows = Nothing
      /\ alarm' = IF next = Never THEN alarm ELSE next
      /\ run' = [run EXCEPT ![r] = Idle]
      /\ interrupted' = interrupted \ {"crash"}
      /\ UNCHANGED <<db, arming, feed, announced, stale>>

\* The object goes down: runs in memory are gone, and so are the setAlarm calls
\* of commands and of the service's run.  An alarm() of the platform that did
\* not return is delivered again, unless an alarm was set meanwhile.
Crash ==
  /\ arming \/ \E r \in Run : run[r] # Idle
  /\ arming => Interruptible
  /\ run' = [r \in Run |-> Idle]
  /\ arming' = FALSE
  /\ interrupted' = IF arming \/ \E r \in Run \ {"alarm"} : run[r] # Idle
                    THEN interrupted \cup {"crash"} ELSE interrupted
  /\ alarm' = IF run["alarm"] # Idle /\ alarm = Never THEN 0 ELSE alarm
  /\ UNCHANGED <<db, feed, announced, stale>>

-----------------------------------------------------------------------------
(* The provider's data in D1, and time *)

Announce ==
  /\ ~announced /\ announced' = TRUE
  /\ UNCHANGED <<db, alarm, arming, interrupted, run, feed, stale>>

Publish(e) ==
  /\ feed[e] < MaxVersion
  /\ e = SuperBowl => announced
  /\ feed' = [feed EXCEPT ![e] = @ + 1]
  /\ UNCHANGED <<db, alarm, arming, interrupted, run, announced, stale>>

Later(t) == IF t > 0 THEN t - 1 ELSE t

Tick ==
  /\ ~arming /\ \A r \in Run : run[r] = Idle
  /\ alarm' = Later(alarm)
  /\ db' = [db EXCEPT
       !.life          = [e \in Event |->
                            [db.life[e] EXCEPT !.due = Later(@), !.final = Later(@)]],
       !.discovery.due = Later(@),
       !.outbox        = [r \in Row |-> [db.outbox[r] EXCEPT !.due = Later(@)]]]
  /\ UNCHANGED <<arming, interrupted, run, feed, announced, stale>>

-----------------------------------------------------------------------------
(* Specification *)

\* A season has just been opened: OpenSeason has made its discovery due at once
\* and is about to set the alarm.  (Its own outbox row is left out; it could only
\* make an alarm sooner.)
Init ==
  /\ db = [ season    |-> "active", canonical |-> FALSE, confirmed |-> FALSE,
            discovery |-> [errors |-> 0, due |-> 0],
            life      |-> [e \in Event |-> NoLife],
            open      |-> {},
            snapshot  |-> [e \in Event |-> 0],
            outbox    |-> [r \in Row |-> NoRow] ]
  /\ alarm = Never /\ arming = TRUE /\ interrupted = {}
  /\ run = [r \in Run |-> Idle]
  /\ feed = [e \in Event |-> 0] /\ announced = FALSE /\ stale = {}

RunStep(r) ==
  \/ DiscoveryAnswers(r) \/ DiscoveryFails(r)
  \/ QueryResults(r) \/ ApplyResults(r) \/ RunFails(r)
  \/ \E row \in Row : SendSucceeds(r, row) \/ SendFails(r, row)
  \/ Finish(r)

Next ==
  \/ \E e \in Event : PlaceWager(e) \/ Publish(e)
  \/ ConfirmSuperBowl \/ Arm
  \/ AlarmFires \/ ServiceSettles
  \/ \E r \in Run : RunStep(r)
  \/ Crash \/ Announce \/ Tick

Spec == Init /\ [][Next]_vars

\* The platform delivers a due alarm and lets time pass; D1, the queue and the
\* settlement transaction do not fail forever, and a run is not cut off at the
\* same point forever.
SendStep(r) == \E row \in Row : SendSucceeds(r, row) \/ SendFails(r, row)

Fairness ==
  /\ WF_vars(Arm) /\ WF_vars(AlarmFires) /\ WF_vars(Tick)
  /\ \A r \in Run :
       /\ SF_vars(DiscoveryAnswers(r)) /\ SF_vars(QueryResults(r))
       /\ SF_vars(ApplyResults(r)) /\ SF_vars(SendStep(r)) /\ SF_vars(Finish(r))

FairSpec == Spec /\ Fairness
-----------------------------------------------------------------------------
(* Properties *)

Time == Nat \cup {Never}
Life == [phase : {"none", "open", "final_15", "final_24", "complete"},
         errors : Nat, due : Time, final : Time]

\* Types of the rows and of what a run holds between its awaits; no retry
\* counter reaches its limit.
TypeOK ==
  /\ db.season \in {"active", "closed"}
  /\ {db.canonical, db.confirmed, arming, announced} \subseteq BOOLEAN
  /\ interrupted \subseteq {"crash", "overlap"}
  /\ db.discovery \in [errors : 0..MaxErrors-1, due : Time]
  /\ db.life \in [Event -> Life] /\ \A e \in Event : db.life[e].errors < MaxErrors
  /\ db.open \subseteq Event
  /\ db.snapshot \in [Event -> 0..MaxVersion]
  /\ db.outbox \in [Row -> [attempts : 0..MaxAttempts-1, due : Time]]
  /\ alarm \in Time
  /\ feed \in [Event -> 0..MaxVersion]
  /\ stale \subseteq Event
  /\ \A r \in Run :
       /\ run[r].pc \in {"idle", "discovering", "asking", "answered", "draining"}
       /\ DOMAIN run[r].answer \subseteq DOMAIN run[r].held
       /\ run[r].pc = "idle" => run[r] = Idle

Quiet == ~arming /\ \A r \in Run : run[r] = Idle

\* When the object is at rest its one alarm covers everything that waits for it:
\* no reconciliation, discovery or queue retry is due before the alarm is, even
\* when a command committed while a run held a deadline read before it, and as soon
\* as one run has been alone after runs that overlapped.
AlarmCovers ==
  Quiet /\ interrupted = {} =>
    LET due == Soonest({SettlementDeadline(db), NextOutboxAttempt(db)})
    IN  due # Never => alarm # Never /\ alarm <= due

\* Overlapping runs can set a later alarm than they should, but whatever they held
\* the object is never at rest with work to do and no alarm at all.
NeverForgotten ==
  Quiet /\ "crash" \notin interrupted =>
    (alarm = Never => SettlementDeadline(db) = Never /\ NextOutboxAttempt(db) = Never)

\* An accepted event is watched until its final look, and only once its result has
\* been kept; that look is at least 24 hours after the result was first seen, unless
\* of two runs that held the event the later to write had failed: it brings the look
\* forward.
WatchedToTheEnd ==
  \A e \in Event :
    /\ e \in db.open => db.life[e].phase # "none"
    /\ db.life[e].phase \in {"final_15", "final_24", "complete"} => db.snapshot[e] > 0
    /\ db.life[e].phase = "complete" /\ e \notin stale => db.life[e].final = 0

\* The alarm is kept: it is early enough, it is never lost, and what it is there for
\* does not end too soon.
AlarmIsKept == AlarmCovers /\ NeverForgotten /\ WatchedToTheEnd

\* A wager whose event has a result is settled, through provider errors, lost
\* sends and restarts, however often they strike.
ResultsSettle ==
  \A e \in Event :
    (e \in db.open /\ feed[e] > 0) ~> (e \notin db.open)

\* The answer to an event's last look is in hand.
LastLook(e) ==
  \E r \in Run : e \in DOMAIN run[r].answer /\ run[r].held[e].phase = "final_24"

\* A correction published before the event's last look is taken over.
CorrectionsLand ==
  \A e \in Event, v \in 1..MaxVersion :
    (feed[e] = v /\ e \in Watched(db) /\ ~LastLook(e)) ~> (db.snapshot[e] >= v)

\* The search for the Super Bowl does not end, however often the provider fails,
\* before a game that stays listed has been found.
DiscoveryFinds ==
  <>[](announced /\ feed[SuperBowl] = 0) => <>db.canonical

\* Every outbox row is delivered or runs out of attempts.
RowsResolve ==
  \A r \in Row : (r \in Pending(db)) ~> (r \notin Pending(db))

\* A season confirmed while its Super Bowl is still watched closes by itself once
\* every event has its result.
WatchedConfirmationCloses ==
  (/\ db.confirmed /\ SuperBowl \in Watched(db)
   /\ \A e \in Event : feed[e] > 0)
    ~> (db.season = "closed")

\* What waits for the alarm gets done.
WorkIsDone == ResultsSettle /\ CorrectionsLand /\ RowsResolve

\* The game that ends the season is found, and ends it.
SeasonReachesItsEnd == DiscoveryFinds /\ WatchedConfirmationCloses

\* "Confirmation, not a wager leg, arms bounded provider reconciliation for this
\* season-level event" (pool-do.ts:387): a confirmed season closes once every
\* event has its result.
ConfirmationCloses ==
  (/\ db.confirmed
   /\ \A e \in Event : feed[e] > 0)
    ~> (db.season = "closed")

=============================================================================
