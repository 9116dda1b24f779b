---------------------------- MODULE OddsIngestion ----------------------------
(***************************************************************************)
(* odds/ingestion.ts: polls of the provider that overlap.                  *)
(*                                                                         *)
(* A poll is started by cron, or by a placement that wants fresh offers.   *)
(* It looks whether anything is due, claims a generation, fetches each due *)
(* league, reads the rows of all events and replaces them, their offers    *)
(* and the state of the feed in one D1 batch.  Each statement of the batch *)
(* tests that the generation is still the newest.  Every await is a step;  *)
(* any other poll can move in between.                                     *)
(*                                                                         *)
(* The provider, the clock and the failures of D1 are the environment.     *)
(* The clock may be set back.  Time 0 stands for a null timestamp.         *)
(***************************************************************************)
EXTENDS Naturals, FiniteSets, FiniteSetsExt

CONSTANTS
  League, Event, LeagueOf,  \* LeagueOf[e]: the league of event e
  Cron, Placement,          \* polls by who starts them
  Answer,                   \* what the provider may say of an event
  Market,
  Absent,                   \* the provider does not list the event, or lists
                            \* it with other teams or in another league
  NoResult,                 \* no terminal result
  Unlisted,                 \* no entry in the availability of markets
  DiscoveryInterval, LiveInterval, BackoffInterval, FinalDelay,
  MaxTime, MaxChanges, MaxGeneration    \* bounds of the model

Poll == Cron \cup Placement
Terminal == {"final", "cancelled", "no_contest"}

ASSUME AnswerAssumption ==
  /\ Answer # {} /\ Absent \notin Answer
  /\ \A a \in Answer : DOMAIN a = {"status", "score", "markets"} /\ a.markets \subseteq Market
ASSUME LeagueAssumption == LeagueOf \in [Event -> League]
ASSUME NullAssumption == \A m \in SUBSET Market : m # Unlisted
ASSUME BoundAssumption ==
  {MaxTime, MaxChanges, MaxGeneration, BackoffInterval} \subseteq Nat /\ MaxTime > 0

VARIABLES
  clock,      \* what clock.now() says
  provider,   \* per event: what the provider says now, and since which change
  row,        \* sports_event
  offers,     \* market_offer: the markets of each event
  discovery,  \* odds_league_poll.last_discovery_at
  feed,       \* the odds_ingestion row
  run         \* the polls in progress

vars == <<clock, provider, row, offers, discovery, feed, run>>

Status == {a.status : a \in Answer} \cup {"scheduled"}
Score  == {a.score : a \in Answer}
ASSUME ResultAssumption ==
  \A t \in Terminal, s \in Score : NoResult # [status |-> t, score |-> s]
Time   == 0..MaxTime

\* No row for the event yet.
NoRow == [known |-> FALSE, status |-> "scheduled", score |-> CHOOSE s \in Score : TRUE,
          version |-> 0, finalized |-> 0, polled |-> 0, omitted |-> FALSE, moment |-> 0]

Idle == [pc |-> "idle", now |-> 0, gen |-> 0, at |-> 0, backoff |-> 0, due |-> {},
         todo |-> {}, answer |-> [e \in Event |-> [says |-> Absent, moment |-> 0]],
         old |-> [e \in Event |-> NoRow], available |-> [e \in Event |-> Unlisted]]

TypeOK ==
  /\ clock \in 1..MaxTime
  /\ provider \in [Event -> [says: Answer \cup {Absent}, moment: 0..MaxChanges]]
  /\ row \in [Event -> [known: BOOLEAN, status: Status, score: Score,
                        version: 0..MaxChanges, finalized: Time, polled: Time,
                        omitted: BOOLEAN, moment: 0..MaxChanges]]
  /\ \A e \in Event : row[e].version <= row[e].moment \* no version without a change
  /\ offers \in [Event -> SUBSET Market]
  /\ discovery \in [League -> Time]
  /\ feed \in [gen: 0..MaxGeneration, polled: Time, success: Time,
               backoff: {0, BackoffInterval}, failed: 0..MaxGeneration,
               published: 0..MaxGeneration,
               available: [Event -> (SUBSET Market) \cup {Unlisted}]]
  /\ \A r \in Poll :
       /\ run[r].pc \in {"idle", "preflight", "claim", "due", "fetch", "read",
                         "publish", "fail"}
       /\ run[r].todo \subseteq run[r].due /\ run[r].due \subseteq League
       /\ run[r].gen <= feed.gen /\ run[r].at \in Time

Init ==
  /\ clock = 1
  /\ provider = [e \in Event |-> [says |-> Absent, moment |-> 0]]
  /\ row = [e \in Event |-> NoRow]
  /\ offers = [e \in Event |-> {}]
  /\ discovery = [l \in League |-> 0]
  /\ feed = [gen |-> 0, polled |-> 0, success |-> 0, backoff |-> 0, failed |-> 0,
             published |-> 0, available |-> [e \in Event |-> Unlisted]]
  /\ run = [r \in Poll |-> Idle]

-----------------------------------------------------------------------------
(* The environment *)

ClockMoves ==
  /\ clock' \in 1..MaxTime \ {clock}
  /\ UNCHANGED <<provider, row, offers, discovery, feed, run>>

ProviderChanges(e) ==
  /\ MapThenSumSet(LAMBDA x : provider[x].moment, Event) < MaxChanges
  /\ provider[e].moment < MaxChanges    \* follows from the sum; stated for the proofs
  /\ \E a \in (Answer \cup {Absent}) \ {provider[e].says} :
       provider' = [provider EXCEPT ![e] = [says |-> a, moment |-> @.moment + 1]]
  /\ UNCHANGED <<clock, row, offers, discovery, feed, run>>

-----------------------------------------------------------------------------
(* Which leagues are due *)

\* Whether `interval` has passed between a timestamp and now; a null one is long ago.
Elapsed(since, interval, now) == since = 0 \/ now >= since + interval

\* A look is due at each delay after the end that no poll has reached yet.
FinalReconciliationDue(x, now) ==
  \E d \in FinalDelay : /\ now >= x.finalized + d
                        /\ x.polled = 0 \/ x.polled < x.finalized + d

ShouldPoll(x, now, backoff) ==
  IF x.status \in Terminal /\ x.finalized # 0
  THEN FinalReconciliationDue(x, now) /\ Elapsed(x.polled, backoff, now)
  ELSE Elapsed(x.polled, Max({LiveInterval, backoff}), now)

DueLeagues(now, backoff) ==
  {l \in League :
     \/ Elapsed(discovery[l], Max({DiscoveryInterval, backoff}), now)
     \/ \E e \in Event : /\ LeagueOf[e] = l /\ row[e].known /\ ~row[e].omitted
                         /\ ShouldPoll(row[e], now, backoff)}

-----------------------------------------------------------------------------
(* A poll *)

At(r, pc) == run[r].pc = pc
End(r)    == run' = [run EXCEPT ![r] = Idle]

\* The time is taken and the quota read; a placement names its leagues and is
\* refused while the quota is backing off.
Start(r) ==
  /\ At(r, "idle") /\ feed.gen < MaxGeneration
  /\ r \in Placement => feed.backoff = 0
  /\ \E due \in (SUBSET League) \ {{}} :
       run' = [run EXCEPT ![r] =
                 [Idle EXCEPT !.now = clock, !.backoff = feed.backoff,
                              !.pc  = IF r \in Cron THEN "preflight" ELSE "claim",
                              !.due = IF r \in Cron THEN {} ELSE due]]
  /\ UNCHANGED <<clock, provider, row, offers, discovery, feed>>

Preflight(r) ==
  /\ At(r, "preflight")
  /\ IF DueLeagues(run[r].now, run[r].backoff) = {} THEN End(r)
     ELSE run' = [run EXCEPT ![r].pc = "claim", ![r].backoff = 0]
  /\ UNCHANGED <<clock, provider, row, offers, discovery, feed>>

\* Fault: the time is taken from the clock alone.
ClaimWithoutFloor(r) ==
  /\ At(r, "claim") /\ feed.gen < MaxGeneration
  /\ feed' = [feed EXCEPT !.gen = @ + 1]
  /\ run' = [run EXCEPT ![r].pc = "due", ![r].gen = feed.gen + 1, ![r].at = run[r].now,
                        ![r].backoff = feed.backoff, ![r].available = feed.available]
  /\ UNCHANGED <<clock, provider, row, offers, discovery>>

\* One statement raises the generation and returns the row.  No time this poll
\* writes is before a time the row already holds.
Claim(r) ==
  /\ At(r, "claim") /\ feed.gen < MaxGeneration
  /\ feed' = [feed EXCEPT !.gen = @ + 1]
  /\ run' = [run EXCEPT ![r].pc = "due", ![r].gen = feed.gen + 1,
                        ![r].at = Max({run[r].now, feed.polled, feed.success}),
                        ![r].backoff = feed.backoff, ![r].available = feed.available]
  /\ UNCHANGED <<clock, provider, row, offers, discovery>>

\* What is due is asked again after the claim; a poll that finds nothing has used
\* up a generation all the same.
DecideDue(r) ==
  /\ At(r, "due")
  /\ LET due == IF r \in Cron THEN DueLeagues(run[r].now, run[r].backoff)
                ELSE IF run[r].backoff > 0 THEN {} ELSE run[r].due
     IN  IF due = {} THEN End(r)
         ELSE run' = [run EXCEPT ![r].pc = "fetch", ![r].due = due, ![r].todo = due,
                                 ![r].now = 0, ![r].backoff = 0]
  /\ UNCHANGED <<clock, provider, row, offers, discovery, feed>>

FetchLeague(r, l) ==
  /\ At(r, "fetch") /\ l \in run[r].todo
  /\ run' = [run EXCEPT ![r].todo = @ \ {l},
                        ![r].pc = IF run[r].todo = {l} THEN "read" ELSE "fetch",
                        ![r].answer = [e \in Event |-> IF LeagueOf[e] = l THEN provider[e]
                                                       ELSE run[r].answer[e]]]
  /\ UNCHANGED <<clock, provider, row, offers, discovery, feed>>

ReadRows(r) ==
  /\ At(r, "read")
  /\ run' = [run EXCEPT ![r].pc = "publish", ![r].old = row]
  /\ UNCHANGED <<clock, provider, row, offers, discovery, feed>>

-----------------------------------------------------------------------------
(* The publication *)

Covers(r, e)  == LeagueOf[e] \in run[r].due
Listed(r, e)  == Covers(r, e) /\ run[r].answer[e].says # Absent
Missing(r, e) == Covers(r, e) /\ ~Listed(r, e) /\ run[r].old[e].known

\* Fault: only the scores tell a correction.
ScoresTellCorrections(old, a) ==
  LET changed == ~old.known \/ old.score # a.score \/ old.version = 0
  IN  IF a.status \in Terminal /\ changed THEN old.version + 1 ELSE old.version

\* Fault: each terminal publication is a correction.
EveryPollCorrects(old, a) ==
  IF a.status \in Terminal THEN old.version + 1 ELSE old.version

\* The version of a row's result once the provider says a: a terminal answer that
\* differs from the row in any way is a correction.
CorrectionVersion(old, a) ==
  LET changed == ~old.known \/ old.status # a.status \/ old.score # a.score
  IN  IF a.status \in Terminal /\ changed THEN old.version + 1 ELSE old.version

PublishedRow(r, e) ==
  LET old == run[r].old[e]
      a   == run[r].answer[e].says
  IN  [known     |-> TRUE,
       status    |-> a.status,
       score     |-> a.score,
       version   |-> CorrectionVersion(old, a),
       finalized |-> IF a.status \notin Terminal THEN 0
                     ELSE IF old.finalized # 0 THEN old.finalized ELSE run[r].at,
       polled    |-> run[r].at,
       omitted   |-> FALSE,
       moment    |-> run[r].answer[e].moment]

\* Fault: an event that is missing keeps its entry.
MissingStaysAvailable(r) ==
  [e \in Event |-> IF Listed(r, e) THEN run[r].answer[e].says.markets
                   ELSE run[r].available[e]]

\* The markets of each event after the publication, with those of other leagues as
\* the claim found them.
Availability(r) ==
  [e \in Event |-> IF Listed(r, e) THEN run[r].answer[e].says.markets
                   ELSE IF Missing(r, e) THEN Unlisted ELSE run[r].available[e]]

\* The answers' quota, which nothing reads before, is free: almost used up, not so, or
\* unknown, which leaves the backoff alone.
BackoffAfter == {BackoffInterval, 0, feed.backoff}

\* Every statement of the batch tests the generation.
Current(r) == run[r].gen = feed.gen

Batch(r) ==
  /\ row' = [e \in Event |->
               IF Listed(r, e) THEN PublishedRow(r, e)
               ELSE IF Missing(r, e)
                    THEN [row[e] EXCEPT !.omitted = TRUE, !.polled = run[r].at]
                    ELSE row[e]]
  /\ offers' = [e \in Event |-> IF Listed(r, e) THEN run[r].answer[e].says.markets
                                ELSE IF Missing(r, e) THEN {} ELSE offers[e]]
  /\ discovery' = [l \in League |-> IF l \in run[r].due THEN run[r].at ELSE discovery[l]]
  /\ \E backoff \in BackoffAfter :
       feed' = [feed EXCEPT !.backoff = backoff, !.polled = run[r].at,
                            !.success = run[r].at, !.failed = 0,
                            !.published = run[r].gen, !.available = Availability(r)]

\* Published, or superseded by a newer claim and without any effect.
Publish(r) ==
  /\ At(r, "publish")
  /\ IF Current(r) THEN Batch(r) ELSE UNCHANGED <<row, offers, discovery, feed>>
  /\ End(r)
  /\ UNCHANGED <<clock, provider>>

-----------------------------------------------------------------------------
(* Failures *)

\* Cron records the failure of its poll; a placement never does.
Caught(r) ==
  IF r \in Cron
  THEN run' = [run EXCEPT ![r] = [Idle EXCEPT !.pc = "fail", !.gen = run[r].gen,
                                              !.at = run[r].at]]
  ELSE End(r)

\* The provider is down or answers with something malformed, or D1 throws; a batch
\* that throws may have been applied.
PollFails(r) ==
  /\ run[r].pc \in {"fetch", "read", "publish"}
  /\ \/ UNCHANGED <<row, offers, discovery, feed>>
     \/ At(r, "publish") /\ Current(r) /\ Batch(r)
  /\ Caught(r)
  /\ UNCHANGED <<clock, provider>>

\* Fault: a failure is recorded whoever has claimed since.
UnguardedFailure(r) ==
  /\ At(r, "fail")
  /\ \/ UNCHANGED feed
     \/ feed' = [feed EXCEPT !.polled = run[r].at, !.failed = run[r].gen]
  /\ End(r)
  /\ UNCHANGED <<clock, provider, row, offers, discovery>>

\* The failure is recorded if no newer poll has claimed; D1 may throw here too.
RecordFailure(r) ==
  /\ At(r, "fail")
  /\ \/ UNCHANGED feed
     \/ Current(r) /\ feed' = [feed EXCEPT !.polled = run[r].at, !.failed = run[r].gen]
  /\ End(r)
  /\ UNCHANGED <<clock, provider, row, offers, discovery>>

\* The Worker ends, or a statement before the fetch throws.
Stop(r) ==
  /\ ~At(r, "idle")
  /\ End(r)
  /\ UNCHANGED <<clock, provider, row, offers, discovery, feed>>

-----------------------------------------------------------------------------
Next ==
  \/ ClockMoves
  \/ \E e \in Event : ProviderChanges(e)
  \/ \E r \in Poll : \/ Start(r) \/ Preflight(r) \/ Claim(r) \/ DecideDue(r)
                     \/ \E l \in League : FetchLeague(r, l)
                     \/ ReadRows(r) \/ Publish(r)
                     \/ PollFails(r) \/ RecordFailure(r) \/ Stop(r)

Spec == Init /\ [][Next]_vars

-----------------------------------------------------------------------------
(* Properties *)

Outcome(e) == IF row[e].status \in Terminal
              THEN [status |-> row[e].status, score |-> row[e].score] ELSE NoResult

\* Whatever order overlapping polls fetch, read and write in, the rows follow the
\* provider forwards and a correction version never names two results: what
\* settlement takes from D1 as evidence.
Register == INSTANCE ResultRegister
  WITH Result <- [status: Terminal, score: Score],
       record <- [e \in Event |-> [moment |-> row[e].moment, result |-> Outcome(e),
                                   version |-> row[e].version]]
ResultsAreARegister == Register!Spec

\* The list of available markets, which each poll copies at its claim and writes
\* back whole, agrees with the offers there are.
AvailabilityIsOffers ==
  \A e \in Event :
    offers[e] = IF feed.available[e] = Unlisted THEN {} ELSE feed.available[e]

\* No clock that is set back and no slow poll makes a recorded time earlier.
TimesAdvance ==
  [][/\ feed'.polled >= feed.polled /\ feed'.success >= feed.success
     /\ \A l \in League : discovery'[l] >= discovery[l]
     /\ \A e \in Event : row'[e].polled >= row[e].polled]_vars

\* An error that makes the feed unusable for placements belongs to an attempt no older
\* than the last publication (its own batch may have been applied and thrown): a poll
\* that was superseded cannot report it.
HealthIsLatest == feed.failed # 0 => feed.failed >= feed.published

\* What ingestion publishes beside the rows is true whatever order overlapping polls
\* claim, fail and publish in: the list of markets is that of the offers, and an
\* error is never older than the publication it hides.
PublicationAgrees == AvailabilityIsOffers /\ HealthIsLatest
=============================================================================
