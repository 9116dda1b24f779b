# Verification of the football pool

TLA+ specifications of the pool service in `src/` (a Cloudflare Worker, one SQLite Durable
Object per pool, a D1 directory, a queue, cron jobs and the browser pages that drive them), the
TLC runs that check them, and proofs, checked by TLAPS, about accounting and settlement, the
pool's commands, placement, the alarm, the directory, ingestion and the reminder.

Run a check with `tlc -workers 2 -config SeasonOrders.cfg MCSeasonLedger.tla` and the proofs
with `tlapm SeasonLedgerProofs.tla`. `PROJECT.json` lists every run with the properties it
checks, the hazards behind the properties, the source lines each definition stands for, and
the disagreements found between code and documentation.

## 1. The system and its parts

| Part | State | Operations | Talks to |
| --- | --- | --- | --- |
| Season accounting and settlement (`settlement.ts`, `accounting-repository.ts`, `wager-commands.ts`) | share accounts, season totals, orders, wagers, legs, settlements, ledger entries | ExecuteShareOrder, ReverseShareOrder, PlaceWager, VoidWager, RegradeWager, ConfirmSuperBowl, CloseSeason, settlement run | results in D1, outbox |
| Alarm, reconciliation, Super Bowl discovery (`alarm.ts`, `outbox.ts`, `pool-do.ts`) | the object's one alarm, a lifecycle per accepted event, the discovery row, pending outbox rows | `alarm()`, `POST /internal/settle`, every command's `setAlarm` | D1 results, queue |
| Outbox and directory projection (`outbox.ts`, `projections.ts`, `queue.ts`) | outbox rows; in D1 `projection_state`, membership and season rows, delivery rows | drain, send, mark; consume, snapshot, guarded batch | queue, D1, Durable Object |
| Pool creation saga (`pool-registry.ts`, `pool-command-client.ts`) | `pool_registry` and `pool_registry_command_response` rows in D1, the initialized object | create: reserve, initialize, finish, replay | D1, Durable Object |
| Command execution and replay (`pool-do.ts`, `contracts/commands.ts`) | `processed_command`, `command_version` | execute, replay, refuse, expire after 30 days | everything in the object |
| Wager quotes and placement (`offer-quotes.ts`, `wager-commands.ts`, `web/api.ts`, `ParlayPage.tsx`) | stored quotes and exact terms; in the browser the slip and the reviewed quote | quote, requote, refresh odds, probe, place, recover | D1 offers, season accounts |
| Membership, seasons, settings (`pool-do.ts`, `pool-commands.ts`) | members, roles, sessions, seasons | join, suspend, restore, transfer, open and draft seasons | outbox |
| Odds ingestion (`odds/ingestion.ts`, `canonicalize.ts`) | generations, events, offers, results and their correction versions, quota | poll, claim, publish, back off | provider, D1 |
| Season-closure reminder (`season-closure-reminder.ts`, its cron) | reminder row with a lease and a frozen mail | prepare, claim, complete, fail | cron, D1 accounts, mail |
| Message board (`pool-do.ts`) | messages, announcements, read watermarks | post, reply, announce, mark read | - |
| Grading and pricing algorithms (`domain/*.ts`) | none | pure functions | settlement, quotes |
| Operational jobs (`job-status.ts`, `settlement-alert-cron.ts`, `overdue-settlements.ts`, `operational-alerts.ts`, `backup-cron.ts`) | job rows, cursors, alert throttle | scheduled passes, health probes | D1, R2, mail |
| Read models (`pool-do.ts`, `views.ts`, `web/*-presentation.ts`, `correction-results.ts`, `audit-export.ts`) | none: rebuilt from the rows at each read | standings by week, wager views, activity and profile | object's rows |
| Matchup lookup (`espn-matchup.ts`) | a shared cache of box scores and details | lookup | ESPN, cache |
| Browser pages (`OddsPage.tsx`, `MessageBoardPage.tsx`, `Admin*.tsx`, `admin-command.ts`) | tray, batch, drafts, reviews, one retained command per page | review, send, retry, reload | Worker |
| HTTP, authentication, rate limits | counters per isolate | routing | Better Auth |
| Build scripts | outside the protocols | - | - |

How they interact. A request reaches the Worker, which resolves the pool in D1 and forwards a
command to the pool's Durable Object. The object runs a command as one storage transaction that
changes its rows, raises the command version and inserts outbox rows; after the commit it sets
its alarm. The alarm asks D1 for terminal results of the events that were wagered on, settles in
one transaction, and drains the outbox to the queue. A queue consumer takes a snapshot from the
object and replaces the pool's rows in the D1 directory. Odds ingestion, run by cron and by
placements, is the only writer of offers and results.

### What is hard

- *Interleaving at awaits.* A Durable Object is single-threaded, but its input gate opens at every
  await on D1, the queue or `fetch`: a run of `alarm()` can hold a deadline, an answer or a row's
  attempts that a command or a second run has changed since. A settlement transaction awaits
  nothing and is atomic.
- *Failure in the middle.* The object or the Worker can stop at any await; D1 statements can fail
  with or without effect; the answer of a call can be lost.
- *At-least-once, unordered delivery* of queue messages, with several consumers.
- *Corrections.* Results change after settlement, legs of a multi-leg ticket are graded in any order
  and an early loss can be reopened; balances that a correction takes back may have been spent.
- *Incremental totals.* Float, notional value and balances are caches that every command changes by
  a delta; nothing recomputes them.
- *One alarm slot* shared by result polling, discovery and queue retries.
- *Timeouts and bounded retries* that must not abandon an accepted event.
- *Lost answers.* A page gives up on a call that the Worker goes on to execute; the retry arrives
  beside it, after it, or after the form was edited. Idempotency keys, retained command bodies and
  stored quotes are what keeps the retry the same command.
- *Reads that recompute.* Standings by week, reveals and activity are rebuilt from rows that later
  commands reverse and correct, over weeks whose length changes with the clock.

### What makes each part correct

- Accounting: float = holdings; locked = open risk; notional = value of standing orders; an outcome
  is that of the newest evidence; a commissioner's decision stands; a closed season is frozen; a season
  that closed by itself owes nothing; a purchase does not move the price.
- Alarm: at rest the alarm covers all pending work; an accepted event is watched to its final look;
  results settle and corrections inside the watch land, through errors and restarts.
- Projection: the directory shows one moment of the pool and never goes back; a command is shown, or
  its row or message is given up explicitly.
- Creation: one pool per key and slug; "ready" means initialized; a final answer is final; no other
  request learns it.
- Commands: a repeat returns the stored answer, changes nothing and is not announced again; what the
  directory shows is told to it.
- Quotes: a placement is accepted on exactly the terms that were quoted and are still offered, once per
  ticket, and what the page says of it is true.
- Membership: exactly one commissioner, at most one open season, an account for every member; archives stand.
- Board: unread means news, threads sort by their last entry, one text is posted once.
- Pages: what is sent is what was reviewed or typed, once; a draft survives the saving of another.
- Rules: whatever the builder accepts the server accepts, every accepted ticket can be settled, prices
  are rounded tight.
- Reads: nothing of an unstarted game of another member shows; the weeks add up to the season; past
  weeks stand.
- Operators: an alert is about a wager that is late, every late wager is reported, health is earned by
  the latest attempt.
- Ingestion: an older generation never overwrites a newer one; every change of a terminal result has a
  new correction version.
- Reminder: one attempt at a time may send; retries ask for the same mail while the provider remembers its
  key, so one copy goes out per season; a reminder that was begun resolves.

## 2. Modules

| Module | What it is |
| --- | --- |
| `FixedPoint` | half-even division and the share price, shares and value formulas |
| `Totals` | sums over numbered rows, as a recursive function |
| `SeasonLedger` | the accounting of one season: `fixed-point.ts`, `accounting-repository.ts`, `settlement.ts`, placement in `wager-commands.ts` |
| `Standings` | the betting calendar and the standings by week, rebuilt from ledger and order history |
| `WagerViews` | wager views with reveals and settlements, and the activity, profile and correction pages made of them |
| `SettlementAlarm` | the alarm slot: `alarm.ts`, the scheduling half of `outbox.ts`, `alarm()` and the `setAlarm` calls of `pool-do.ts` |
| `Directory` | abstract: what the D1 directory promises about one pool |
| `DirectoryProjection` | `drainOutbox`, the queue, `ProjectionConsumer` and its guarded batch; implements `Directory` |
| `PoolRegistry` | `PoolRegistry.create` and `finish` over D1 and the Durable Object |
| `PoolCommands` | `execute()` of the pool's object: commands, replay, membership, seasons, settings, reads, and the notices of the routes |
| `MessageBoard` | the board's rows and one member's board page |
| `OddsBoard` | the tray, the batch of straight wagers and the transfers of the odds board |
| `ShareOrders` | the commissioner's order page against the season's orders |
| `AdminPages` | settings, members and history pages with their retained command |
| `CommissionerPages` | the two pages of the commissioner together, and what they promise |
| `WagerPlacement` | quote, review, refresh and placement of a ticket by page, Worker and object |
| `WagerRules` | what may share a ticket, its price and its grade |
| `ResultRegister` | abstract: what ingestion promises settlement about each event's result |
| `OddsIngestion` | `OddsIngestion.poll` by cron and by placements; implements `ResultRegister` |
| `CanonicalFeed` | how a game of the feed becomes a row and an offer: sides, aliases, scores, books, fair strikes |
| `MatchupLookup` | the lookup of a game's details through a shared cache |
| `JobStatus` | job rows and the health probes that read them |
| `SettlementMonitor` | the overdue check, the sweep over all pools and its alert |
| `SeasonClosureReminder` | the reminder row in the pool's object and the cron's visit to it |
| `MCStandings`, `MCSeasonLedger`, `MCSettlementAlarm`, `MCDirectoryProjection`, `MCDeliveries`, `MCPoolCommands`, `MCWagerPlacement`, `MCOddsIngestion`, `MCSeasonClosureReminder` | model values, tickets, answers, symmetry and compositions for TLC |
| `SeasonLedgerProofs`, `PoolCommandsProofs`, `WagerPlacementProofs`, `SettlementAlarmProofs`, `DirectoryProjectionProofs`, `OddsIngestionProofs`, `SeasonClosureReminderProofs` | the theorems of section 5, each about the module of its name; `SeasonLedgerProofs` also about `Standings` and `WagerViews`, `WagerPlacementProofs` about `WagerRules`, `DirectoryProjectionProofs` about `PoolRegistry` and `SettlementMonitor`, `OddsIngestionProofs` about `MatchupLookup` and `CanonicalFeed` |
| `PagesProofs` | the theorems about `JobStatus`, `MessageBoard`, `OddsBoard`, `ShareOrders` and `AdminPages` |

Definitions whose comment starts with "Fault:" are not part of any specification. Each is a
plausible slip in the code it sits beside, and serves to confirm that the property meant to catch
it does (`mutants` in `PROJECT.json`).

What composes with what. Modules that act on the same rows are one state machine: board page and board
rows, order page and orders, browser, Workers and object in `WagerPlacement`, Worker, D1 and object
in `PoolRegistry`, queue, consumers and D1 in `DirectoryProjection`. Modules that share no row and meet only in a
promise (a version, a row of known form) are checked in one TLC run without their product: an MC module lets
each move while the others rest in their initial states, which reaches every state of each. `WagerViews`
extends `Standings`, whose calendar it uses, and both write rows as `SeasonLedger` does.

### SeasonLedger

The season's rows are one record, a book. `committed` is what every command and query reads;
`working` and `todo` exist while a settlement transaction is open.

| Model | Code |
| --- | --- |
| `ExecuteShareOrder`, `ReverseShareOrder` | `applyOrder`, `reverseOrder` |
| `PlaceWager` with `Exposure` | `placeWager` and its exposure query |
| `VoidWager`, `RegradeWager` | `voidWager`, `correctWager`, each followed by `closeEligibleSeasons` as in the code |
| `BeginSettlement` ... `CommitSettlement` | `settleWagers` inside the alarm's `transactionSync` |
| `SettlementThrows`, `Evicted` | a throw of `applyLedger` in the loop; the object going down: all writes of the run are rolled back |
| `ReversePrior`, `ApplySettlement`, `Reopen`, `CloseEligible` | `reversePrior`, `applySettlement`, the `automaticPartialLoss` branch, `closeEligibleSeasons` |

The run is one transaction in the code. It is modelled wager by wager because each wager can throw
and because the SELECT has no order: the order is a free choice, and nothing of `working` is seen
before `CommitSettlement`. A quoted order must match the current price and command version in the
code, so an accepted order is priced at the current price.

Facts of the code the model keeps: reversing a reversal is accepted; an empty float with a leftover
notional value is priced at one unit again; a void or regrade keeps the provider version of the legs,
so a later correction reaches the ticket; only complete terminal results are ever snapshotted.
Left out: ledger entries and superseded settlements as history (only the current settlement is
read), lines and odds (data behind `Profit` and `Result`), rescheduled and un-cancelled events.

### SettlementAlarm

`db` holds the rows the alarm reads, `run` what each run in progress holds between its awaits. A command
is its commit and then `Arm`, because the object can go down in between. `AlarmFires` is the platform
(one `alarm()` at a time, the slot is empty while it runs, delivered again after a failure);
`ServiceSettles` is `POST /internal/settle`, which runs `alarm()` regardless of one in progress (the constant
`Overlap` allows this). `interrupted` is a ghost: it says whether the object went down between a commit and its
`setAlarm` ("crash") or runs have overlapped ("overlap"), for the properties that hold only without. `stale` is
another: the events whose next look a failed run set although the other run had already moved them on, which is
the one way in which an event's last look can come early. Timers
are remaining durations and `Tick` does not pass while a run is in progress: runs take seconds, timers
minutes to hours. Alarms may nevertheless be late, as nothing forces `AlarmFires` before the next `Tick`.
Poll delays are constants instead of the schedule by proximity to kickoff. One wager per event and one
confirmation; at most 25 rows per drain is not modelled, nor OpenSeason's own outbox row (it can only make
an alarm sooner).

### DirectoryProjection and Directory

Every change of a pool's name, members or seasons raises its command version, so a snapshot is a version.
`RecordQueued`, `Send`, `MarkSent`, `FailSend` are `drainOutbox` between its awaits; the row's attempts are those the
run read at its start; `FailSend` is a send that throws and a mark that throws after it. `Receive` to `Ack` are
`ProjectionConsumer.consume` between its awaits; `Persist` is the one D1 batch whose later statements test the state
row. Copies of a message are one element of `queue.held`, which an acknowledgement may leave behind (at-least-once).
Backoff is `SettlementAlarm`'s: a drain finds any subset of the undelivered rows due. Left out: rows that do not
parse, the limit of 25, timestamps and counters that are only reported.

`Directory` promises a lagging directory that shows one moment of the pool and never goes back;
`DirectoryProjection` implements it with `shown <- d1.rows` (property `Abstract`).

### PoolRegistry

One request is one call of `create`; a request id stands for the UUID of the pool it would make. Each
await is a step. The reservation is a batch over two tables with unique slug and key, and any error of
it, a constraint's or D1's, leads to the conflict branch, as in the code. `InitializePool` may take
effect and lose its answer. `Stop` is a Worker that ends, or a read that throws. A failing second
`finish` can overwrite the registry's `ready` by `failed` while the stored answer keeps `ready`; the
model allows it and no property denies it.

### OddsIngestion and ResultRegister

| Model | Code |
| --- | --- |
| `Start`, `Preflight` | the time, the quota and the leagues due before the claim |
| `Claim`, `DecideDue` | `claimGeneration` and the floor of all times written; what is due after the claim |
| `FetchLeague`, `ReadRows` | the provider's answer per league; the rows of all events |
| `Publish`, `Batch` | the D1 batch, each statement of which tests the generation |
| `PollFails`, `RecordFailure`, `Stop` | the catch block of a cron or placement poll, `recordFailure`, a Worker that ends |

Two polls meet between any two awaits. The provider's answer for an event is its status, score and
markets; a listing with other teams or in another league is `Absent`, as the code drops it. The moment at
which the provider began to say so is a ghost that rides along to the row. The clock may be set back.
Kick-off times are left out: an event that has not ended is polled at one interval (the code's three,
by proximity to kick-off, decide only how soon). The quota of the answers is free at publication, the only
place it is read. Left out: canonical book selection and prices (data behind `markets`; `CanonicalFeed` has
them), the schedule and team columns, the response to a placement (`WagerPlacement` checks a call against it).

`ResultRegister` promises that an event's record follows the provider forwards and that its version rises
exactly when the result it names changes. `SeasonLedger` and `SettlementAlarm` rest on this: their
evidence is "version v of event e", and a higher version is newer.

### SeasonClosureReminder

| Model | Code |
| --- | --- |
| `Prepare` with `Prepared` | `prepareSeasonClosureReminder`, called by the cron |
| `Lookup` | the address of the commissioner, read in D1 |
| `Claim` with `Claimed` | `claimSeasonClosureReminder` |
| `Send`, `Provider` | the last look at the clock, the mail; Resend under the season's idempotency key |
| `Complete`, `Fail` with `Finished` | `finishSeasonClosureReminder`; a failed completion is followed by a failure |
| `PoolChanges`, `EmailChanges` | what else moves between two calls: discovery, acknowledgement, closure, transfer, name, account address |

Each call is one transaction of the object; a visit can lose any answer or end between two. A token is the
visit that holds it. `Tick` does not pass the end of a lease while its visit sends, because the calls are cut off
after 10 and 15 seconds and a lease lasts 10 minutes. The provider is external: it takes or refuses a mail, tells
or does not tell, and remembers the key for `DedupWindow`; the assumption
`RetryWindow + Lease <= DedupWindow` is the design's 23 hours against 24. One season: a candidate is
never replaced, so the code's `candidate_changed` cannot occur. Of the payload the address and the pool's name
are kept, which stand for what can change.

### Standings and WagerViews

`Standings` has the betting calendar of `betting-week.ts` (hours, a Pacific offset that changes twice, the
arithmetic of midnights as the code does it) and the posting of orders, locks, settlements and their undoing.
`WeekOf`, `gainAt`, `Excluded` are `standingWeeklyChanges`, recomputed in every state and compared with the
holdings that really were. Amounts are those of `FixedPoint`. `CalendarAssumption` says of the clocks what the calendar's
arithmetic needs: that they change on Sundays, and that hour 0 is in summer.

`WagerViews` keeps each ticket's legs, grades and settlement rows. `ResultsArrive`, `VoidTicket`, `RegradeTicket`
write them as the settlement code does, early losses and their reopening included. The other definitions are
pure: `shapeWagersWithPolicy` of `views.ts` under its three policies, the grouping into days, members and weeks of
the activity page, the weeks and the record of a profile, the exposure of a game, and the form that offers a
correction. Assumed: every observation of results is of games that have started, because their
reconciliation rows fall due at kickoff (`wager-commands.ts:94`); tickets are settled as parlays are. The browser's
clock lags behind UTC by a constant number of hours. `Corrects` is what the server asks of a correction's evidence
(`settlement.ts:193`): one whose reversal the account cannot carry is refused all the same (`settlement.ts:166`,
`SeasonLedger`), and so is one that comes after the season was closed.

### PoolCommands

| Model | Code |
| --- | --- |
| `IsNew`, `Replay`, `Commit`, `Unexpired` | `execute()`: the lookup of `processed_command`, fingerprints, the stored answer, expiry |
| `JoinPool`, `UpdateMemberNickname`, `SuspendMember`, `RestoreMember`, `TransferCommissioner` | the cases of `authorized()` |
| `CreateSeason`, `OpenSeason`, `CloseSeason`, `CreateSeasonAnnotation`, `UpdatePoolSettings` | likewise |
| `QuoteShareOrder`, `ExecuteShareOrder`, `ReverseShareOrder`, `PlaceWager`, `RegradeWager`, `Settle` | what moves the books and the versions |
| `ReadPoolGate`, `readPool`, `read`, `history` | the reads, and the routes that refuse or redirect by them |
| `TellsOfJoin` and its fellows | the conditions under which a route mails |

A command is one transaction; a refused one leaves nothing and is no step. Books are a toggle: that they moved.
A client may repeat one id (`Id`), before and after its record expires; commands sent once share the id `Once`.
`Past` is a season closed before the run starts, so that a second closure comes within the bound on versions. Outbox
rows are the version they tell. A stale quote cannot be executed, for `QuoteHolds` is `applyOrder`'s test.
The pool shows the season closed last (`LatestClosed`): the code orders by `closed_at`, the model by the version of
the closure, which is the same order while the clock moves on between two closures and is not set back.

### MessageBoard, OddsBoard, ShareOrders, AdminPages

Each is a page against the rows it works on; requests and answers are lost, slow or handled after the page
gave up on them. `MessageBoard`: `Submit`, `Arrive`, `Answered`, `Load`, `ReadBoard`, `Show` are the awaits of
`submitPost` and `load`; the object's clock stands still or steps back and activity times do not.
`OddsBoard`: `quoteAll`, `placeAll` and `addToParlay` are jobs that keep what their closure captured while the member
toggles, filters, leaves, and comes back; the Worker's answer to a placement is any outcome.
`ShareOrders`: quote, review and execution under keys of their own, a reversal under a key its retries keep;
the price is the version it was quoted at. `AdminPages`: one `FrozenAdminCommand` per page, the reviews of
suspensions and transfers, drafts and their rehydration. `notice` stands for notice, rules and side-bet limit,
`note` for the annotation of a closed season; there is no password draft, which any save clears
(`AdminSettingsPage.tsx:31`), so `DraftsSurvive` does not speak of it. `IDEMPOTENCY_CONFLICT` cannot arise
there, since a key keeps the body it was made with. `CommissionerPages` states what both pages promise;
`MCPoolCommands` runs them beside the rest.

### WagerPlacement and WagerRules

| Model | Code |
| --- | --- |
| `BuildSlip`, `Review`, `Place`, `Heard`, `Recover`, `LeavePage`, `ReplayUnheard` | the builder pages and `retryWagerPlacement` of `web/api.ts` |
| `ReplayWagerQuote`, `RefreshForQuote`, `ReadPoolView`, `canonicalizeWagerQuote`, `QuoteWager` | the quote route's awaits |
| `ProbePlacementReplay`, `RefreshPlacementOdds`, `revalidateLiveWagerOffers`, `RevalidateWagerOffers`, `PlaceWager` | the placement route's awaits |
| `Published`, `PollFails`, `OfferAges`, `WindowTurns`, `PoolMoves` | what moves in between |

The page waits five seconds and goes on; the Worker's work goes on without it. A page that is reloaded is gone with
its replays; when it is left for another page of the application they go on unheard (`ReplayUnheard`), each call
carrying how many are `left`, until one is answered. A ticket's legs move together: a
leg is its line and the offer version it was read at. `WagerRules` builds every slip, prices it and grades it in every
order of results; lines and totals are doubled so that a half point is a number.

### CanonicalFeed, MatchupLookup, JobStatus, SettlementMonitor

`CanonicalFeed`: a poll merges the odds and the score containers, turns the game to its stored sides, binds an
alias once and chooses the first configured book that quotes the whole market. `MatchupLookup`: `ReadBoard`,
`ReadExtra`, `WriteCache` are the awaits of a lookup; ages are counted, so that "recent" is a number.
`JobStatus`: attempts start, end and record in any order; a probe reads the clock, then the rows.
`SettlementMonitor`: sweeps overlap, any call fails, the Worker stops between any two steps; the alert is
reserved before it is mailed, so a lost mail waits for the next cooldown. The sweeps of the backup and reminder crons
move their cursors the same way.

## 3. Runs

All bounds are constants in the configurations or guards named in the modules.

| Run | Instance | What it shows |
| --- | --- | --- |
| `SeasonOrders` | 2 members, 2 wagers, 2 orders of 3 shares at 2 micros, 1 event | types, books balance (float, locked risk, notional value, totals), price kept up to rounding, frozen closed seasons |
| `SeasonCorrections` | 1 member, 1 parlay over 2 events, 2 correction versions; beside it 2 holders, 2 bets, 5 ledger rows at 4 instants around both clock changes; 6 slips of up to 3 legs on 4 games with 3 settlement rows | the inductive invariant, the newest evidence decides, commissioner decisions stand, automatic closure is final and waits for pending legs, sound reads |
| `AlarmSlot` | 1 event, the last look 3 units after the first, alarm and service runs that overlap, crashes, errors, failed sends | the alarm covers all pending work; the object never rests with work and no alarm; events are watched to the end |
| `AlarmProgress` | 1 event, 2 versions, fair | results settle, corrections land, rows resolve, discovery ends, a confirmation inside the watch closes the season |
| `DirectoryRows` | 1 drain, 2 consumers, 2 versions, 2 rows, 1 redelivery; 3 creations, 2 keys, slugs and materials, every fault | one snapshot at a time, delivered is shown, no message vanishes, refinement of `Directory`; reservations, objects and answers agree, answers are final |
| `Deliveries` | 1 row, 3 attempts, 2 redeliveries, 2 consumers; 2 pools of which one has a wager on 2 games, 2 sweeps; fair | every command is shown or given up; operators hear of late wagers and of no others |
| `OddsPublication` | a cron poll and a placement's poll, 2 leagues with an event each, 2 changes of the provider, a clock of 2 instants; 2 books and every listing of 2 teams and a stranger; 2 overlapping attempts and a backup; 2 readers | refinement of `ResultRegister`, availability and health agree with the latest poll, times advance, numbers keep to their team, health is earned, what is shown is recent |
| `ClosureReminder` | 2 visits, 2 commissioners, 2 addresses, 1 change, 8 instants of about 5 minutes, fair | one sender at a time, one mail and one copy of it under every failure and overlap; a reminder that was begun resolves |
| `PoolCommands` | 2 users, 3 seasons of which one is past, one repeated id, 5 versions, 2 instants; a page of 2 drafts and 2 loads; 2 pools of which one is opened first, 3 picks, 2 jobs; 4 orders; 3 administrator's commands | coherent membership and seasons, commands that take effect once, a true board, true odds page, administrators' acts as they were reviewed |
| `WagerPlacement` | 2 lines, 2 offers, 2 tickets, 4 keys, 4 calls of which 2 at once and one is a replay, 2 turns of the world; slips of up to 3 legs over 3 games with 4 finals | one wager per ticket, true answers, placement as offered, rules that agree |
| `NeutralCorrection`, `LateConfirmation` | smallest that show it | section 4 |

What the merged properties say, part by part:

- `ReadsAreSound`: weeks partition the season across both clock changes and betting opens at ten; what the weeks say
  adds up to the standings; a past week stands but for refunds; nothing tells the unstarted legs of another
  member; a ticket's shown result is what its settlements moved; everybody sees the same days; sums agree; a
  correction is offered exactly when the server would take its evidence; a profile offers each week once.
- `PoolIsCoherent`: one commissioner, who is active; at most one open season; every member has an account in it;
  the gate and the view are honest; a quote of the present version was taken from the present books.
- `CommandEffects`: an id is executed once while its record is kept; the directory is told of what it shows;
  notices follow executions, not replays; archives of closed seasons stand.
- `AdminActsAreAsReviewed`: an order is issued once and as reviewed, reversed once, and offered for reversal while it
  stands; a pressed button is executed once, what was shown as done was done, drafts survive.
- `BoardIsTrue`, `BoardPageIsTrue`: unread is news, threads by recency, one post per text, own posts shown; the tray
  on the screen is the stored one of that pool, results of a batch are true, what was placed has left the tray.
- `TicketIsOne`, `AnswersAreTrue`, `PlacedAsOffered`: one wager per ticket through lost answers and recovery; a replay
  of a placement is not refused and a refused call placed nothing; accepted before kickoff, in the window, at
  a line that was offered since the call began and that no live line refuted.
- `TicketRulesHold`: builder and server agree; what is accepted can be priced and settled after any refunds;
  a decision stands; opposite sides are opposite; teasing helps; prices are rounded down and no further.
- `RowsAreTrue`, `CreationIsSafe`, `PublicationAgrees`, `StatusIsEarned`, `OverdueIsHandled`, `WorkIsDone`,
  `SeasonReachesItsEnd`, `AlarmIsKept`, `BooksBalance`: conjunctions whose parts are stated beside them in the modules.

Why the bounds are enough. The ledger's hazards need a wager that is settled, reversed and settled again, with a
second account or order to spend the balance meanwhile: two members, two wagers, two orders and two versions give all
of these. A multi-leg ticket needs two events for a partial loss and its correction; one wager suffices since wagers
of different members meet only in the float, which `SeasonOrders` and the proofs cover. Prices that do not divide
evenly need more than one micro per share and an odd quotient: `Unit = 2` with orders of 3 gives exact halves. The
instants of `Standings` are a kickoff weekend before, at and after the clock falls back and the weeks beside it; the
calendar itself is checked at every hour of twenty-one weeks. In the alarm, one event's reconciliation, the discovery
and its three outbox rows already compete for the one slot; counters have limit 2, so both sides of the limit are
reached. In the directory two versions suffice for an older snapshot to meet a newer one, and two rows for their
messages to be reordered; progress concerns one row at a time. Three creations give an owner, a concurrent retry and a
rival. In ingestion a poll can only be harmed by one that claims after it, so two polls give every order of claim,
fetch and write; two leagues make one poll write the availability of a league it did not fetch; two changes give a
result and its correction. For the reminder the windows of hours and days are shortened to a few units in their order:
an attempt can be retried, lapse, reach its deadline, and a mail sent at the first instant would be forgotten by the
provider before kickoff. One change is enough to fall between any two steps of a visit. A command id is harmed by its
own repetition alone: one repeated id, with every other command sent once, between and after expiry. Two tickets are a
first one and its successor; four calls are a quote, a placement, its replay, heard or not, and either a recovery or
the next quote. A page's race is between one request and its successor: two drafts, two loads and two jobs; three keys
let a retained command be replaced while the first is still on its way.

Deadlock is checked in `SeasonOrders`, `NeutralCorrection`, the alarm runs and `OddsPublication`, where a clock, a
poll or an eviction is always possible. The others say `CHECK_DEADLOCK FALSE`: with a bounded number of
commands, requests, rows or tickets everything is delivered or answered in the end and nothing is left to do.

### Fairness

- `SettlementAlarm`: the platform delivers due alarms, time passes and a committed command goes on to
  its `setAlarm` (weak). D1 answers, results apply, sends end and runs finish (strong: a run may be cut
  off and started again, but not at the same point forever). No command, publication, announcement or
  success of a send is fair; crashes between a commit and `setAlarm` are left out of this run, because the
  code has no recovery from them.
- `DirectoryProjection`: a pending row is drained again (what `NeverForgotten` of the alarm shows) and each
  of its steps is taken eventually; the queue delivers what it holds (strong, per row). Consumers go on
  (weak). Failures and restarts are never fair and never excluded.
- `SettlementMonitor`: the cron keeps starting, its runs go on and time passes (weak); what is tried again and again
  for one pool is counted, claimed and mailed in the end (strong). Failures, stops and lost mails are not excluded.
- `SeasonClosureReminder`: time passes and a visit goes on or ends (weak); the cron, which pages through all ready
  pools and wraps, reaches this pool's object again and again (strong). No answer of the object, the accounts or the provider is fair.
- The other modules have none: nothing bounds how often placements supersede a scheduled poll, and a person need not
  press a button again.

## 4. Where code and documentation disagree

Each is a run in which TLC finds the documented statement violated.

- `NeutralCorrection`: a correction whose net effect the account can carry is refused, because the
  reversal is posted and tested before the replacement (`settlement.ts:125`); the run of every other
  wager is rolled back with it, now and at every later poll.
- `LateConfirmation`: a Super Bowl whose reconciliation a wager had already brought to its end is not
  looked at again when it is confirmed, and the season stays open (`pool-do.ts:388`).

Seen while modelling, without a run.

Accounting and settlement: a loss that was reversed since still counts when an order reversal makes
the float zero, so a season can close as `float_exhausted` with no wager lost (`settlement.ts:212`, against
`PRODUCT.md:40`); the exposure limit is a placement-time test, which a reopened parlay
can exceed; the void of an open wager yields to the first complete provider result; a push or void of a heavy
favourite can raise the payout of a correlated parlay; a postponed game without a result grades void; rounding at a
half may leave one side of a fair moneyline on offer and the other one past the limit (-980 against +1223).

Alarm, queue and registry: the design plans the
first confirming look 5 minutes after a result where the code waits 15; the object going down between a
commit and `setAlarm` (`pool-do.ts:146-148`) leaves the work waiting for the next command; of two overlapping
runs of `alarm()` the one holding the older answer may write last (`alarm.ts:53`), and when it fails it brings the
last look forward, so that a correction in the rest of the 24 hours is missed (`alarm.ts:79`); a slow drain writes
attempts computed from the row it read, giving an exhausted row its attempts back (`outbox.ts:37`, against the
comment at `outbox.ts:14`); a concurrent retry of a creation is answered with version "0" where the stored
answer says "1" (`pool-registry.ts:74`); a creation whose Worker stopped stays `initializing`, because a retry replays
the stored answer (`pool-registry.ts:59`, against
`docs/superpowers/plans/2026-08-22-share-value-football-pool.md:27`); offer versions are made of the event, the market
and the time, so two publications under a clock that stands still or was set back give different offers one version
(`canonicalize.ts:45`, `ingestion.ts:72`); a health probe reads its clock before the rows and may call a newer
observation unknown.

Commands and routes: only posts, replies, joins and orders mark an answer as replayed (`pool-do.ts:170`), so a
repeated transfer is mailed again (`routes.ts:482`; stated as `NoticeOnce`); a transfer whose following view fails is
answered with an error although it was done (`routes.ts:483`); `audit-export.ts:10` says no requester receives future event
identity, but the settlement of a Super Bowl cancelled before kickoff names its result row (`pool-do.ts:388`); the
exposure comment in `routes.ts` that every leg is revealed by now is not ensured for games of the
current week that have not started.

Browser: a slow first placement can land after its replay was refused, so a ticket reported as refused may be in the
pool (`web/api.ts:270`; stated as `FailedIsNotPlaced`); `quoteAll` drops tray selections of the leagues that are filtered
out (`OddsPage.tsx:345`, against the comment at `:397`; stated as `TraySpansLeagues`); the reason of a reversal can be
edited under its key after a lost answer, which is then refused as a conflict though the reversal was done; "Edit order"
after a lost answer does not tell whether the first order was issued, and a view that fails to load after a
reversal brings its form back (`AdminOrdersPage.tsx:72`); a draft typed between a save's answer and its reload is
overwritten; another section's save drops a section's retained command, any save clears a typed password; after
the lost answer of a second rename and a late reload "Rename pool" sends the retained name while another is shown
(`AdminSettingsPage.tsx:22-31`); two reloads of the members page are not ordered; a repeated Restore replays its stored
answer though the member was suspended again meanwhile; the activity page's load and the live box of a matchup page
do not ask whether the page is still there.

## 5. Proofs

`SeasonLedgerProofs` proves, for any number of members, wagers, orders and events, any tickets, risks,
amounts and profits that meet the named assumptions of `SeasonLedger` and `FixedPoint`:

| Theorem | Statement |
| --- | --- |
| `LedgerIsSound` | `Spec => []LedgerInvariant` |
| `TypeCorrect` | `Spec => []TypeOK`, with balances in `Nat` |
| `BooksAlwaysBalance` | `Spec => []BooksBalance`, the conjunction of the next three and `TotalsFollowAccounts` |
| `FloatIsAlwaysHoldings` | `Spec => []FloatIsHoldings` |
| `LockedIsAlwaysOpenRisk` | `Spec => []LockedIsOpenRisk` |
| `NotionalIsAlwaysOrders` | `Spec => []NotionalIsOrders` |
| `StatusAlwaysMatches` | `Spec => []StatusMatchesSettlement` |
| `TotalsAlwaysFollow` | `Spec => []TotalsFollowAccounts` |
| `ClosedStaysFrozen` | `Spec => ClosedIsFrozen` |

The argument. None of the invariants is inductive: conservation needs types, the amount a reversal takes
back must be what the settlement paid (`OutcomesPaid`), and the locked balance follows the open wagers only
if each posting releases exactly one risk. `Sound` collects these for one book. It is preserved by each
helper of the settlement code, so it counts the risk of wagers *without a settlement*
(`LockedIsUnsettled`): between a reversal and its replacement the status still says how the last settlement
ended. `StatusExplained` is added for whole steps, and together they give `LockedIsOpenRisk`.
`LedgerInvariant` says both of the committed and the working book, and that a run visits placed wagers.
`ReversePriorSound` and `ApplySettlementSound` carry the arithmetic; `ReplaceSound`, `SettleWagerKept` and
`CloseEligibleKept` compose them; `InvariantStep` has one case per action. The module's first part proves that a sum
is additive, monotone and moves by the difference of an updated row; its induction is over sets, since the
library's induction theorems take operators as parameters.

`TotalsAlwaysFollow` shows that the tests of the season's totals in `applyLedger` and
`reverseOrder` can never be the reason for a refusal: what an account can carry, the totals can.

`OddsIngestionProofs` proves, for any leagues, events, answers, intervals and any number of cron and placement
polls, any books, prices and readers, everything `OddsPublication` checks but what `JobStatus` says:

| Theorem | Statement |
| --- | --- |
| `GenerationFences` | `Spec => []Fenced` |
| `PublicationAlwaysAgrees` | `Spec => []PublicationAgrees`, the conjunction of the next two |
| `AvailabilityAlwaysAgrees` | `Spec => []AvailabilityIsOffers` |
| `HealthIsAlwaysLatest` | `Spec => []HealthIsLatest` |
| `TimesAlwaysAdvance` | `Spec => TimesAdvance` |
| `IngestionIsARegister` | `Spec => ResultsAreARegister` |
| `FeedTypeCorrect` | `Spec => []TypeOK` |
| `ShownIsAlwaysRecent` | `LookupSpec => []ShownIsRecent` |
| `TeamsAlwaysKeepTheirSides` | `FeedSpec => TeamsKeepTheirSides` |

The argument. Generations are unique among claimed polls and none exceeds the feed's (`Fence`), so at most one poll
is current and a claim makes every other one harmless. What the current poll holds is what the rows still are, because
only it could have changed them (`Holds`): its copy of the rows and of the availability, a time no earlier than
the feed's, and answers fetched after its claim, hence no older than the rows. `BatchStep` shows that its batch keeps
all this; `RowsChangeByBatch` that nothing else writes rows; `ListedIsLearned` that a version rises exactly when the
result it names changes. The bounds in `TypeOK` need one thing more (`FeedInv`): of one moment of the provider every
poll is told the same, so a version counts no more corrections than the provider has made. `LookupInv` bounds a cached
entry's age and the time it has left together. For the feed, a row carries each team's own quotes, scores and sides
however the listing was turned (`SidesInv`), the first book that is present and contradicts nothing is the first whole one,
and strikes are the same arithmetic seen from both sides (`RoundMirrors`, `PricesMirror`, `FairIsNoWorse`). That proof
failed until the property left out quotes of 1 to 99, of which there are none in American odds and for which a favourite
passes for an outsider.

`SeasonLedgerProofs` also proves, from the same assumptions, the other properties of `SeasonLedger` that the runs check:

| Theorem | Statement |
| --- | --- |
| `EvidenceAlwaysDecides` | `Spec => []EvidenceDecides` |
| `ClosureIsAlwaysFinal` | `Spec => []AutoClosureIsFinal` |
| `ManualAlwaysStands` | `Spec => ManualStands` |
| `PriceNeverDiluted` | `Spec => PriceUndiluted` |

The argument. Between transactions a wager may lag behind the results; what it lags by shows in its legs' versions.
`RowGraded` says of one wager's rows that no leg was graded on a version the season has not seen and that the
system's settlement rests on observed results, on all of them unless it is a loss; `Decided` is the property itself,
for one wager. Both depend on the wager's rows and the results alone (`RowIsLocal`), so a step is a change of one row.
A run works on a book whose rows are decided one after the other, hence `RunIsNeeded`: every wager still to do needs
settling, and no commissioner's settlement was written. `Final` carries closure. `EvidenceInvariant` joins them and is
inductive together with `LedgerInvariant`. `PriceUndiluted` is arithmetic: an order's amount is a half-even quotient, so
are both prices, and each is off by half at most.

And it proves of `WagerViews`, for any tickets, members, games, kickoffs and any sequence of results, voids and regradings:

| Theorem | Statement |
| --- | --- |
| `ViewsAreAlwaysTrue` | `ViewsSpec => []`(`NothingUnstartedShows`, `PerformanceIsTheLedgers`, `EveryoneSeesTheSameBook`, `SumsAgree`, `OfferedIsAccepted`) |

The argument. `ViewsInv` says that every reversal names an earlier row, that only the last row of a ticket can stand, and that
what all rows moved together is what the last one moves if it stands and nothing otherwise (`Undoing`, `Applying`,
`ResettleKeeps`); and that a grade is of a game that has started. So what is shown of a ticket is a function of its legs of
started games (`ActivityShows`), the same for everybody and for any ticket that has started alike (`ShownAlike`). Sums over
tickets are folds over a finite set in an order nobody knows: `SumsAreTabulated` shows that the order is free,
`SumByKeys` that a sum can be taken by parts, and the pages take theirs by day and then by week.

The same module proves of `Standings`, for any members, wagers, stakes, orders and hours of posting:

| Theorem | Statement |
| --- | --- |
| `SeasonHistoryIsSound` | `StandingsSpec => []StandingsInv` |
| `StandingsAlwaysHold` | `StandingsSpec => WeeklyStandingsHold` |
| `ReadsAreAlwaysSound` | `StandingsSpec /\ ViewsSpec => ReadsAreSound` |

In the run, whose `SystemSpec` lets a step move one of its three parts at a time, a behaviour is one of `StandingsSpec` and of
`ViewsSpec`, as the last theorem has it.

The argument. `StandingsInv` says that every balance is the sum of its column over the rows posted; that the rows of each
wager come to what its status says, so a refunded one's come to nothing and leaving them out changes no total
(`RefundedIsNothing`); and that no row is of a later hour. A gain before the season is nothing and a gain before the next
instant is the standing (`GainBeforeTheSeason`, `GainByNow`). The weeks in between are a walk whose ends are these, and its
differences telescope in whatever order they are added (`WalkAddsUp`). A step adds rows of its own hour and no others
(`Continues`), so what was before a cutoff that has passed stays, unless a refund comes or goes. The calendar is arithmetic:
the start of week `q` is the hour `168 q` of the wall clock less the offset there, and since the clocks change on Sundays,
away from every midnight of a Tuesday, `WeekIs` shows that those weeks partition time. The weeks of a profile are
then counted (`SeasonsAre`, `OfferedAre`): the season's are `StartOf(a)` to `StartOf(z)`, and the offered the last `WeekCap` of them.
The proof corrected `WeeksShown`, which left out a week that began before hour 0; the sums before a cutoff (`SumBefore`)
were restated for it, to the same value.

`SettlementAlarmProofs` proves everything `AlarmSlot` checks, for any events, delays and limits with
`Final15 <= Final24`, with and without runs that overlap and crashes before `setAlarm`:

| Theorem | Statement |
| --- | --- |
| `TypeCorrect` | `Spec => []TypeOK` |
| `AlarmKept` | `Spec => []AlarmIsKept` |

The argument. What is promised holds at rest, and what carries it there is somebody's intention to set the alarm:
`Attended` names who (a command that has committed, a run that has not read its deadline, the slot itself), and
`Covered` says that the deadline a lone run read is early, or a command has committed since whose pending row the run
will find. That needs that no run is about to mark the row of a command still to come (`Unwritten`) and that runs
exclude each other as long as they do not overlap (`Lone`). For the watch, `Kept` relates a lifecycle's next look to
its last; `Taken` relates what a run holds to what the lifecycle has become: behind by looks that another run took,
with the time of the last look unchanged, and answered if the event was ever seen to end.

`DirectoryProjectionProofs` proves everything `DirectoryRows` checks, for any number of drains, consumers and
creations and any limits, and the safety half of `OverdueIsHandled`, for any pools, wagers, games and sweeps:

| Theorem | Statement |
| --- | --- |
| `TypeCorrect` | `Spec => []TypeOK` |
| `RowsAlwaysTrue` | `Spec => []RowsAreTrue` |
| `DirectoryKeepsItsPromise` | `Spec => Abstract`, that is `DirectoryProjection` implements `Directory` |
| `CreationOfPoolsIsSafe` | `RegistrySpec => CreationIsSafe` |
| `AlertsAreAlwaysTrue` | `MonitorSpec => OverdueIsTrue` |

The argument. Whatever a consumer has found out about its event stays true (`JobIsSound`), because the state row only
grows and a snapshot was read after the commit that enqueued the event; a drain marks only a row whose message the queue
has, or is done with (`RunIsSound`). Neither can be disturbed by another actor, since versions stay, the state
grows and what is handled stays handled (`Grows`). Under that invariant `ShownStep` maps every step to a step of
`Directory` or to none. Creation is of the same kind (`CreationInv`): reservations, answers and objects only grow, so what
a call has learned of them at one await is still so at the next. For the monitor, a result that has stood for the
grace period does not become younger: what was late at the look is late at the count if it is still open (`MonitorInv`).

`SeasonClosureReminderProofs` proves, for any visits, people and addresses and any windows with
`RetryWindow + Lease <= DedupWindow`:

| Theorem | Statement |
| --- | --- |
| `TypeCorrect` | `Spec => []TypeOK` |
| `AlwaysMailedOnce` | `Spec => []MailedOnce` |

The argument. A visit that may be sending holds the row until its lease ends, unless the row is over, and sends
what the row says (`SendsRow`); the first attempt fixes address, name and deadline (`RowIsFixed`), so all requests ask
for one mail (`MailIsRows`) and the last falls within the time the provider remembers its key.

`PoolCommandsProofs` proves everything the run `PoolCommands` checks of `PoolCommands`, for any users, seasons, ids,
retention and limits:

| Theorem | Statement |
| --- | --- |
| `TypeCorrect` | `Spec => []TypeOK` |
| `PoolAlwaysCoherent` | `Spec => []PoolIsCoherent` |
| `EffectsHold` | `Spec => CommandEffects` |

The argument. Nothing here is inductive alone: one commissioner needs that roles and statuses are absent together,
complete accounts need that nobody but members has one, a quote needs that versions only grow and that the active season's
is never above the pool's. `Good` says this of one set of rows and `Follows` of two: members stay, a closed season
keeps its archive, and an active season's version moves with whatever a share order depends on. `BumpFollows`,
`CreateFollows`, `OpenFollows` and `CloseFollows` show that each kind of command writes rows that are `Good` and follow
those before; `CommitStep` shows, once for all commands, that committing such rows keeps the invariant and has the
promised effects. `Recorded` ties a processed command to the last execution of its id: while the row is due it is
there, so a second execution comes after the retention has passed. `NextIsSound` has one case per command.

`WagerPlacementProofs` proves everything the run `WagerPlacement` checks of `WagerPlacement`, for any lines, polls,
tickets, keys, calls and replays:

| Theorem | Statement |
| --- | --- |
| `TypeCorrect` | `Spec => []TypeOK` |
| `TicketStaysOne` | `Spec => []TicketIsOne` |
| `AnswersStayTrue` | `Spec => []AnswersAreTrue` |
| `PlacementsAreOffered` | `Spec => PlacedAsOffered` |
| `TicketRulesAlwaysHold` | `RulesSpec => []TicketRulesHold` |

The argument. Page, calls and the quote table hold the same identities: two holders of one quote key ask for one wager
and one leg (`Same`), and what is stored under a holder's key is what it asks for (`Asked`). A mutation key exists
only once the quote was heard, so its holder's quote is stored as seen (`IsQuoted`). What a call has found out stage
by stage (`CallIsSound`) stays true while the offer and the tables only grow (`CallStays`); this is where the line D1
carried during the call (`Carried`) comes from. A call sent for a wager that is placed is still at its probe or has
found it (`ReplaysFind`), and a call that placed a wager never answers with a refusal (`PlacerAdmits`). `WorkerKeeps`
shows once for all awaits that a step by which one call moves on or ends keeps the invariant; `PageMoves` and
`SendKeeps` do the same for the page, and `RenewedCalls` for the replays of a page that was left, where a call's
repetition takes its place. `RulesInv` says what a slip is while it is built, and that an accepted one can be priced
after any refunds. Its arithmetic is about recursive functions, the greatest common divisor and the product of the
legs' odds, so the module first shows, by least counterexamples, that each satisfies its equation for every argument.

`PagesProofs` proves everything the runs check of `JobStatus`, `MessageBoard`, `OddsBoard`, `ShareOrders` and `AdminPages`,
for any number of attempts, posts, entries, keys and orders:

| Theorem | Statement |
| --- | --- |
| `StatusIsAlwaysEarned` | `JobSpec => StatusIsEarned` |
| `BoardIsAlwaysTrue` | `BoardSpec => []BoardIsTrue` |
| `BoardPageIsAlwaysTrue` | `BoardPageSpec => BoardPageIsTrue` |
| `OrdersAreAlwaysAsReviewed` | `OrdersSpec => []OrdersAreAsReviewed` |
| `PagesAreAlwaysTrue` | `AdminSpec => []PagesAreTrue` |
| `AdminActsAreAlwaysAsReviewed` | `CommissionerSpec => []AdminActsAreAsReviewed` |

The argument, page by page. Jobs (`JobsInv`): the keys of attempts are totally ordered and a row moves only up, so the row
is the latest attempt that was recorded. Board (`BoardInv`): what a page holds is an earlier board, of which the present one
is a continuation. Odds board (`TrayInv`): the entries of a batch are to do, placed, refused or unresolved, each under a
key of its own; jobs share no entry, and at most one of them works on the page that is shown. Orders (`OrdersInv`):
a key stands for one quote, one execution or the reversals of one order, and a review has one body to execute;
versions only grow and are the prices, so an execution that is dead stays dead and an answered one is an order on the
books; the shown sums extend by one row at a time, to which an order adds its amount and a reversal takes exactly that
away. Other pages (`AdminInv`): the frozen command is the button that was pressed. That proof found the history variable of a
turn imprecise (two reviews of one member, the first cancelled, shared a turn), and the model was corrected.

Each inductive invariant of these modules was checked by TLC on the instances of section 3 before it was proved.

The proofs assume what the modules name: sizes and bounds (`SizesAssumption`, `BoundsAssumption`, `PoolAssumption`,
`TrayAssumption`, `BoardAssumption`, `OrdersAssumption`, `PagesAssumption`), what providers may answer (`AnswerAssumption`,
`FeedAssumption`), which attempts a job has (`AttemptAssumption`), how long a cached answer is fresh (`FreshAssumption`), that
a ticket has legs on known games (`ViewsAssumption`, `MonitorAssumption`), that the hours on which the calendar is checked
are all those from the first and that the clocks change on Sundays (`StandingsAssumption`, `CalendarAssumption`), and a limit of two to six legs
(`RulesAssumption`: the teaser card ends at six).

Left to TLC: liveness, which needs fairness and ENABLED (`WorkIsDone`, `SeasonReachesItsEnd`, `ShownOrLost`,
`OverdueIsReported`, `ReminderResolves`).

## 6. Plan

Every module of the plan is written: accounting and its reads, alarm, directory, registry, commands, pages, placement and
rules, ingestion and feed, operators' jobs, reminder. Every safety property the passing runs check has its theorem.

Not modelled, and not planned:

- HTTP parsing, authentication (Better Auth) and rate limits, which have no protocol of their own. The order of calls
  a route makes is modelled where it matters (placement, transfer, board, reads).
- Parsing and schema validation of provider answers, mail delivery: I/O against external services.
- Integer text, names and formatting: data that no property tells apart.
- Pages that only show, layout and navigation; the audit export, which lists rows.
- The append-only provider evidence and superseded settlements of a season as history beyond what `WagerViews` reads.
- Build, deployment and local tooling; the test controls, which only non-production builds have.
