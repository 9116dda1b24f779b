------------------------------- MODULE WagerViews -------------------------------
(***************************************************************************)
(* What a member is shown of the wagers of a pool.  The pool's object      *)
(* projects each ticket for the one who asks: before kickoff a leg belongs *)
(* to its owner, and after it to everybody.  The browser then groups what  *)
(* it was given into weeks, days and members, adds it up, and offers the   *)
(* commissioner the correction of a wager whose games all have started.    *)
(*                                                                         *)
(* A leg is a game and a side of it.  Tickets are settled as parlays are;  *)
(* every observation of results is of games that have started, for their   *)
(* reconciliation rows fall due at kickoff.  Time is that of Standings.    *)
(***************************************************************************)
EXTENDS Standings

CONSTANTS
  Slip,      \* the sets of legs each ticket may be placed with
  Kickoff,   \* the hour at which each game starts
  Ending,    \* what a game may end as: a side, or "cancelled"
  LocalLag,  \* hours by which the browser's clock is behind UTC
  WeekCap,   \* MAX_PROFILE_WEEKS
  MaxRows    \* bound on settlement rows of all tickets

VARIABLES
  clock,   \* the time of the server, and of the browser
  ticket   \* wager, wager_leg and settlement rows of each ticket

viewVars == <<clock, ticket>>

Game == DOMAIN Kickoff

\* A ticket is placed with a leg at least, each on a side of one of the games.
ASSUME ViewsAssumption ==
  /\ Kickoff \in [Game -> Nat]
  /\ \A x \in Bet : \A legs \in Slip[x] :
       IsFiniteSet(legs) /\ legs # {} /\ \A l \in legs : l.game \in Game
  /\ IsFiniteSet(Bet) /\ Nobody \notin Holder
  /\ WeekCap \in Nat \ {0} /\ LocalLag \in Nat

Blank == [owner |-> Nobody, legs |-> {}, risk |-> 0, status |-> "none",
             grade |-> <<>>, rows |-> <<>>]

ViewsInit == clock = 0 /\ ticket = [x \in Bet |-> Blank]

-----------------------------------------------------------------------------
(* Tickets.                                                                *)
KickoffComes ==
  /\ \E g \in Game : Kickoff[g] > clock
  /\ clock' = Min({Kickoff[g] : g \in Game} \ 0..clock)
  /\ UNCHANGED ticket

PlaceTicket(h, x, legs) ==
  /\ ticket[x].status = "none"
  /\ \A l \in legs : Kickoff[l.game] > clock
  /\ ticket' = [ticket EXCEPT ![x] =
       [owner |-> h, legs |-> legs, risk |-> Stake, status |-> "open",
        grade |-> [l \in legs |-> "none"], rows |-> <<>>]]
  /\ UNCHANGED clock

\* Settlements that nothing undoes: currentSettlement is the one there may be.
Standing(t) ==
  {k \in 1..Len(t.rows) : /\ t.rows[k].outcome # "reversal"
                          /\ \A j \in 1..Len(t.rows) : t.rows[j].of # k}

SettlementRow(outcome, profit, of, by, seen) ==
  [outcome |-> outcome, profit |-> profit, of |-> of, by |-> by, seen |-> seen]

GameSet(legs) == {l.game : l \in legs}

\* Settlement reverses what stands and applies the outcome; "none" only reverses.
\* The replacement names what it replaces, as the reversal does.
Resettle(t, outcome, profit, by, seen) ==
  LET prior    == IF Standing(t) = {} THEN 0 ELSE Max(Standing(t))
      reversal == IF prior = 0 THEN <<>> ELSE <<SettlementRow("reversal", 0, prior, by, seen)>>
      applied  == IF outcome = "none" THEN <<>>
                  ELSE <<SettlementRow(outcome, profit, prior, by, seen)>>
  IN  [t EXCEPT !.rows = @ \o reversal \o applied,
                !.status = IF outcome = "none" THEN "open" ELSE outcome]

GradeOf(l, result) ==
  CASE result = "cancelled" -> "push" [] result = l.pick -> "win" [] OTHER -> "loss"

OutcomeOf(grades) ==
  CASE "loss" \in grades                           -> "lost"
    [] "loss" \notin grades /\ "none" \in grades   -> "none"
    [] "loss" \notin grades /\ "none" \notin grades -> IF "win" \in grades THEN "won" ELSE "refunded"

\* Results of some games reach a ticket: the legs they are of are graded, and its
\* outcome is that of this evidence alone.  Without one, only an automatic loss
\* that never saw every game is reopened.
Observe(t, result) ==
  LET seen    == [l \in t.legs |-> IF l.game \in DOMAIN result THEN GradeOf(l, result[l.game]) ELSE "none"]
      graded  == [t EXCEPT !.grade = [l \in t.legs |-> IF seen[l] = "none" THEN @[l] ELSE seen[l]]]
      outcome == OutcomeOf({seen[l] : l \in t.legs})
      prior   == {t.rows[k] : k \in Standing(t)}
      profit  == Yield * Cardinality({l \in t.legs : seen[l] = "win"})
  IN  IF \E r \in prior : r.by # "system" /\ "none" \in {seen[l] : l \in t.legs} THEN t
      ELSE IF outcome # "none"
      THEN Resettle(graded, outcome, IF outcome = "won" THEN profit ELSE 0, "system", DOMAIN result)
      ELSE IF \E r \in prior : r.outcome = "lost" /\ r.by = "system" /\ r.seen # GameSet(t.legs)
      THEN Resettle(graded, "none", 0, "system", DOMAIN result)
      ELSE graded

Rewrite(x, t) ==
  /\ Len(t.rows) + Added([y \in Bet \ {x} |-> Len(ticket[y].rows)]) <= MaxRows
  /\ ticket' = [ticket EXCEPT ![x] = t]
  /\ UNCHANGED clock

ResultsArrive(x) ==
  \E games \in (SUBSET {g \in GameSet(ticket[x].legs) : Kickoff[g] <= clock}) \ {{}} :
    \E result \in [games -> Ending] : Rewrite(x, Observe(ticket[x], result))

VoidTicket(x) ==
  /\ ticket[x].status # "none"
  /\ Rewrite(x, Resettle(ticket[x], "refunded", 0, "commissioner", {}))

\* What the server asks of the results a correction names, whatever the balances: one of each game of the
\* ticket, and every one of them started.
Corrects(t, given, now) ==
  /\ \A l \in t.legs : Kickoff[l.game] <= now
  /\ GameSet(given) = GameSet(t.legs)
  /\ Cardinality(GameSet(given)) = Cardinality(given)

-----------------------------------------------------------------------------
(* The projection of a ticket t for viewer v at time now.                  *)

\* The reads, by what they tell: unstarted legs to their owner, terms of a ticket
\* that started to everybody, and how many legs are hidden.
Wagers   == [owners |-> TRUE,  terms |-> FALSE, counts |-> FALSE]
Activity == [owners |-> TRUE,  terms |-> TRUE,  counts |-> TRUE]
Export   == [owners |-> FALSE, terms |-> FALSE, counts |-> FALSE]

\* Fault: the latest settlement, although it was undone.
LatestSettlement(t) ==
  LET settled == {k \in 1..Len(t.rows) : t.rows[k].outcome # "reversal"}
  IN  IF settled = {} THEN {} ELSE {t.rows[Max(settled)]}

firstSettlement(t) == IF Standing(t) = {} THEN {} ELSE {t.rows[Max(Standing(t))]}

performanceOf(t) ==
  CASE \E s \in firstSettlement(t) : s.outcome = "won"  -> (CHOOSE s \in firstSettlement(t) : TRUE).profit
    [] \E s \in firstSettlement(t) : s.outcome = "lost" -> -t.risk
    [] OTHER -> 0

\* Fault: one started leg reveals the ticket.
RevealedTogether(policy, v, t, now) ==
  {l \in t.legs : \/ t.owner = v /\ policy.owners
                  \/ \E m \in t.legs : Kickoff[m.game] <= now}

\* Fault: a leg is revealed to others a moment after its kickoff.
RevealedAfter(policy, v, t, now) ==
  {l \in t.legs : (t.owner = v /\ policy.owners) \/ Kickoff[l.game] < now}

revealed(policy, v, t, now) ==
  {l \in t.legs : (t.owner = v /\ policy.owners) \/ Kickoff[l.game] <= now}

\* Fault: terms are everybody's from the start.
TermsOfAll(policy, v, t, now) == t.owner = v \/ policy.terms

termsAreVisible(policy, v, t, now) ==
  \/ t.owner = v
  \/ policy.terms /\ (revealed(policy, v, t, now) # {} \/ firstSettlement(t) # {})

shapeWagersWithPolicy(policy, v, t, now) ==
  LET legs == revealed(policy, v, t, now)
  IN  [owner       |-> t.owner,
       status      |-> t.status,
       week        |-> weekStartOf(Min({Kickoff[g] : g \in GameSet(t.legs)})),
       performance |-> performanceOf(t),
       legs        |-> [l \in legs |-> t.grade[l]],
       hidden      |-> IF policy.counts /\ t.owner # v THEN Cardinality(t.legs \ legs) ELSE 0,
       risk        |-> IF termsAreVisible(policy, v, t, now) THEN {t.risk} ELSE {},
       settlement  |-> IF t.owner = v THEN firstSettlement(t) ELSE {}]

Listed == {x \in Bet : ticket[x].status # "none"}

Shown(policy, v) == [x \in Listed |-> shapeWagersWithPolicy(policy, v, ticket[x], clock)]

-----------------------------------------------------------------------------
(* The pages.  A list is a function from tickets to what was shown of them. *)
Upcoming == -1

dayKey(t) == (t - LocalLag) \div Hours

StartedIn(shown, now) == {l \in DOMAIN shown.legs : Kickoff[l.game] <= now}

\* Fault: the day of the last leg one sees.
DayOfLastSeen(shown, now) ==
  LET lost == {l \in DOMAIN shown.legs : shown.legs[l] = "loss"}
      seen == IF lost # {} THEN {Min({Kickoff[l.game] : l \in lost})}
              ELSE {Kickoff[l.game] : l \in DOMAIN shown.legs}
  IN  IF seen = {} THEN Upcoming ELSE dayKey(Max(seen))

\* The day of the first loss, else of the latest game that started.
activityWagerDay(shown, now) ==
  LET lost    == {Kickoff[l.game] : l \in {k \in DOMAIN shown.legs : shown.legs[k] = "loss"}}
      started == {Kickoff[l.game] : l \in StartedIn(shown, now)}
  IN  IF lost # {} THEN dayKey(Min(lost)) ELSE IF started # {} THEN dayKey(Max(started)) ELSE Upcoming

Performance(list, S) == Added([x \in S |-> list[x].performance])

groupActivityMembers(list, S) ==
  [h \in {list[x].owner : x \in S} |->
    LET own == {x \in S : list[x].owner = h}
    IN  [performance |-> Performance(list, own), wagers |-> own]]

groupActivityDaysForWeek(list, week, now) ==
  LET S      == {x \in DOMAIN list : list[x].week = week}
      day(x) == activityWagerDay(list[x], now)
  IN  [k \in {day(x) : x \in S} |->
        LET rows == {x \in S : day(x) = k}
        IN  [performance |-> Performance(list, rows), members |-> groupActivityMembers(list, rows)]]

\* A ticket that is not lost and has a started leg without a grade.
hasActiveActivityGame(shown, now) ==
  shown.status # "lost" /\ \E l \in StartedIn(shown, now) : shown.legs[l] = "none"

\* Fault: what is filtered out no longer counts.
FilterThenAdd(list, days, now) ==
  [k \in DOMAIN days |->
    LET kept == {x \in UNION {days[k].members[h].wagers : h \in DOMAIN days[k].members} :
                   hasActiveActivityGame(list[x], now)}
    IN  [performance |-> Performance(list, kept), members |-> groupActivityMembers(list, kept)]]

\* Rows are filtered, the sums of a day and of a member are not.
filterActivityDaysForActiveGames(list, days, now) ==
  LET kept(k, h) == {x \in days[k].members[h].wagers : hasActiveActivityGame(list[x], now)}
      members(k) == {h \in DOMAIN days[k].members : kept(k, h) # {}}
  IN  [k \in {d \in DOMAIN days : members(d) # {}} |->
        [days[k] EXCEPT !.members =
          [h \in members(k) |-> [days[k].members[h] EXCEPT !.wagers = kept(k, h)]]]]

pickRecord(list) ==
  [outcome \in {"won", "lost", "refunded"} |-> {x \in DOMAIN list : list[x].status = outcome}]

splitProfileWeekWagers(list, now) ==
  LET open == {x \in DOMAIN list : list[x].status = "open"}
      live == {x \in open : StartedIn(list[x], now) # {}}
  IN  [inProcess |-> live, settled |-> DOMAIN list \ open, unstarted |-> open \ live]

Anchor == weekStartOf(0)

Skipped(now) == LET elapsed == (weekStartOf(now) - Anchor) \div Week
                IN  IF elapsed - WeekCap + 1 > 0 THEN elapsed - WeekCap + 1 ELSE 0

\* Fault: no slack for a change of the clock between the anchor and the week.
FirstWeekExactly(now) == weekStartOf(Anchor + Skipped(now) * Week)

firstWeek(now) == weekStartOf(Anchor + Skipped(now) * Week + Week \div 2)

\* Every week of the season up to the current one, the last WeekCap of them, and
\* the weeks of the bets.
profileWeekOptions(betWeeks, now) ==
  LET week[k \in 0..WeekCap - 1] == IF k = 0 THEN firstWeek(now) ELSE nextWeekStart(week[k - 1])
  IN  betWeeks \cup {w \in {week[k] : k \in 0..WeekCap - 1} : w <= weekStartOf(now)}
        \cup {weekStartOf(now)}

\* exposure: the wagers with a revealed leg on a game.
exposedWagers(list, g) == {x \in DOMAIN list : g \in GameSet(DOMAIN list[x].legs)}

PoolExposure(list, g) == Performance(list, exposedWagers(list, g))

\* Fault: the form has an entry for each leg.
EventPerLeg(shown, now) ==
  IF \A l \in DOMAIN shown.legs : Kickoff[l.game] <= now THEN DOMAIN shown.legs ELSE {}

\* Fault: what is hidden is not waited for.
EventsOfTheRevealed(shown, now) ==
  {CHOOSE l \in StartedIn(shown, now) : l.game = g : g \in GameSet(StartedIn(shown, now))}

\* The results a regrading asks for, of each game one: none while a leg is hidden
\* or has not started.
correctionEvents(shown, now) ==
  IF shown.hidden > 0 \/ \E l \in DOMAIN shown.legs : Kickoff[l.game] > now THEN {}
  ELSE {CHOOSE l \in DOMAIN shown.legs : l.game = g : g \in GameSet(DOMAIN shown.legs)}

\* The commissioner, who may own the ticket or not, regrades it as offered.
RegradeTicket(h, x) ==
  /\ x \in Listed
  /\ LET given == correctionEvents(Shown(Activity, h)[x], clock)
     IN  /\ given # {} /\ Corrects(ticket[x], given, clock)
         /\ \E result \in [GameSet(given) -> Ending] :
              LET grade   == [l \in ticket[x].legs |-> GradeOf(l, result[l.game])]
                  outcome == OutcomeOf({grade[l] : l \in ticket[x].legs})
                  profit  == Yield * Cardinality({l \in ticket[x].legs : grade[l] = "win"})
              IN  Rewrite(x, Resettle([ticket[x] EXCEPT !.grade = grade], outcome,
                                      IF outcome = "won" THEN profit ELSE 0, "commissioner", {}))

ViewsNext ==
  \/ KickoffComes
  \/ \E x \in Bet : \/ \E h \in Holder, legs \in Slip[x] : PlaceTicket(h, x, legs)
                    \/ ResultsArrive(x)
                    \/ VoidTicket(x)
                    \/ \E h \in Holder : RegradeTicket(h, x)

ViewsSpec == ViewsInit /\ [][ViewsNext]_viewVars

-----------------------------------------------------------------------------
(* Properties.                                                             *)

\* Another ticket that differs from t in legs that have not started, and in its
\* risk while nothing of it has started or settled.
OtherLegs(t, now) ==
  {s \in UNION {Slip[x] : x \in Bet} :
    /\ {l \in s : Kickoff[l.game] <= now} = {l \in t.legs : Kickoff[l.game] <= now}
    /\ Cardinality(s) = Cardinality(t.legs)
    /\ \A l \in t.legs \ s : t.grade[l] = "none"
    /\ weekStartOf(Min({Kickoff[g] : g \in GameSet(s)}))
         = weekStartOf(Min({Kickoff[g] : g \in GameSet(t.legs)}))}

OtherRisks(t, now) ==
  IF t.rows = <<>> /\ \A l \in t.legs : Kickoff[l.game] > now THEN {t.risk, t.risk + 1} ELSE {t.risk}

With(t, legs, risk) ==
  [t EXCEPT !.legs = legs, !.risk = risk,
            !.grade = [l \in legs |-> IF l \in t.legs THEN t.grade[l] ELSE "none"]]

Alike(t, now) == {With(t, legs, risk) : legs \in OtherLegs(t, now), risk \in OtherRisks(t, now)}

\* Whoever asks, nothing tells the ticket of another member from one with other
\* unstarted legs: not its terms, its day or its sums, but for their number and the
\* week of the earliest.  An export does not tell the owner's either.
NothingUnstartedShows ==
  \A x \in Listed : \A other \in Alike(ticket[x], clock) :
    /\ \A v \in Holder \ {ticket[x].owner}, policy \in {Wagers, Activity, Export} :
         shapeWagersWithPolicy(policy, v, other, clock)
           = shapeWagersWithPolicy(policy, v, ticket[x], clock)
    /\ \A v \in Holder : other.risk = ticket[x].risk =>
         shapeWagersWithPolicy(Export, v, other, clock)
           = shapeWagersWithPolicy(Export, v, ticket[x], clock)

FloatMoved(t) ==
  LET float(r) == CASE r.outcome = "won" -> r.profit [] r.outcome = "lost" -> -t.risk
                    [] r.outcome \notin {"won", "lost"} -> 0
  IN  Sum(t.rows, LAMBDA r : IF r.outcome = "reversal" THEN -float(t.rows[r.of]) ELSE float(r))

\* What a ticket is shown to have won or lost is what its settlements and their
\* reversals moved of the float, and agrees with its status.
PerformanceIsTheLedgers ==
  \A x \in Listed : /\ performanceOf(ticket[x]) = FloatMoved(ticket[x])
                    /\ {s.outcome : s \in firstSettlement(ticket[x])} = {ticket[x].status} \ {"open"}

\* Everybody sees the same book: a ticket is on the same day, in the same part of
\* its owner's profile and active or not whoever looks, and so are the sums; and
\* once a game has started, its exposure has every ticket on it.
EveryoneSeesTheSameBook ==
  \A v \in Holder :
    LET list == Shown(Activity, v)
    IN  /\ \A w \in Holder \ {v} : LET theirs == Shown(Activity, w) IN
             /\ \A week \in {list[x].week : x \in Listed} :
                  groupActivityDaysForWeek(list, week, clock) = groupActivityDaysForWeek(theirs, week, clock)
             /\ splitProfileWeekWagers(list, clock) = splitProfileWeekWagers(theirs, clock)
             /\ \A x \in Listed : hasActiveActivityGame(list[x], clock) <=> hasActiveActivityGame(theirs[x], clock)
        /\ \A g \in Game : Kickoff[g] <= clock =>
             PoolExposure(list, g) =
               Added([x \in {y \in Listed : g \in GameSet(ticket[y].legs)} |-> FloatMoved(ticket[x])])

\* The days of the weeks a profile offers add up to the season, filtering rows
\* changes no sum, and a record has a pick for each ticket that is not open.
SumsAgree ==
  \A v \in Holder :
    LET list  == Shown(Activity, v)
        weeks == profileWeekOptions({list[x].week : x \in Listed}, clock)
        inDays(days) == Added([k \in DOMAIN days |-> days[k].performance])
    IN  /\ Performance(list, Listed)
             = Added([week \in weeks |-> inDays(groupActivityDaysForWeek(list, week, clock))])
        /\ \A week \in weeks :
             LET days == groupActivityDaysForWeek(list, week, clock)
                 kept == filterActivityDaysForActiveGames(list, days, clock)
             IN  \A k \in DOMAIN kept :
                   LET before == days[k] after == kept[k]
                   IN  /\ after.performance = before.performance
                       /\ \A h \in DOMAIN after.members :
                            after.members[h].performance = before.members[h].performance
        /\ UNION {pickRecord(list)[o] : o \in {"won", "lost", "refunded"}}
             = {x \in Listed : ticket[x].status # "open"}

\* A regrading is offered exactly when the server would take its evidence, for the games
\* it names, to any commissioner; a balance it cannot undo is refused all the same
\* (SeasonLedger), and so is one that comes after the season was closed.
OfferedIsAccepted ==
  \A v \in Holder, x \in Listed :
    LET given == correctionEvents(Shown(Activity, v)[x], clock)
    IN  /\ given # {} <=> \A l \in ticket[x].legs : Kickoff[l.game] <= clock
        /\ given # {} => Corrects(ticket[x], given, clock)

\* A profile offers each week of the season once, up to the current one and no
\* later, and the latest WeekCap of them, whatever the clocks do.
ProfileWeeksAreTheSeasons ==
  Listed = {} /\ (\A g \in Game : Kickoff[g] <= clock) => \A t \in Calendar :
    LET weeks   == profileWeekOptions({}, t)
        seasons == {weekStartOf(s) : s \in {u \in Calendar : u % Hours = 0 /\ u <= t} \cup {t}}
    IN  weeks = {w \in seasons : Cardinality({u \in seasons : u > w}) < WeekCap}

\* What is read of a season is sound: its standings, and what a member is shown of
\* its wagers.
ReadsAreSound ==
  /\ WeeklyStandingsHold
  /\ [](\/ ViewsInit
        \/ /\ NothingUnstartedShows
           /\ PerformanceIsTheLedgers
           /\ EveryoneSeesTheSameBook
           /\ SumsAgree
           /\ OfferedIsAccepted
           /\ ProfileWeeksAreTheSeasons)
=============================================================================
