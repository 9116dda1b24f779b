----------------------------- MODULE CanonicalFeed -----------------------------
(***************************************************************************)
(* How one game of the provider's feed becomes a row and an offer: the     *)
(* odds and the score container are merged, the game is turned to the      *)
(* teams' stored sides (at neutral sites the feed changes its mind about   *)
(* who is at home), and one book is chosen for the market.                 *)
(*                                                                         *)
(* The market is the spread: an outcome is a name and a point, and the two *)
(* points of a market are opposites.  A book names its outcomes by team,   *)
(* or "home" and "away" as its container lists them.                       *)
(***************************************************************************)
EXTENDS Integers, Sequences, FiniteSets

CONSTANTS
  TeamA, TeamB,  \* the teams of the game
  Stranger,      \* a team of another game, listed under this game's id
  Books,         \* the configured books, in the order of the policy
  Handicap,      \* the first book quotes team A near this number
  Points,        \* the score of each team
  Unknown,       \* no score
  Nowhere,       \* the game is in neither container, or has no row or no offer
  Prices         \* American prices on which vig removal is checked

VARIABLES
  stored, \* the sports_event and market_offer rows
  told   \* the books of the poll the rows come from, and whether it had a score (history)

feedVars == <<stored, told>>

BookIds == 1..Len(Books)

Team       == {TeamA, TeamB, Stranger}
Sides      == [home : Team, away : Team]
TeamScore  == {Points[t] : t \in Team} \cup {Unknown}
NamedPoint == [name : Team \cup {"home", "away"}, point : Int]
Offer      == [book : BookIds, outcomes : SUBSET NamedPoint]
Game       == [home : Team, away : Team, homeScore : TeamScore, awayScore : TeamScore,
               listed : [BookIds -> BOOLEAN], outcomes : [BookIds -> SUBSET NamedPoint]]
Row        == [home : Team, away : Team, homeScore : TeamScore, awayScore : TeamScore,
               offer : Offer \cup {Nowhere}]

ASSUME FeedAssumption ==
  /\ Handicap \in Int /\ Prices \subseteq Int \ {0} /\ Len(Books) \in Nat \ {0}
  /\ TeamA # TeamB /\ Stranger \notin {TeamA, TeamB} /\ Team \cap {"home", "away"} = {}
  /\ Nowhere \notin Sides /\ Nowhere \notin Offer /\ Nowhere \notin Game /\ Nowhere \notin Row

-----------------------------------------------------------------------------
(* What a poll may say.                                                    *)
Order1   == [home |-> TeamA, away |-> TeamB]
Order2   == [home |-> TeamB, away |-> TeamA]
Another  == [home |-> TeamA, away |-> Stranger]
Listings == {Order1, Order2, Another, Nowhere}

\* A configured book may be missing, quote one side only, both, points that do not
\* belong together, or be listed twice.
BookStates == {"absent", "partial", "whole", "skewed", "twice"}

\* What book k truly quotes a team at: no two books quote alike.
Quote(k, team) == IF team = TeamA THEN Handicap + k ELSE -(Handicap + k)

Name(poll, team) ==
  IF poll.named = "teams" THEN team ELSE IF team = poll.odds.home THEN "home" ELSE "away"

BookOutcomes(poll, k) ==
  LET of(team, skew) == [name |-> Name(poll, team), point |-> Quote(k, team) + skew]
      away == poll.odds.away
      home == poll.odds.home
  IN  CASE poll.books[k] = "absent"  -> {}
        [] poll.books[k] = "partial" -> {of(home, 0)}
        [] poll.books[k] = "skewed"  -> {of(home, 0), of(away, 1)}
        [] OTHER                     -> {of(home, 0), of(away, 0)}

-----------------------------------------------------------------------------
(* event-team-order.ts                                                     *)
eventTeamOrder(expected, actual) ==
  CASE expected.home = actual.home /\ expected.away = actual.away -> "same"
    [] expected.home = actual.away /\ expected.away = actual.home -> "swapped"
    [] OTHER -> "conflict"

\* Fault: a side's alias is kept when the sides change.
BindNothing(event, outcome) == outcome

\* An alias is bound to the incoming team before the sides change.
BindAlias(event, outcome) ==
  [outcome EXCEPT !.name = CASE @ = "home" -> event.home [] @ = "away" -> event.away [] OTHER -> @]

\* Fault: the scores stay where the feed listed them.
ScoresStay(expected, event) ==
  [event EXCEPT !.home = expected.home, !.away = expected.away,
                !.outcomes = [k \in BookIds |-> {BindAlias(event, o) : o \in event.outcomes[k]}]]

\* The case of eventTeamOrder "swapped": points stay with their outcomes.
Turned(expected, event) ==
  [event EXCEPT !.home = expected.home, !.away = expected.away,
                !.homeScore = event.awayScore, !.awayScore = event.homeScore,
                !.outcomes = [k \in BookIds |-> {BindAlias(event, o) : o \in event.outcomes[k]}]]

orientProviderEvent(expected, event) ==
  CASE eventTeamOrder(expected, event) = "same"     -> event
    [] eventTeamOrder(expected, event) = "swapped"  -> Turned(expected, event)
    [] eventTeamOrder(expected, event) = "conflict" -> Nowhere

-----------------------------------------------------------------------------
(* the-odds-api-provider.ts: the odds side names the teams, scores are      *)
(* matched to them by name, and containers that disagree drop the game.    *)
ScoreOf(poll, team) == IF poll.score = Nowhere THEN Unknown ELSE Points[team]

\* Fault: the score container's sides are taken for the odds container's.
ScoreBySide(poll, teams) ==
  IF poll.score = Nowhere THEN <<Unknown, Unknown>>
  ELSE <<Points[poll.score.home], Points[poll.score.away]>>

ScoresFor(poll, teams) == <<ScoreOf(poll, teams.home), ScoreOf(poll, teams.away)>>

Merged(poll) ==
  LET teams == IF poll.odds # Nowhere THEN poll.odds ELSE poll.score
  IN  IF teams = Nowhere \/ /\ Nowhere \notin {poll.odds, poll.score}
                            /\ eventTeamOrder(poll.odds, poll.score) = "conflict"
        THEN Nowhere
        ELSE [home |-> teams.home, away |-> teams.away,
              homeScore |-> ScoresFor(poll, teams)[1], awayScore |-> ScoresFor(poll, teams)[2],
              listed   |-> [k \in BookIds |-> poll.odds # Nowhere /\ poll.books[k] = "twice"],
              outcomes |-> [k \in BookIds |-> IF poll.odds = Nowhere THEN {} ELSE BookOutcomes(poll, k)]]

-----------------------------------------------------------------------------
(* market-semantics.ts and canonicalize.ts                                 *)
resolveCanonicalOutcomeSide(event, name) ==
  CASE name \in {event.home, "home"} -> "home"
    [] name \in {event.away, "away"} -> "away"
    [] OTHER -> "none"

\* Fault: whether the two points belong together is not asked.
ValidateSidesOnly(event, outcomes) ==
  CASE Cardinality(outcomes) < 2 -> "incomplete"
    [] {resolveCanonicalOutcomeSide(event, o.name) : o \in outcomes} = {"home", "away"} -> "complete"
    [] OTHER -> "invalid"

validateCanonicalMarket(event, outcomes) ==
  CASE Cardinality(outcomes) < 2 -> "incomplete"
    [] /\ Cardinality(outcomes) = 2
       /\ {resolveCanonicalOutcomeSide(event, o.name) : o \in outcomes} = {"home", "away"}
       /\ \E o, p \in outcomes : o # p /\ o.point = -p.point -> "complete"
    [] OTHER -> "invalid"

\* Fault: the side's best point is shopped for among the books.
Shopped(event) ==
  LET whole == {k \in BookIds : validateCanonicalMarket(event, event.outcomes[k]) = "complete"}
  IN  IF whole = {} THEN Nowhere
      ELSE LET best == CHOOSE k \in whole : \A j \in whole : j <= k
           IN  [book |-> best, outcomes |-> event.outcomes[best]]

\* canonicalize, once no configured book is listed twice: the first book whose
\* market is not incomplete, unless that book contradicts itself.
Chosen(event) ==
  LET present == {k \in BookIds : validateCanonicalMarket(event, event.outcomes[k]) # "incomplete"}
  IN  IF present = {} THEN Nowhere
      ELSE LET k == CHOOSE k \in present : \A j \in present : k <= j
           IN  [book |-> k, outcomes |-> event.outcomes[k]]

Throws(event) ==
  \/ \E k \in BookIds : event.listed[k]
  \/ LET offer == Chosen(event)
     IN  offer # Nowhere /\ validateCanonicalMarket(event, offer.outcomes) = "invalid"

-----------------------------------------------------------------------------
FeedInit == stored = Nowhere /\ told = Nowhere

\* A poll that throws leaves the rows as they are; a game that is missing, or whose
\* teams are not the stored ones, loses its offer and keeps its result.
Ingest(poll) ==
  LET merged == Merged(poll)
      event  == IF merged = Nowhere \/ stored = Nowhere THEN merged ELSE orientProviderEvent(stored, merged)
  IN  IF event = Nowhere
        THEN /\ stored # Nowhere
             /\ stored' = [stored EXCEPT !.offer = Nowhere]
             /\ UNCHANGED told
        ELSE /\ ~Throws(event)
             /\ stored' = [home |-> event.home, away |-> event.away, homeScore |-> event.homeScore,
                        awayScore |-> event.awayScore, offer |-> Chosen(event)]
             /\ told' = [books |-> poll.books, scored |-> poll.score # Nowhere]

FeedPolls == [odds : Listings, score : Listings, named : {"teams", "sides"}, books : [BookIds -> BookStates]]

FeedNext == \E poll \in FeedPolls : Ingest(poll)

FeedSpec == FeedInit /\ [][FeedNext]_feedVars

-----------------------------------------------------------------------------
(* vigFreeMoneylinePrice: the prices' implied probabilities, normalised.   *)
Probability(price) == IF price > 0 THEN [n |-> 100, d |-> price + 100] ELSE [n |-> -price, d |-> 100 - price]

\* Math.round: halves go up, also below zero.
Round(n, d) == (2 * n + d) \div (2 * d)

\* Fault: the implied probability is not normalised by the other side's.
WithVig(own, other) == own

vigFreeMoneylinePrice(own, other) ==
  LET n == Probability(own).n * Probability(other).d
      d == Probability(own).d * Probability(other).n
  IN  IF d >= n THEN Round(100 * d, n) ELSE Round(-100 * n, d)

MaximumMoneylineOdds == 1200
moneylineStrikeIsAvailable(odds) == odds # 0 /\ odds \in -MaximumMoneylineOdds..MaximumMoneylineOdds

-----------------------------------------------------------------------------
(* Properties.                                                             *)

\* Whatever sides the feed's two containers give the teams, and however it names
\* its outcomes: the point a member sees on a side is what one book, the first
\* in order with the whole market, quotes the team stored on that side, and the
\* score of a side is that team's.
SidesBelongToTeams ==
  stored # Nowhere =>
    /\ stored.offer # Nowhere =>
         /\ told.books[stored.offer.book] = "whole"
         /\ \A k \in 1..stored.offer.book - 1 : told.books[k] \in {"absent", "partial"}
         /\ \A o \in stored.offer.outcomes :
              LET side == resolveCanonicalOutcomeSide(stored, o.name)
                  team == IF side = "home" THEN stored.home ELSE stored.away
              IN  side # "none" /\ o.point = Quote(stored.offer.book, team)
    /\ told.scored => stored.homeScore = Points[stored.home] /\ stored.awayScore = Points[stored.away]

\* A game's teams keep the sides they were first stored on: accepted wagers name a
\* side, not a team.
TeamsStay ==
  [][stored # Nowhere => stored'.home = stored.home /\ stored'.away = stored.away]_feedVars

\* A fair strike is no worse than the price of a book that takes its share (books write
\* no price between 0 and 100, where a favourite would pass for an outsider), and the
\* two sides mirror each other within one point: only at the very limit can one side
\* be on offer without the other.
StrikesAreFair ==
  \A own, other \in Prices :
    LET fair == vigFreeMoneylinePrice(own, other)
        back == vigFreeMoneylinePrice(other, own)
    IN  /\ LET p == Probability(own)
               q == Probability(other)
           IN  own \notin 1..99 /\ p.n * q.d + q.n * p.d >= p.d * q.d => fair >= own
        /\ fair + back \in -1..1 \/ {fair, back} \subseteq {100, -100}
        /\ fair \notin {-MaximumMoneylineOdds, MaximumMoneylineOdds} /\ moneylineStrikeIsAvailable(fair)
             => moneylineStrikeIsAvailable(back)

TeamsKeepTheirSides == [](SidesBelongToTeams /\ StrikesAreFair) /\ TeamsStay
=============================================================================
