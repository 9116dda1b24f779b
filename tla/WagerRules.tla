------------------------------ MODULE WagerRules ------------------------------
(***************************************************************************)
(* The rules of a ticket, from the builder page to its grade: which legs   *)
(* may share a ticket (twice: in the browser and on the server), what a    *)
(* parlay or a teaser is priced at, and what it is graded once results     *)
(* come in (src/domain, web/*-slip.ts, durable/settlement.ts).             *)
(*                                                                         *)
(* Lines, totals and teaser points are doubled, so a half point is 1.      *)
(* A price is an American integer; a parlay is priced in exact fractions.  *)
(* The game also stands for the league, with which the code keys a result. *)
(***************************************************************************)
EXTENDS Integers, FiniteSets, Functions

CONSTANTS
  Game,
  Spread,    \* the home team's line (doubled)
  Total,     \* the total's line (doubled)
  Strike,    \* moneyline odds by game and side
  Score,     \* the finals there may be: records of home and away points
  Cancelled, \* a result without a score: cancelled, no contest or postponed
  Unplayed,  \* no result yet
  MaxOdds,   \* stands for MAX_SAFE_ODDS
  MaxLegs    \* six, where the teaser card ends

ASSUME RulesAssumption ==
  /\ {Spread, Total} \subseteq Int /\ MaxOdds \in Nat /\ MaxLegs \in 2..6
  /\ Strike \in [Game -> [{"home", "away"} -> Int \ {0}]]
  /\ Score \subseteq [home : Nat, away : Nat] /\ Cancelled # Unplayed
  /\ {Cancelled, Unplayed} \cap Score = {}

VARIABLES
  ticket,   \* the slip, then the accepted wager
  result    \* what is known of each game

rulesVars == <<ticket, result>>

Sides(market) == IF market = "total" THEN {"over", "under"} ELSE {"home", "away"}
Directional   == {"spread", "moneyline"}
TicketLeg     == UNION {[game : Game, market : {m}, side : Sides(m)] : m \in Directional \cup {"total"}}
Opposed       == [home |-> "away", away |-> "home", over |-> "under", under |-> "over"]
Against(leg)  == [leg EXCEPT !.side = Opposed[@]]
NoLine        == 0

\* A spread's line is told from the selected team's side.
LineOf(leg) ==
  CASE leg.market = "spread"    -> IF leg.side = "home" THEN Spread ELSE -Spread
    [] leg.market = "total"     -> Total
    [] leg.market = "moneyline" -> NoLine

-----------------------------------------------------------------------------
(* Teasers: the operator's card, by legs and doubled points.               *)
TeaserPoints == {12, 13, 14, 15, 20}
OffCard      == 0

\* A row of the card: what six, six and a half, seven, seven and a half and ten points pay.
CardRow(six, half, seven, more, ten) ==
  [p \in TeaserPoints |-> CASE p = 12 -> six [] p = 13 -> half [] p = 14 -> seven [] p = 15 -> more [] p = 20 -> ten]

teaserOdds(legs, points) ==
  CASE legs = 2 -> CardRow(-110, -120, -130, -150, OffCard)[points]
    [] legs = 3 -> CardRow(165, 150, 135, 105, -110)[points]
    [] legs = 4 -> CardRow(265, 235, 215, 140, OffCard)[points]
    [] legs = 5 -> CardRow(405, 350, 320, 235, OffCard)[points]
    [] legs = 6 -> CardRow(595, 550, 500, 325, OffCard)[points]
    [] OTHER    -> OffCard

\* Fault: an over is teased up, as a spread is.
TeasedUp(leg, points) == LineOf(leg) + points

adjustTeaserLine(leg, points) ==
  IF leg.side = "over" THEN LineOf(leg) - points ELSE LineOf(leg) + points

teaserSelectionConflict(legs, leg) == {leg, Against(leg)} \cap legs # {}

\* The server's: the card has the count, and no leg conflicts with another.
validateTeaser(legs, points) ==
  /\ teaserOdds(Cardinality(legs), points) # OffCard
  /\ \A leg \in legs : leg.market # "moneyline" /\ ~teaserSelectionConflict(legs \ {leg}, leg)

\* The page's own, which knows the card as two to six legs, ten points for three.
validateTeaserPage(legs, points) ==
  /\ Cardinality(legs) \in 2..MaxLegs
  /\ points = 20 => Cardinality(legs) = 3
  /\ \A leg \in legs : ~teaserSelectionConflict(legs \ {leg}, leg)

addTeaserLeg(legs, leg) ==
  /\ Cardinality(legs) < MaxLegs
  /\ leg.market # "moneyline" /\ ~teaserSelectionConflict(legs, leg)

-----------------------------------------------------------------------------
(* Parlays.                                                                *)

\* Fault: the event is not looked up among the directional markets.
BothDirectionsValid(legs) ==
  /\ Cardinality(legs) \in 2..MaxLegs
  /\ \A x, y \in legs : x # y /\ x.game = y.game => x.market # y.market

validateParlay(legs) ==
  /\ Cardinality(legs) \in 2..MaxLegs
  /\ \A x, y \in legs : x # y /\ x.game = y.game =>
       x.market # y.market /\ ~({x.market, y.market} \subseteq Directional)

addParlayLeg(legs, leg) ==
  /\ Cardinality(legs) < MaxLegs
  /\ {leg, Against(leg)} \cap legs = {}
  /\ leg.market \in Directional => ~\E other \in legs :
       other.game = leg.game /\ other.market \in Directional \ {leg.market}

gcd[p \in Nat \X Nat] == IF p[2] = 0 THEN p[1] ELSE gcd[<<p[2], p[1] % p[2]>>]

reduce(n, d) == [n |-> n \div gcd[<<n, d>>], d |-> d \div gcd[<<n, d>>]]

multiply(x, y) == reduce(x.n * y.n, x.d * y.d)

americanMultiplier(odds) == IF odds > 0 THEN reduce(odds + 100, 100) ELSE reduce(100 - odds, -odds)

\* Fault: a total is paid even money beside a side of its own game.
UncorrelatedOdds(leg, legs) ==
  IF leg.market = "moneyline" THEN Strike[leg.game][leg.side] ELSE 100

effectiveLegOdds(leg, legs) ==
  CASE leg.market = "spread"    -> 100
    [] leg.market = "total"     ->
         IF \E other \in legs : other.game = leg.game /\ other.market \in Directional THEN -133 ELSE 100
    [] leg.market = "moneyline" -> Strike[leg.game][leg.side]

OutOfRange == 0

\* Fault: a favourite's price is rounded down as an underdog's is.
FloorOdds(x) ==
  LET american == IF x.n >= 2 * x.d THEN (100 * (x.n - x.d)) \div x.d
                                    ELSE -((100 * x.d) \div (x.n - x.d))
  IN  IF american > MaxOdds \/ american < -MaxOdds THEN OutOfRange ELSE american

conservativeAmericanOdds(x) ==
  LET profit   == x.n - x.d
      american == IF x.n >= 2 * x.d THEN (100 * profit) \div x.d
                                    ELSE -((100 * x.d + profit - 1) \div profit)
  IN  IF american > MaxOdds \/ american < -MaxOdds THEN OutOfRange ELSE american

priceLegs(legs) ==
  conservativeAmericanOdds(
    FoldFunction(multiply, [n |-> 1, d |-> 1],
                 [leg \in legs |-> americanMultiplier(effectiveLegOdds(leg, legs))]))

\* Fault: only the whole ticket is priced.
WholeTicketOdds(legs) == IF validateParlay(legs) THEN priceLegs(legs) ELSE OutOfRange

\* Every set of legs that pushes and voids may leave must have a price.
parlayOdds(legs) ==
  IF validateParlay(legs) /\ \A left \in (SUBSET legs) \ {{}} : priceLegs(left) # OutOfRange
    THEN priceLegs(legs) ELSE OutOfRange

-----------------------------------------------------------------------------
(* Grading.                                                                *)

\* Fault: the line of the away side is added to the home margin.
HomeMargin(leg, line, r) ==
  LET margin == 2 * (r.home - r.away) + line
  IN  IF margin = 0 THEN "push" ELSE IF (margin > 0) = (leg.side = "home") THEN "win" ELSE "loss"

SpreadGrade(leg, line, r) ==
  LET margin == 2 * (r.home - r.away) + (IF leg.side = "home" THEN line ELSE -line)
  IN  IF margin = 0 THEN "push" ELSE IF (margin > 0) = (leg.side = "home") THEN "win" ELSE "loss"

gradeLeg(leg, line, r) ==
  CASE r = Unplayed              -> "pending"
    [] r = Cancelled             -> "void"
    [] r \in Score ->
         CASE leg.market = "spread"    -> SpreadGrade(leg, line, r)
           [] leg.market = "moneyline" -> IF r.home = r.away THEN "void"
                ELSE IF (leg.side = "home") = (r.home > r.away) THEN "win" ELSE "loss"
           [] leg.market = "total"     ->
                LET over == 2 * (r.home + r.away) - line
                IN  IF over = 0 THEN "push"
                    ELSE IF (over > 0) = (leg.side = "over") THEN "win" ELSE "loss"

\* The line a ticket holds its leg to.
HeldLine(t, leg) == IF t.kind = "teaser" THEN adjustTeaserLine(leg, t.points) ELSE LineOf(leg)

Undecided == [outcome |-> "pending", odds |-> 0]
Refund    == [outcome |-> "refund", odds |-> 0]
Won(odds) == [outcome |-> "win", odds |-> odds]

\* Fault: a ticket is settled on the legs that are in.
SettledEarly(t, known) ==
  LET left == {leg \in t.legs : gradeLeg(leg, HeldLine(t, leg), known[leg.game]) = "win"}
  IN  IF \E leg \in t.legs : gradeLeg(leg, HeldLine(t, leg), known[leg.game]) = "loss"
        THEN [outcome |-> "loss", odds |-> 0]
        ELSE IF left = {} THEN Undecided
        ELSE CASE t.kind = "straight" -> Won(t.odds)
               [] t.kind = "parlay"   -> Won(priceLegs(left))
               [] t.kind = "teaser"   -> Won(teaserOdds(Cardinality(left), t.points))

\* gradeResults: one loss decides; otherwise every leg must be in, and pushes and
\* voids leave a smaller ticket, or none.
gradeResults(t, known) ==
  LET grade  == [leg \in t.legs |-> gradeLeg(leg, HeldLine(t, leg), known[leg.game])]
      left   == {leg \in t.legs : grade[leg] = "win"}
  IN  IF "loss" \in Range(grade)         THEN [outcome |-> "loss", odds |-> 0]
      ELSE IF "pending" \in Range(grade) THEN Undecided
      ELSE IF left = {}                  THEN Refund
      ELSE CASE t.kind = "straight" -> Won(t.odds)
             [] t.kind = "parlay"   -> Won(priceLegs(left))
             [] t.kind = "teaser"   ->
                  LET odds == teaserOdds(Cardinality(left), t.points)
                  IN  IF odds = OffCard THEN Refund ELSE Won(odds)

-----------------------------------------------------------------------------
(* A ticket is built leg by leg in the browser, accepted by the server, and *)
(* graded as the games end.                                                *)
RulesInit ==
  /\ ticket = [kind |-> "straight", legs |-> {}, points |-> 0, odds |-> 0, accepted |-> FALSE]
  /\ result = [g \in Game |-> Unplayed]

\* Each page builds its own kind of ticket: the first leg settles which.
AddLeg(kind, leg) ==
  /\ ~ticket.accepted
  /\ ticket.legs = {} \/ kind = ticket.kind
  /\ CASE kind = "straight" -> ticket.legs = {}
       [] kind = "parlay"   -> addParlayLeg(ticket.legs, leg)
       [] kind = "teaser"   -> addTeaserLeg(ticket.legs, leg)
  /\ ticket' = [ticket EXCEPT !.kind = kind, !.legs = @ \cup {leg}]
  /\ UNCHANGED result

Accept(odds, points) ==
  /\ ~ticket.accepted /\ odds # OutOfRange
  /\ ticket' = [ticket EXCEPT !.odds = odds, !.points = points, !.accepted = TRUE]
  /\ UNCHANGED result

\* A straight spread or total pays even money, a moneyline its strike.
AcceptStraight ==
  /\ ticket.kind = "straight"
  /\ \E leg \in ticket.legs : Accept(effectiveLegOdds(leg, {leg}), 0)

AcceptParlay ==
  /\ ticket.kind = "parlay"
  /\ Accept(parlayOdds(ticket.legs), 0)

AcceptTeaser ==
  /\ ticket.kind = "teaser"
  /\ \E points \in TeaserPoints :
       /\ validateTeaserPage(ticket.legs, points) /\ validateTeaser(ticket.legs, points)
       /\ Accept(teaserOdds(Cardinality(ticket.legs), points), points)

GameEnds(g) ==
  /\ ticket.accepted /\ result[g] = Unplayed
  /\ \E r \in Score \cup {Cancelled} : result' = [result EXCEPT ![g] = r]
  /\ UNCHANGED ticket

RulesNext ==
  \/ \E kind \in {"straight", "parlay", "teaser"}, leg \in TicketLeg : AddLeg(kind, leg)
  \/ AcceptStraight \/ AcceptParlay \/ AcceptTeaser
  \/ \E g \in Game : GameEnds(g)

RulesSpec == RulesInit /\ [][RulesNext]_rulesVars

-----------------------------------------------------------------------------
(* What the rules promise.                                                 *)

\* The browser takes a leg exactly when the server would take the larger ticket,
\* whatever order the legs were chosen in, and both know the same teaser card.
BuilderAgrees ==
  ticket.accepted \/
  /\ ticket.kind = "parlay" /\ ticket.legs # {} /\ Cardinality(ticket.legs) < MaxLegs =>
       \A leg \in TicketLeg \ ticket.legs :
         addParlayLeg(ticket.legs, leg) <=> validateParlay(ticket.legs \cup {leg})
  /\ ticket.kind = "teaser" => \A points \in TeaserPoints :
       validateTeaserPage(ticket.legs, points) <=> validateTeaser(ticket.legs, points)

\* Whatever pushes and voids leave of an accepted ticket can be settled: a win
\* always has a price.
AcceptedSettles == ticket.accepted =>
  LET graded == gradeResults(ticket, result) IN graded.outcome = "win" => graded.odds # 0

\* A decision taken while games are still to come is the decision every way those
\* games may end (so a ticket settled early is never settled again for new results).
DecisionStands == ticket.accepted =>
  LET graded == gradeResults(ticket, result)
      coming == {g \in Game : result[g] = Unplayed}
  IN  graded # Undecided => \A rest \in [coming -> Score \cup {Cancelled}] :
        gradeResults(ticket, [g \in Game |-> IF g \in coming THEN rest[g] ELSE result[g]]) = graded

\* Of two opposite legs one wins exactly when the other loses, and they push, void
\* and wait together; teased towards the bettor they never both lose.
SidesAreOpposite == ticket.accepted => \A leg \in TicketLeg :
  LET one   == gradeLeg(leg, LineOf(leg), result[leg.game])
      other == gradeLeg(Against(leg), LineOf(Against(leg)), result[leg.game])
  IN  /\ one = "win" <=> other = "loss"
      /\ one \notin {"win", "loss"} => one = other
      /\ leg.market # "moneyline" => \A points \in TeaserPoints :
           "loss" # gradeLeg(leg, adjustTeaserLine(leg, points), result[leg.game])
             \/ "loss" # gradeLeg(Against(leg), adjustTeaserLine(Against(leg), points), result[leg.game])

\* Points only help: a leg that wins at the offered line wins teased, and pushes
\* and voids never raise what a teaser pays.
NoMore(x, y) == x.n * y.d <= y.n * x.d

TeasingHelps == ticket.accepted /\ ticket.kind = "teaser" =>
  /\ \A leg \in ticket.legs :
       gradeLeg(leg, LineOf(leg), result[leg.game]) = "win" =>
         gradeLeg(leg, adjustTeaserLine(leg, ticket.points), result[leg.game]) = "win"
  /\ LET graded == gradeResults(ticket, result)
     IN  graded.outcome = "win" => NoMore(americanMultiplier(graded.odds), americanMultiplier(ticket.odds))

\* A parlay is priced in the house's favour and by less than one point of odds: it
\* never pays more than the product of its legs, and one point better would.
Better(odds) == IF odds = -101 THEN 100 ELSE odds + 1
Exact(leg, legs) ==
  CASE leg.market = "moneyline" -> americanMultiplier(Strike[leg.game][leg.side])
    [] leg.market = "total" /\ \E x \in legs : x.game = leg.game /\ x.market \in Directional ->
         americanMultiplier(-133)
    [] OTHER -> americanMultiplier(100)

PricesAreTight == ticket.accepted /\ ticket.kind = "parlay" =>
  LET product == FoldFunction(multiply, [n |-> 1, d |-> 1],
                              [leg \in ticket.legs |-> Exact(leg, ticket.legs)])
  IN  NoMore(americanMultiplier(ticket.odds), product) /\ ~NoMore(americanMultiplier(Better(ticket.odds)), product)

\* The rules of tickets agree with each other from the builder to the last result.
TicketRulesHold ==
  /\ BuilderAgrees /\ AcceptedSettles /\ DecisionStands
  /\ SidesAreOpposite /\ TeasingHelps /\ PricesAreTight
=============================================================================
