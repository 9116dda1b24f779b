---------------------------- MODULE SeasonLedger ----------------------------
(***************************************************************************)
(* The accounting authority of one season inside a pool's Durable Object:  *)
(* share accounts, the season's float and notional value, share orders,    *)
(* wagers with their legs, the current settlement of every wager, and the  *)
(* closure of the season.                                                  *)
(*                                                                         *)
(* The rows of the season are one record, a "book".  Commands of the       *)
(* Durable Object are one storage transaction each and take the book from  *)
(* one committed value to the next.  A settlement run is also one storage  *)
(* transaction, but it visits the wagers one by one and any wager can      *)
(* throw, so it is modelled step by step on a working copy: committed is   *)
(* what every reader sees, working is what the open transaction has        *)
(* written so far, and a throw or an eviction rolls working back.  The     *)
(* order in which the run visits the wagers is left to the query planner   *)
(* (the SELECT has no ORDER BY), hence to a nondeterministic choice.       *)
(***************************************************************************)
EXTENDS FiniteSets, FixedPoint, Totals

CONSTANTS
  NMembers, NWagers, NOrders,  \* numbers of members and of rows a run may add
  Event,        \* provider events
  SuperBowl,    \* the season's canonical Super Bowl event
  Ticket,       \* the tickets members may ask for: [kind, picks]
  Risk,         \* the whole-share risks members may ask for
  Amount,       \* the amounts of share orders
  MaxSideBet,   \* pool.max_side_bet_micros
  LegScale,     \* a common multiple of the leg counts: exposure stays exact
  Profit,       \* profit of a risk on the surviving winning legs of a ticket
  MaxVersion    \* bound on the correction versions of one event

Member == 1..NMembers
Wager  == 1..NWagers
Order  == 1..NOrders
Side   == {"home", "away"}

\* A final score is a win for one side or a tie on the line; a cancelled or
\* no-contest event is terminal without being final.
Result == {"home", "away", "push", "cancelled"}

NoTicket == [kind |-> "straight", picks |-> <<>>]

ASSUME SizesAssumption ==
  /\ NMembers \in Nat /\ NWagers \in Nat /\ NOrders \in Nat
  /\ MaxVersion \in Nat /\ MaxSideBet \in Nat /\ LegScale \in Nat
  /\ Member # {}
ASSUME EventAssumption == IsFiniteSet(Event) /\ SuperBowl \in Event
ASSUME TicketAssumption ==
  \A t \in Ticket : /\ t = [kind |-> t.kind, picks |-> t.picks]
                    /\ t.kind \in {"straight", "teaser", "parlay"}
                    /\ DOMAIN t.picks \in (SUBSET Event) \ {{}}
                    /\ t.picks \in [DOMAIN t.picks -> Side]
ASSUME AmountAssumption ==
  /\ Risk \subseteq Nat \ {0}
  /\ Amount \subseteq Nat \ {0}
ASSUME ProfitAssumption == Profit \in [Risk \X SUBSET Event -> Nat]

VARIABLES
  committed,   \* the season's rows as every command reads them
  working,     \* the rows the open settlement transaction has written
  todo,        \* wagers the open transaction still has to visit
  settling,    \* whether a settlement transaction is open
  feed,        \* terminal results published in D1: [version, value] per event
  started      \* events whose kickoff has passed

vars == <<committed, working, todo, settling, feed, started>>

-----------------------------------------------------------------------------
(* Rows *)

NoResult     == [version |-> 0, value |-> "cancelled"]
NoLeg        == [grade |-> "none", version |-> 0]
NoOrder      == [member |-> 1, shares |-> 0, value |-> 0, reverses |-> 0, placed |-> FALSE]
NoSettlement == [outcome |-> "none", return |-> 0, profit |-> 0,
                 manual |-> FALSE, evidence |-> {}]

\* A season that has just been opened.
EmptyBook ==
  [ state     |-> "active",
    reason    |-> "none",
    confirmed |-> FALSE,                          \* season_super_bowl.confirmed_at
    available |-> [m \in Member |-> 0],
    locked    |-> [m \in Member |-> 0],
    float     |-> 0,
    notional  |-> 0,
    lossEntry |-> FALSE,                          \* a settlement ledger row with a negative float
    order     |-> [o \in Order |-> NoOrder],
    status    |-> [w \in Wager |-> "none"],
    owner     |-> [w \in Wager |-> 1],
    risk      |-> [w \in Wager |-> 0],
    ticket    |-> [w \in Wager |-> NoTicket],
    leg       |-> [w \in Wager |-> [e \in Event |-> NoLeg]],
    settled   |-> [w \in Wager |-> NoSettlement],  \* currentSettlement
    result    |-> [e \in Event |-> NoResult] ]     \* event_result_snapshot

Placed(b)    == {w \in Wager : b.status[w] # "none"}
Legs(b, w)   == DOMAIN b.ticket[w].picks
Observed(b)  == {e \in Event : b.result[e].version > 0}
HasPrior(b, w) == b.settled[w].outcome # "none"

-----------------------------------------------------------------------------
(* Grading *)

GradeLeg(side, result) ==
  CASE result = "cancelled" -> "void"
    [] result = "push"      -> "push"
    [] result = side        -> "win"
    [] OTHER                -> "loss"

\* Grades of a ticket against results known for the events in seen.
Grades(t, seen, value) ==
  [e \in DOMAIN t.picks |->
     IF e \in seen THEN GradeLeg(t.picks[e], value[e]) ELSE "pending"]

Winners(t, grades) == {e \in DOMAIN t.picks : grades[e] = "win"}

\* A teaser is repriced from its card, which starts at two legs.
CardPays(t, winners) ==
  /\ winners # {}
  /\ t.kind = "teaser" => Cardinality(winners) >= 2

\* gradeResults: "none" is the source's null, an undecided ticket.
GradeTicket(t, grades) ==
  CASE \E e \in DOMAIN t.picks : grades[e] = "loss"    -> "loss"
    [] (/\ \A e \in DOMAIN t.picks : grades[e] # "loss"
        /\ \E e \in DOMAIN t.picks : grades[e] = "pending") -> "none"
    [] OTHER -> IF CardPays(t, Winners(t, grades)) THEN "win" ELSE "refund"

ProfitOf(b, w, outcome, grades) ==
  IF outcome = "win" THEN Profit[b.risk[w], Winners(b.ticket[w], grades)] ELSE 0

-----------------------------------------------------------------------------
(* Ledger postings: the helpers of settlement.ts on a book *)

\* Fault: the account test is missing and only the season's float is tested.
LedgerTestsFloatOnly(b, w, available, locked, float) == b.float + float >= 0

\* applyLedger refuses a posting that leaves any of the three negative.
LedgerAllows(b, w, available, locked, float) ==
  /\ b.available[b.owner[w]] + available >= 0
  /\ b.locked[b.owner[w]] + locked >= 0
  /\ b.float + float >= 0

ApplyLedger(b, w, available, locked, float) ==
  [b EXCEPT !.available[b.owner[w]] = @ + available,
            !.locked[b.owner[w]]    = @ + locked,
            !.float                 = @ + float]

\* Fault: undoing a loss does not bring the lost shares back into the float.
ReversalForgetsLoss(b, w) ==
  IF b.settled[w].outcome = "win" THEN -b.settled[w].profit ELSE 0

\* Fault: undoing a win takes the whole return out of the float.
ReversalTakesReturn(b, w) ==
  CASE b.settled[w].outcome = "win"  -> -b.settled[w].return
    [] b.settled[w].outcome = "loss" -> b.risk[w]
    [] OTHER                         -> 0

\* Float effect of undoing / applying an outcome.
ReversalFloat(b, w) ==
  CASE b.settled[w].outcome = "win"  -> -b.settled[w].profit
    [] b.settled[w].outcome = "loss" -> b.risk[w]
    [] OTHER                         -> 0

Return(risk, outcome, profit) ==
  CASE outcome = "win"    -> risk + profit
    [] outcome = "refund" -> risk
    [] OTHER              -> 0

SettlementFloat(risk, outcome, profit) ==
  CASE outcome = "win"  -> profit
    [] outcome = "loss" -> -risk
    [] OTHER            -> 0

CanReverse(b, w) ==
  LedgerAllows(b, w, -b.settled[w].return, b.risk[w], ReversalFloat(b, w))

\* Fault: a refund is taken to have nothing to undo.
ReversalSkipsRefund(b, w) ==
  LET undone == IF b.settled[w].outcome = "refund" THEN b
                ELSE ApplyLedger(b, w, -b.settled[w].return, b.risk[w], ReversalFloat(b, w))
  IN  [undone EXCEPT !.settled[w] = NoSettlement]

\* reversePrior re-locks the risk and leaves the wager without a settlement.
ReversePrior(b, w) ==
  [ApplyLedger(b, w, -b.settled[w].return, b.risk[w], ReversalFloat(b, w))
     EXCEPT !.settled[w] = NoSettlement]

CanApply(b, w, outcome, profit) ==
  LedgerAllows(b, w, Return(b.risk[w], outcome, profit), -b.risk[w],
               SettlementFloat(b.risk[w], outcome, profit))

StatusOf(outcome) ==
  CASE outcome = "win" -> "won" [] outcome = "loss" -> "lost" [] OTHER -> "refunded"

\* Fault: a wager that is already settled keeps its status.
SettlementKeepsStatus(b, w, outcome, profit, manual, evidence) ==
  [ApplyLedger(b, w, Return(b.risk[w], outcome, profit), -b.risk[w],
               SettlementFloat(b.risk[w], outcome, profit))
     EXCEPT !.status[w] = IF @ = "open" THEN StatusOf(outcome) ELSE @,
            !.settled[w] = [outcome  |-> outcome,
                             return   |-> Return(b.risk[w], outcome, profit),
                             profit   |-> profit,
                             manual   |-> manual,
                             evidence |-> evidence],
            !.lossEntry  = @ \/ outcome = "loss"]

ApplySettlement(b, w, outcome, profit, manual, evidence) ==
  [ApplyLedger(b, w, Return(b.risk[w], outcome, profit), -b.risk[w],
               SettlementFloat(b.risk[w], outcome, profit))
     EXCEPT !.status[w]  = StatusOf(outcome),
            !.settled[w] = [outcome  |-> outcome,
                             return   |-> Return(b.risk[w], outcome, profit),
                             profit   |-> profit,
                             manual   |-> manual,
                             evidence |-> evidence],
            !.lossEntry  = @ \/ outcome = "loss"]

\* Reverse what stands, if anything, and apply the replacement.
WithoutPrior(b, w) == IF HasPrior(b, w) THEN ReversePrior(b, w) ELSE b

CanReplace(b, w, outcome, profit) ==
  /\ HasPrior(b, w) => CanReverse(b, w)
  /\ CanApply(WithoutPrior(b, w), w, outcome, profit)

Replace(b, w, outcome, profit, manual, evidence) ==
  ApplySettlement(WithoutPrior(b, w), w, outcome, profit, manual, evidence)

-----------------------------------------------------------------------------
(* Closure *)

\* Fault: an early-lost ticket with pending legs does not hold the season open.
OnlyOpenUnresolved(b, w) == b.status[w] = "open"

Unresolved(b, w) ==
  \/ b.status[w] = "open"
  \/ /\ b.ticket[w].kind # "straight"
     /\ \E e \in Legs(b, w) : b.leg[w][e].grade = "none"

\* Fault: any loss in the season's ledger exhausts it.
AnyLossExhausts(b) == b.lossEntry

FloatExhausted(b) == b.float = 0 /\ b.lossEntry
SuperBowlFinal(b) ==
  /\ b.confirmed
  /\ b.result[SuperBowl].version > 0
  /\ b.result[SuperBowl].value # "cancelled"

\* closeEligibleSeasons
CloseEligible(b) ==
  IF b.state # "active" \/ \E w \in Placed(b) : Unresolved(b, w) THEN b
  ELSE IF FloatExhausted(b)
       THEN [b EXCEPT !.state = "closed", !.reason = "float_exhausted"]
  ELSE IF SuperBowlFinal(b)
       THEN [b EXCEPT !.state = "closed", !.reason = "super_bowl_final"]
  ELSE b

-----------------------------------------------------------------------------
(* The settlement run over one wager: the body of settleWagers' loop *)

ResultValues(b) == [e \in Event |-> b.result[e].value]

SystemGrades(b, w) == Grades(b.ticket[w], Observed(b), ResultValues(b))

\* Fault: partial evidence reaches a commissioner's settlement.
NeedsSettlingAnyPrior(b, w) ==
  \E e \in Legs(b, w) \cap Observed(b) : b.leg[w][e].version # b.result[e].version

\* Some observed leg has not been graded at the observed version, and a
\* commissioner's settlement is not touched by partial evidence.
NeedsSettling(b, w) ==
  LET seen == Legs(b, w) \cap Observed(b)
  IN  /\ \E e \in seen : b.leg[w][e].version # b.result[e].version
      /\ HasPrior(b, w) /\ b.settled[w].manual => seen = Legs(b, w)

\* updateObservedLegs
GradeObservedLegs(b, w) ==
  [b EXCEPT !.leg[w] = [e \in Event |->
     IF e \in Legs(b, w) \cap Observed(b)
     THEN [grade |-> SystemGrades(b, w)[e], version |-> b.result[e].version]
     ELSE b.leg[w][e]]]

\* Fault: an early loss is never reopened by a partial correction.
NothingReopens(b, w) == FALSE

\* automaticPartialLoss: a system loss from fewer events than the ticket has.
PartialLoss(b, w) ==
  /\ HasPrior(b, w) /\ ~b.settled[w].manual /\ b.settled[w].outcome = "loss"
  /\ b.settled[w].evidence # Legs(b, w)

SystemOutcome(b, w) == GradeTicket(b.ticket[w], SystemGrades(b, w))
SystemProfit(b, w) == ProfitOf(b, w, SystemOutcome(b, w), SystemGrades(b, w))

\* Whether the postings of this wager go through (no NEGATIVE_ACCOUNT or
\* NEGATIVE_FLOAT is thrown).
CanSettle(b, w) ==
  LET g == GradeObservedLegs(b, w)
  IN  IF SystemOutcome(b, w) = "none"
      THEN PartialLoss(b, w) => CanReverse(g, w)
      ELSE CanReplace(g, w, SystemOutcome(b, w), SystemProfit(b, w))

Reopen(b, w) == [ReversePrior(b, w) EXCEPT !.status[w] = "open"]

SettleWager(b, w) ==
  LET g == GradeObservedLegs(b, w)
  IN  IF SystemOutcome(b, w) = "none"
      THEN IF PartialLoss(b, w) THEN Reopen(g, w) ELSE g
      ELSE Replace(g, w, SystemOutcome(b, w), SystemProfit(b, w), FALSE,
                   Legs(b, w) \cap Observed(b))

-----------------------------------------------------------------------------
(* Commands of the pool's commissioner and members.  Each is one storage   *)
(* transaction, so none runs while a settlement transaction is open.       *)

Idle == ~settling

Commit(b) ==
  /\ committed' = b
  /\ working'   = b
  /\ UNCHANGED <<todo, settling, feed, started>>

\* applyOrder through ExecuteShareOrder.  The command's quoted price and
\* version must equal the current ones, so an accepted order is priced now.
ExecuteShareOrder(o, m, mode, amount) ==
  LET b      == committed
      price  == SharePrice(b.float, b.notional)
      shares == OrderShares(mode, amount, price)
      value  == OrderValue(mode, amount, price)
  IN  /\ Idle /\ b.state = "active"
      /\ ~b.order[o].placed /\ \A p \in Order : p < o => b.order[p].placed
      /\ mode = "value" => price # 0        \* a zero price divides by zero
      /\ shares > 0 /\ value > 0
      /\ Commit([b EXCEPT
           !.available[m] = @ + shares,
           !.float        = @ + shares,
           !.notional     = @ + value,
           !.order[o]     = [member |-> m, shares |-> shares, value |-> value,
                             reverses |-> 0, placed |-> TRUE]])

Reversed(b, p) == \E o \in Order : b.order[o].placed /\ b.order[o].reverses = p

\* Fault: a reversal takes its shares' value at the current price.
ReversesAtCurrentPrice(o, p) ==
  LET b == committed
      m == b.order[p].member
      s == b.order[p].shares
      v == OrderValue("shares", s, SharePrice(b.float, b.notional))
  IN  /\ Idle /\ b.state = "active"
      /\ ~b.order[o].placed /\ \A q \in Order : q < o => b.order[q].placed
      /\ b.order[p].placed /\ ~Reversed(b, p)
      /\ b.available[m] >= s
      /\ b.float >= s /\ b.notional >= v
      /\ Commit([b EXCEPT
           !.available[m] = @ - s,
           !.float        = @ - s,
           !.notional     = @ - v,
           !.order[o]     = [member |-> m, shares |-> -s, value |-> -v,
                             reverses |-> p, placed |-> TRUE]])

\* reverseOrder: o is the new row, p the order it reverses.
ReverseShareOrder(o, p) ==
  LET b == committed
      m == b.order[p].member
      s == b.order[p].shares
      v == b.order[p].value
  IN  /\ Idle /\ b.state = "active"
      /\ ~b.order[o].placed /\ \A q \in Order : q < o => b.order[q].placed
      /\ b.order[p].placed /\ ~Reversed(b, p)
      /\ b.available[m] >= s
      /\ b.float >= s /\ b.notional >= v
      /\ Commit([b EXCEPT
           !.available[m] = @ - s,
           !.float        = @ - s,
           !.notional     = @ - v,
           !.order[o]     = [member |-> m, shares |-> -s, value |-> -v,
                             reverses |-> p, placed |-> TRUE]])

\* Open exposure of a member on one side of one event, in 1/LegScale micros.
Exposure(b, m, e, side) ==
  Total([w \in Wager |->
           IF /\ b.status[w] = "open" /\ b.owner[w] = m
              /\ e \in Legs(b, w) /\ b.ticket[w].picks[e] = side
           THEN b.risk[w] * (LegScale \div Cardinality(Legs(b, w)))
           ELSE 0], NWagers)

\* placeWager.  The offer was revalidated against D1 just before, which lists
\* only events without a terminal result.
PlaceWager(w, m, risk, t) ==
  LET b == committed
  IN  /\ Idle /\ b.state = "active"
      /\ b.status[w] = "none" /\ \A v \in Wager : v < w => b.status[v] # "none"
      /\ risk >= Unit /\ risk % Unit = 0
      /\ risk <= MaxSideBet
      /\ b.available[m] >= risk
      /\ DOMAIN t.picks \cap started = {}
      /\ \A e \in DOMAIN t.picks : feed[e].version = 0
      /\ \A e \in DOMAIN t.picks :
           Exposure(b, m, e, t.picks[e])
             + risk * (LegScale \div Cardinality(DOMAIN t.picks))
               <= MaxSideBet * LegScale
      /\ Commit([b EXCEPT
           !.available[m] = @ - risk,
           !.locked[m]    = @ + risk,
           !.status[w]    = "open",
           !.owner[w]     = m,
           !.risk[w]      = risk,
           !.ticket[w]    = t])

\* voidWager: an administrative refund of an open or settled wager.
VoidWager(w) ==
  LET b == committed
  IN  /\ Idle /\ b.state = "active" /\ b.status[w] # "none"
      /\ CanReplace(b, w, "refund", 0)
      /\ Commit(CloseEligible(Replace(b, w, "refund", 0, TRUE, {})))

\* correctWager: the commissioner grades every event of the ticket.  The legs
\* take the corrected grades and keep the provider version they had.
CorrectLegs(b, w, grades) ==
  [b EXCEPT !.leg[w] = [e \in Event |->
     IF e \in Legs(b, w) THEN [grade |-> grades[e], version |-> b.leg[w][e].version]
     ELSE b.leg[w][e]]]

RegradeWager(w, corrected) ==
  LET b       == committed
      grades  == Grades(b.ticket[w], Legs(b, w), corrected)
      outcome == GradeTicket(b.ticket[w], grades)
      profit  == ProfitOf(b, w, outcome, grades)
  IN  /\ Idle /\ b.state = "active" /\ b.status[w] # "none"
      /\ Legs(b, w) \subseteq started
      /\ CanReplace(b, w, outcome, profit)
      /\ Commit(CloseEligible(CorrectLegs(
           Replace(b, w, outcome, profit, TRUE, {}), w, grades)))

ConfirmSuperBowl ==
  /\ Idle /\ committed.state = "active" /\ ~committed.confirmed
  /\ Commit([committed EXCEPT !.confirmed = TRUE])

CloseSeason ==
  /\ Idle /\ committed.state = "active"
  /\ Commit([committed EXCEPT !.state = "closed", !.reason = "commissioner_closed"])

-----------------------------------------------------------------------------
(* The settlement transaction of the alarm *)

\* Fault: the run visits the wagers of closed seasons too.
BeginInAnySeason(due) ==
  LET b == [committed EXCEPT !.result = [e \in Event |->
              IF e \in due /\ feed[e].version > 0 THEN feed[e] ELSE committed.result[e]]]
  IN  /\ Idle
      /\ working'  = b
      /\ todo'     = {w \in Placed(b) : NeedsSettling(b, w)}
      /\ settling' = TRUE
      /\ UNCHANGED <<committed, feed, started>>

\* Terminal results of the due events replace their snapshots; every wager of
\* an active season is a candidate.
BeginSettlement(due) ==
  LET b == [committed EXCEPT !.result = [e \in Event |->
              IF e \in due /\ feed[e].version > 0 THEN feed[e] ELSE committed.result[e]]]
  IN  /\ Idle
      /\ working'  = b
      /\ todo'     = IF b.state = "active"
                     THEN {w \in Placed(b) : NeedsSettling(b, w)} ELSE {}
      /\ settling' = TRUE
      /\ UNCHANGED <<committed, feed, started>>

SettleNext(w) ==
  /\ settling /\ w \in todo
  /\ CanSettle(working, w)
  /\ working' = SettleWager(working, w)
  /\ todo'    = todo \ {w}
  /\ UNCHANGED <<committed, settling, feed, started>>

RollBack ==
  /\ working'  = committed
  /\ todo'     = {}
  /\ settling' = FALSE
  /\ UNCHANGED <<committed, feed, started>>

\* A posting throws and the whole run is rolled back.
SettlementThrows(w) == settling /\ w \in todo /\ ~CanSettle(working, w) /\ RollBack

\* The object is evicted, or the storage fails, before the commit.
Evicted == settling /\ RollBack

CommitSettlement ==
  /\ settling /\ todo = {}
  /\ working'   = CloseEligible(working)
  /\ committed' = CloseEligible(working)
  /\ settling'  = FALSE
  /\ UNCHANGED <<todo, feed, started>>

-----------------------------------------------------------------------------
(* The provider and the clock.  An open settlement transaction awaits        *)
(* nothing and reads neither, so their steps are taken between transactions. *)

\* OddsIngestion publishes a first or corrected terminal result; before
\* kickoff an event can only be cancelled.
PublishResult(e, value) ==
  /\ Idle /\ feed[e].version < MaxVersion
  /\ e \in started \/ value = "cancelled"
  /\ feed' = [feed EXCEPT ![e] = [version |-> @.version + 1, value |-> value]]
  /\ UNCHANGED <<committed, working, todo, settling, started>>

KickOff(e) ==
  /\ Idle /\ e \notin started
  /\ started' = started \cup {e}
  /\ UNCHANGED <<committed, working, todo, settling, feed>>

-----------------------------------------------------------------------------
(* Specification *)

Init ==
  /\ committed = EmptyBook /\ working = EmptyBook
  /\ todo = {} /\ settling = FALSE
  /\ feed = [e \in Event |-> NoResult]
  /\ started = {}

Command ==
  \/ \E o \in Order, m \in Member, mode \in {"shares", "value"}, a \in Amount :
       ExecuteShareOrder(o, m, mode, a)
  \/ \E o, p \in Order : ReverseShareOrder(o, p)
  \/ \E w \in Wager, m \in Member, r \in Risk, t \in Ticket : PlaceWager(w, m, r, t)
  \/ \E w \in Wager : VoidWager(w)
  \/ \E w \in Wager : \E corrected \in [Legs(committed, w) -> Result] :
       RegradeWager(w, corrected)
  \/ ConfirmSuperBowl
  \/ CloseSeason

Settlement ==
  \/ \E due \in (SUBSET Event) \ {{}} : BeginSettlement(due)
  \/ \E w \in Wager : SettleNext(w)
  \/ \E w \in Wager : SettlementThrows(w)
  \/ Evicted
  \/ CommitSettlement

Environment ==
  \/ \E e \in Event, v \in Result : PublishResult(e, v)
  \/ \E e \in Event : KickOff(e)

Next == Command \/ Settlement \/ Environment

Spec == Init /\ [][Next]_vars
-----------------------------------------------------------------------------
(* Properties *)

Books == {committed, working}

Book ==
  [ state     : {"active", "closed"},
    reason    : {"none", "float_exhausted", "super_bowl_final", "commissioner_closed"},
    confirmed : BOOLEAN,
    available : [Member -> Nat],
    locked    : [Member -> Nat],
    float     : Int,
    notional  : Int,
    lossEntry : BOOLEAN,
    order     : [Order -> [member : Member, shares : Int, value : Int,
                           reverses : {0} \cup Order, placed : BOOLEAN]],
    status    : [Wager -> {"none", "open", "won", "lost", "refunded"}],
    owner     : [Wager -> Member],
    risk      : [Wager -> Risk \cup {0}],
    ticket    : [Wager -> Ticket \cup {NoTicket}],
    leg       : [Wager -> [Event -> [grade : {"none", "win", "loss", "push", "void"},
                                     version : Nat]]],
    settled   : [Wager -> [outcome : {"none", "win", "loss", "refund"},
                           return : Nat, profit : Nat, manual : BOOLEAN,
                           evidence : SUBSET Event]],
    result    : [Event -> [version : Nat, value : Result]] ]

\* Types of the rows: account balances are never negative, whatever sequence of
\* orders, placements, settlements, regrades and voids produced them.
TypeOK ==
  /\ Books \subseteq Book
  /\ todo \subseteq Wager /\ settling \in BOOLEAN
  /\ feed \in [Event -> [version : Nat, value : Result]]
  /\ started \subseteq Event

\* The season's float is exactly the shares its members hold, free or locked:
\* settlements mint and destroy float only together with a balance.
Conserved(b) ==
  b.float = Total(b.available, NMembers) + Total(b.locked, NMembers)
FloatIsHoldings == \A b \in Books : Conserved(b)

OpenRisk(b, m) ==
  Total([w \in Wager |-> IF b.status[w] = "open" /\ b.owner[w] = m
                         THEN b.risk[w] ELSE 0], NWagers)

\* Every member's locked balance is the risk of the member's open wagers, once
\* each: reversals, reopened tickets and voids release or re-lock exactly that.
LockedIsOpenRisk == \A b \in Books : \A m \in Member : b.locked[m] = OpenRisk(b, m)

\* The status members see and the settlement row that explains it agree, and the
\* row returned what its outcome pays on the accepted risk.
StatusExplained(b) ==
  \A w \in Wager :
    LET s == b.settled[w]
    IN  /\ s.outcome = "none" <=> b.status[w] \in {"none", "open"}
        /\ s.outcome # "none" =>
             /\ b.status[w] = StatusOf(s.outcome)
             /\ s.return = Return(b.risk[w], s.outcome, s.profit)
StatusMatchesSettlement == \A b \in Books : StatusExplained(b)

\* The season's notional value is what the orders that still stand were sold for:
\* a reversal takes back its order's value, whatever the price has become since.
StandingValue(b) ==
  [o \in Order |-> IF b.order[o].placed /\ ~Reversed(b, o) /\ b.order[o].value > 0
                   THEN b.order[o].value ELSE 0]
NotionalIsSold(b) == b.notional = Total(StandingValue(b), NOrders)

NotionalIsOrders == \A b \in Books : NotionalIsSold(b)

\* The NEGATIVE_FLOAT test of applyLedger and the ORDER_REVERSAL_NEGATIVE_TOTAL
\* test of reverseOrder never decide: a posting the account can carry, the
\* season's totals can carry too.
TotalsFollowAccounts ==
  \A b \in Books :
    /\ \A w \in Placed(b) :
         IF HasPrior(b, w)
         THEN b.available[b.owner[w]] >= b.settled[w].return
                => b.float + ReversalFloat(b, w) >= 0
         ELSE b.float >= b.risk[w]
    /\ \A o \in Order :
         b.order[o].placed /\ ~Reversed(b, o)
           => /\ b.available[b.order[o].member] >= b.order[o].shares
                   => b.float >= b.order[o].shares
              /\ b.notional >= b.order[o].value

\* The season's totals, balances, open risk and orders agree, and none of its
\* postings is refused for a total that its account could carry.
BooksBalance ==
  FloatIsHoldings /\ LockedIsOpenRisk /\ NotionalIsOrders /\ TotalsFollowAccounts

\* Between transactions a wager that no commissioner corrected stands exactly
\* where the newest evidence it was graded on puts it: whatever order results and
\* corrections arrived in, a decided ticket is not open, an undecided one is not
\* settled, and no outcome of superseded evidence survives.
EvidenceDecides ==
  \A w \in Placed(committed) :
    LET b    == committed
        seen == Legs(b, w) \cap Observed(b)
    IN  /\ ~b.settled[w].manual
        /\ \A e \in seen : b.leg[w][e].version = b.result[e].version
        => b.settled[w].outcome = SystemOutcome(b, w)

\* A season that closed by itself owes nothing: no wager is open, no share is
\* locked, every leg of a teaser or parlay has its grade, and after
\* "float_exhausted" nobody holds a share.
AutoClosureIsFinal ==
  committed.reason \in {"float_exhausted", "super_bowl_final"} =>
    /\ committed.state = "closed"
    /\ \A w \in Placed(committed) : committed.status[w] # "open"
    /\ \A w \in Placed(committed) :
         committed.ticket[w].kind # "straight" =>
           \A e \in Legs(committed, w) : committed.leg[w][e].grade # "none"
    /\ \A m \in Member : committed.locked[m] = 0
    /\ committed.reason = "float_exhausted" =>
         \A m \in Member : committed.available[m] = 0

\* A commissioner's settlement gives way only to another commissioner command
\* or, in a settlement run, to a complete set of results of which at least one
\* is new to the ticket.
ManualStands ==
  [][\A w \in Wager :
       (/\ working.settled[w].manual
        /\ working'.settled[w] # working.settled[w]
        /\ settling)
       => /\ Legs(working, w) \subseteq Observed(working)
          /\ \E e \in Legs(working, w) :
               working.leg[w][e].version # working.result[e].version]_vars

\* Nothing in a closed season's accounts, orders, wagers or settlements changes
\* again: late results, corrections and commands leave them alone.
ClosedIsFrozen ==
  [][committed.state = "closed" =>
       [committed' EXCEPT !.result = committed.result] = committed]_vars

\* An order is priced fairly to the shares already held: apart from rounding, a
\* purchase leaves the price it was made at.  (The first purchase into an empty
\* float sets its own price.)
PriceUndiluted ==
  [][LET before == SharePrice(committed.float, committed.notional)
         after  == SharePrice(committed'.float, committed'.notional)
     IN  /\ committed.float > 0
         /\ \E o \in Order : /\ ~committed.order[o].placed
                            /\ committed'.order[o].placed
                            /\ committed'.order[o].reverses = 0
         => 2 * Magnitude(after - before) * committed'.float
              <= committed.float + committed'.float
                   + (IF before > Unit THEN before ELSE Unit)]_vars

(* The inductive invariant (SeasonLedgerProofs).  Inside one transaction a    *)
(* wager can be without a settlement while its status still says how the last  *)
(* one ended, so what is preserved by every helper, Sound, counts the risk of  *)
(* the wagers without a settlement; StatusExplained holds of whole steps only. *)

RowsPlaced(b) ==
  \A w \in Placed(b) : b.risk[w] \in Risk /\ b.ticket[w] \in Ticket

OutcomesPaid(b) ==
  \A w \in Wager : HasPrior(b, w) =>
    /\ b.status[w] # "none"
    /\ b.settled[w].return = Return(b.risk[w], b.settled[w].outcome, b.settled[w].profit)

UnsettledRisk(b, m) ==
  [w \in Wager |-> IF b.status[w] # "none" /\ ~HasPrior(b, w) /\ b.owner[w] = m
                   THEN b.risk[w] ELSE 0]
ReversalsRefer(b) ==
  \A o \in Order : b.order[o].placed /\ b.order[o].reverses # 0
                    => b.order[b.order[o].reverses].placed

LockedIsUnsettled(b) ==
  \A m \in Member : b.locked[m] = Total(UnsettledRisk(b, m), NWagers)

Sound(b) ==
  /\ b \in Book
  /\ RowsPlaced(b) /\ OutcomesPaid(b) /\ ReversalsRefer(b)
  /\ Conserved(b) /\ LockedIsUnsettled(b) /\ NotionalIsSold(b)

\* Every book is sound and explains its statuses; a run visits placed wagers.
LedgerInvariant ==
  /\ \A b \in Books : Sound(b) /\ StatusExplained(b)
  /\ todo \subseteq Placed(working) /\ settling \in BOOLEAN
  /\ ~settling => todo = {}
  /\ feed \in [Event -> [version : Nat, value : Result]]
  /\ started \subseteq Event

\* The balance of w's owner after the replacement, reversal and return netted.
NetReturn(b, w) ==
  Return(b.risk[w], SystemOutcome(b, w), SystemProfit(b, w)) - b.settled[w].return

\* "atomically reverse the prior settlement and apply the replacement result"
\* and refuse only "any action that would produce a negative available or
\* locked balance" (the design document): a replacement whose net effect the
\* account can carry does not throw.
NetAffordableSettles ==
  \A w \in todo :
    LET b == working
    IN  /\ HasPrior(b, w) /\ SystemOutcome(b, w) # "none"
        /\ b.available[b.owner[w]] + NetReturn(b, w) >= 0
        => CanSettle(b, w)

=============================================================================
