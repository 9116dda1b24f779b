------------------------------- MODULE Standings -------------------------------
(***************************************************************************)
(* Standings of a season, and their change week by week: both are computed *)
(* on every read, the first from the accounts and the season's row, the    *)
(* second rebuilt from the immutable ledger and order history between the  *)
(* Pacific Tuesdays of the betting calendar.                               *)
(*                                                                         *)
(* Time is in hours, hour 0 a Tuesday at 00:00 UTC.  The Pacific offset is *)
(* seven hours, eight between FallBack and SpringForward (two Sundays).    *)
(* Amounts are micro-units of FixedPoint.  A ledger row that undoes a      *)
(* settlement names the wager here, the settlement in the code.            *)
(***************************************************************************)
EXTENDS FixedPoint, Totals, FiniteSetsExt, Sequences

CONSTANTS
  Holder, Nobody, \* members with an account in the season, and the owner of no wager
  Bet,         \* wagers: numbers, as orders are, for their ids may be equal
  Stake,       \* the risk of a wager
  Yield,       \* the profit of a won wager
  Purchase,    \* values of share orders
  Instant,     \* the hours at which something may be posted
  FallBack, SpringForward,
  Calendar,    \* the hours on which the calendar itself is checked
  MaxPosted    \* bound on ledger rows

ASSUME StandingsAssumption ==
  /\ Stake \in Nat \ {0} /\ Yield \in Nat /\ Purchase \subseteq Nat \ {0} /\ MaxPosted \in Nat
  /\ Instant \subseteq Nat /\ Instant # {} /\ Bet \subseteq Nat
  /\ FallBack \in Nat /\ SpringForward \in Nat /\ FallBack < SpringForward
  /\ Calendar # {} /\ IsFiniteSet(Calendar) /\ Calendar = 0..Cardinality(Calendar) - 1

VARIABLES
  hour,  \* the clock
  book   \* the season's rows: posted (ledger_entry) and orders (share_order), oldest
         \* first, bets (wager: owner, status, hour of confirmation), account
         \* (share_account), and the season's float, notional value and opening

standingsVars == <<hour, book>>

-----------------------------------------------------------------------------
(* The betting week.                                                       *)
Hours == 24
Week  == 7 * Hours

First(S) == CHOOSE x \in S : \A y \in S : x <= y

ptOffset(t) == IF t >= FallBack /\ t < SpringForward THEN -8 ELSE -7

Wall(t) == t + ptOffset(t)

\* The clocks change on a Sunday, and hour 0 is in summer, as the anchor of Week 1 is.
ASSUME CalendarAssumption ==
  {FallBack % Week, SpringForward % Week} \subseteq 5 * Hours..6 * Hours - 1 /\ FallBack > 0

\* Midnight Pacific of the day on which wall-clock hour w falls.
ptMidnightUtc(w) == LET midnight == (w \div Hours) * Hours IN midnight - ptOffset(midnight)

\* Fault: the week starts a multiple of 24 hours before the present day does.
WeekStartInHours(t) ==
  LET midnight == (Wall(t) \div Hours) * Hours - ptOffset(t)
  IN  midnight - ((Wall(t) \div Hours) % 7) * Hours

\* Hour 0 is a Tuesday: the remainder counts the days since the last one.
weekStartOf(t) == ptMidnightUtc(Wall(t) - ((Wall(t) \div Hours) % 7) * Hours)

nextWeekStart(start) == ptMidnightUtc(Wall(start) + Week)

bettingOpensAt(t) == weekStartOf(t) + 10

isBettingOpen(t) == t >= bettingOpensAt(t)

inWeek(t, start) == weekStartOf(t) = start

weekNumber(start, anchor) == (start - anchor) \div Week + 1

-----------------------------------------------------------------------------
(* Postings, as SeasonLedger makes them.                                   *)
NoBet    == [owner |-> Nobody, status |-> "none", at |-> 0]

StandingsInit ==
  /\ hour = First(Instant)
  /\ book = [posted |-> <<>>, orders |-> <<>>, bets |-> [x \in Bet |-> NoBet],
             account |-> [h \in Holder |-> [available |-> 0, locked |-> 0]],
             float |-> 0, notional |-> 0, opened |-> hour]

ClockMoves ==
  /\ {t \in Instant : t > hour} # {}
  /\ hour' = First({t \in Instant : t > hour})
  /\ UNCHANGED book

Entry(h, kind, cause, available, locked, float, notional) ==
  [at |-> hour, holder |-> h, kind |-> kind, cause |-> cause, available |-> available,
   locked |-> locked, float |-> float, notional |-> notional]

\* The sum of a column over a history; and over the rows of one member.
Sum(rows, column(_)) == Total([k \in 1..Len(rows) |-> column(rows[k])], Len(rows))

SumOf(h, rows, column(_)) == Sum(rows, LAMBDA r : IF r.holder = h THEN column(r) ELSE 0)

\* The sum of the values of a function.
Added(f) == FoldFunction(+, 0, f)

\* Rows and the balances they move are written in one transaction.
Posting(b, rows) ==
  [b EXCEPT !.posted   = @ \o rows,
            !.account  = [h \in Holder |->
              [available |-> @[h].available + SumOf(h, rows, LAMBDA r : r.available),
               locked    |-> @[h].locked + SumOf(h, rows, LAMBDA r : r.locked)]],
            !.float    = @ + Sum(rows, LAMBDA r : r.float),
            !.notional = @ + Sum(rows, LAMBDA r : r.notional)]

Write(b) ==
  /\ Len(b.posted) <= MaxPosted
  /\ b.float >= 0 /\ \A h \in Holder : b.account[h].available >= 0 /\ b.account[h].locked >= 0
  /\ book' = b
  /\ UNCHANGED hour

\* An order of a given value, at the price of the moment.
PostOrder(h, value) ==
  LET price  == SharePrice(book.float, book.notional)
      shares == OrderShares("value", value, price)
      row    == Entry(h, "share_order", Len(book.orders) + 1, shares, 0, shares, value)
  IN  /\ price > 0
      /\ Write([Posting(book, <<row>>) EXCEPT
                 !.orders = Append(@, [at |-> hour, holder |-> h, value |-> value])])

PostLock(h, x) ==
  /\ isBettingOpen(hour) /\ book.bets[x].status = "none"
  /\ Write([Posting(book, <<Entry(h, "wager_lock", x, -Stake, Stake, 0, 0)>>) EXCEPT
             !.bets[x] = [owner |-> h, status |-> "open", at |-> hour]])

Settled(x, status) ==
  Entry(book.bets[x].owner, "settlement", x,
        CASE status = "won" -> Stake + Yield [] status = "lost" -> 0 [] status = "refunded" -> Stake,
        -Stake,
        CASE status = "won" -> Yield [] status = "lost" -> -Stake [] status = "refunded" -> 0, 0)

Undone(x) ==
  [Settled(x, book.bets[x].status) EXCEPT
     !.kind = "settlement_reversal", !.available = -@, !.locked = -@, !.float = -@]

\* Regrading undoes what stands, as a balance may not allow, and then applies.
PostSettlement(x, status) ==
  /\ book.bets[x].status \notin {"none", status}
  /\ Write([Posting(book, (IF book.bets[x].status = "open" THEN <<>> ELSE <<Undone(x)>>)
                            \o <<Settled(x, status)>>) EXCEPT !.bets[x].status = status])

\* An early loss whose evidence was corrected away.
PostReopen(x) ==
  /\ book.bets[x].status = "lost"
  /\ Write([Posting(book, <<Undone(x)>>) EXCEPT !.bets[x].status = "open"])

StandingsNext ==
  \/ ClockMoves
  \/ \E h \in Holder : \/ \E value \in Purchase : PostOrder(h, value)
                       \/ \E x \in Bet : PostLock(h, x)
  \/ \E x \in Bet : \/ PostReopen(x)
                    \/ \E status \in {"won", "lost", "refunded"} : PostSettlement(x, status)

StandingsSpec == StandingsInit /\ [][StandingsNext]_standingsVars

-----------------------------------------------------------------------------
(* The two reads of a book b at time now.                                  *)
Holdings(b, h) == b.account[h].available + b.account[h].locked

Worth(holdings, price) == DivideRoundHalfEven(holdings * price, Unit)

IssuedBy(b, h, cutoff) == SumOf(h, b.orders, LAMBDA o : IF o.at < cutoff THEN o.value ELSE 0)

\* A stake counts from its confirmation on, unless it was refunded since.
RiskedBy(b, h, from, to) ==
  Stake * Cardinality({x \in Bet : /\ b.bets[x].status \in {"open", "won", "lost"}
                                   /\ b.bets[x].owner = h
                                   /\ from <= b.bets[x].at /\ b.bets[x].at < to})

\* standings: the gain of a member, from the rows as they are.
gainMicros(b, now, h) ==
  Worth(Holdings(b, h), SharePrice(b.float, b.notional)) - IssuedBy(b, h, now + 1)

\* Fault: a lock is a loss until the wager is settled.
AvailableAfter(b, h, k) == SumOf(h, SubSeq(b.posted, 1, k), LAMBDA r : r.available)

HoldingsAfter(b, h, k) == SumOf(h, SubSeq(b.posted, 1, k), LAMBDA r : r.available + r.locked)

\* The rows at which a member's holdings were what they are now: ties in gain and
\* holdings are broken by the first of them.
Attained(b, h) ==
  {k \in 1..Len(b.posted) : b.posted[k].holder = h /\ HoldingsAfter(b, h, k) = Holdings(b, h)}

\* Fault: rows are excluded by their cause alone, which order ids share.
ExcludedByCause(b, r) == r.cause \in Bet /\ b.bets[r.cause].status = "refunded"

\* A wager refunded at present leaves no row of its own in any week.
Excluded(b, r) ==
  /\ r.kind \in {"wager_lock", "settlement", "settlement_reversal"}
  /\ b.bets[r.cause].status = "refunded"

\* The sum of a column over the rows before a cutoff that are not excluded.
SumBefore(b, cutoff, column(_)) ==
  Sum(b.posted, LAMBDA r : IF r.at < cutoff /\ ~Excluded(b, r) THEN column(r) ELSE 0)

HoldingsBefore(b, h, cutoff) ==
  SumBefore(b, cutoff, LAMBDA r : IF r.holder = h THEN r.available + r.locked ELSE 0)

\* Fault: a week's snapshot is priced as the season is now.
GainAtPresentPrice(b, h, cutoff) ==
  Worth(HoldingsBefore(b, h, cutoff), SharePrice(b.float, b.notional)) - IssuedBy(b, h, cutoff)

\* gainsAt: a member's gain as the season stood before a cutoff.
gainAt(b, h, cutoff) ==
  LET price == SharePrice(SumBefore(b, cutoff, LAMBDA r : r.float),
                          SumBefore(b, cutoff, LAMBDA r : r.notional))
  IN  Worth(HoldingsBefore(b, h, cutoff), price) - IssuedBy(b, h, cutoff)

\* From the week the season opened in to the current one.
WeeksShown(b, now) ==
  LET last == (now - b.opened) \div (Week - 1) + 1
      start[k \in 0..last] == IF k = 0 THEN weekStartOf(b.opened) ELSE nextWeekStart(start[k - 1])
  IN  {w \in {start[k] : k \in 0..last} : w <= weekStartOf(now)}

\* Fault: the live week ends before the present instant.
EndsNow(start, now) == IF start = weekStartOf(now) THEN now ELSE nextWeekStart(start)

\* The live week includes what was committed at this very instant.
EndOf(start, now) == IF start = weekStartOf(now) THEN now + 1 ELSE nextWeekStart(start)

\* standingWeeklyChanges
WeekOf(b, now, h, start) ==
  [gain   |-> gainAt(b, h, EndOf(start, now)) - gainAt(b, h, start),
   risked |-> RiskedBy(b, h, start, EndOf(start, now))]

-----------------------------------------------------------------------------
(* Properties.                                                             *)

\* The weeks of a season partition its time across both changes of the clock, a
\* week's Tuesday is its own, week numbers count up by one, and betting opens on
\* Tuesday at ten on the Pacific wall clock whatever the offset.
CalendarHolds ==
  book.posted = <<>> /\ {t \in Instant : t > hour} = {} => \A t \in Calendar :
    LET start == weekStartOf(t)
        first == weekStartOf(First(Calendar))
    IN  /\ start <= t /\ t < nextWeekStart(start)
        /\ inWeek(start, start) /\ inWeek(nextWeekStart(start), nextWeekStart(start))
        /\ Wall(start) % Week = 0
        /\ weekNumber(nextWeekStart(start), first) = weekNumber(start, first) + 1
        /\ isBettingOpen(t) <=> Wall(t) % Week >= 10

\* What the weeks say a member gained and risked adds up to the season's standings,
\* through orders between weeks, refunds and corrections; and the history accounts
\* for every balance, so that a tie can be broken.
WeeksAddUp ==
  \A h \in Holder :
    LET weeks == WeeksShown(book, hour)
    IN  /\ gainMicros(book, hour, h) = Added([w \in weeks |-> WeekOf(book, hour, h, w).gain])
        /\ RiskedBy(book, h, book.opened, hour + 1)
             = Added([w \in weeks |-> WeekOf(book, hour, h, w).risked])
        /\ (\E k \in 1..Len(book.posted) : book.posted[k].holder = h) => Attained(book, h) # {}

\* A week that is over is history: later orders and corrections leave its row as it
\* was, except when a wager becomes a refund or stops being one.
PastWeeksStand ==
  [][(\A x \in Bet : book.bets[x].status = "refunded" <=> book'.bets[x].status = "refunded") =>
       \A h \in Holder, start \in WeeksShown(book, hour) \ {weekStartOf(hour)} :
         WeekOf(book', hour', h, start) = WeekOf(book, hour, h, start)]_standingsVars

\* The weekly standings are sound.
WeeklyStandingsHold == [](StandingsInit \/ (CalendarHolds /\ WeeksAddUp)) /\ PastWeeksStand
=============================================================================
