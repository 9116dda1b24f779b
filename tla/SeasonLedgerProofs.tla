------------------------- MODULE SeasonLedgerProofs -------------------------
(***************************************************************************)
(* Proofs about SeasonLedger: the ledger of a season stays sound through   *)
(* every order, placement, settlement, reopening, regrade, void and crash, *)
(* for any number of members, wagers, orders and events.                   *)
(*                                                                         *)
(* The first part is about sums, the next about what settlement decides,   *)
(* then about WagerViews, what is shown of the wagers of a season, and     *)
(* about Standings, what its members gained, week by week.                 *)
(* The library's induction theorems take a predicate as a parameter;       *)
(* SetInduction does without, from the well-foundedness of < on the        *)
(* naturals, and FiniteInduction likewise for finite sets.                 *)
(***************************************************************************)
EXTENDS SeasonLedger, WagerViews, FiniteSetTheorems, SequenceTheorems, TLAPS, WellFoundedInduction

(* Sums *)

\* Every nonempty set of naturals has a least element.
LEMMA LeastNatural ==
  ASSUME NEW T, T \subseteq Nat, T # {}
  PROVE  \E x \in T : \A y \in T : x <= y
<1> DEFINE R == {ss \in Nat \X Nat : ss[1] < ss[2]}
<1>1. IsWellFoundedOn(R, Nat)
  BY NatLessThanWellFounded, Zenon DEF OpToRel
<1>2. \A x, y \in Nat : x < y => <<x, y>> \in R
  OBVIOUS
<1> HIDE DEF R
<1>3. \E x \in T : \A y \in T : ~ (<<y, x>> \in R)
  BY <1>1, WFMin
<1>4. PICK x \in T : \A y \in T : ~ (<<y, x>> \in R) BY <1>3
<1>5. \A y \in T : ~ (y < x) BY <1>2, <1>4
<1>6. \A y \in T : x \in Int /\ y \in Int BY <1>4
<1> QED BY <1>4, <1>5, <1>6

\* Induction over the naturals for a set instead of a predicate.
LEMMA SetInduction ==
  ASSUME NEW S, 0 \in S, \A k \in Nat : k \in S => k + 1 \in S
  PROVE  Nat \subseteq S
<1> DEFINE T == Nat \ S
<1> SUFFICES ASSUME T # {} PROVE FALSE OBVIOUS
<1>1. T \subseteq Nat OBVIOUS
<1>2. PICK x \in T : \A y \in T : x <= y
  <2> HIDE DEF T
  <2> QED BY <1>1, LeastNatural
<1>3. x \in Nat /\ x # 0 /\ x \notin S BY <1>2
<1>4. x - 1 \in Nat /\ x - 1 \notin T
  <2> HIDE DEF T
  <2> QED BY <1>2, <1>3
<1>5. x - 1 \in S BY <1>4
<1>6. (x - 1) + 1 \in S BY <1>4, <1>5
<1> QED BY <1>3, <1>6

SumsTo(f, t, m) == t = [k \in 0..m |-> IF k = 0 THEN 0 ELSE t[k-1] + f[k]]

\* A table of running totals extends by one place.
LEMMA SumsToNext ==
  ASSUME NEW f, NEW m \in Nat, m # 0, NEW t, SumsTo(f, t, m-1)
  PROVE  SumsTo(f, [k \in 0..m |-> IF k = m THEN t[m-1] + f[m] ELSE t[k]], m)
<1> DEFINE u == [k \in 0..m |-> IF k = m THEN t[m-1] + f[m] ELSE t[k]]
<1>1. ASSUME NEW k \in 0..m PROVE u[k] = IF k = 0 THEN 0 ELSE u[k-1] + f[k]
  <2>1. CASE k = m BY <2>1
  <2>2. CASE k # m
    <3>1. k \in 0..m-1 BY <2>2
    <3>2. t[k] = IF k = 0 THEN 0 ELSE t[k-1] + f[k] BY <3>1 DEF SumsTo
    <3> QED BY <3>1, <3>2, <2>2
  <2> QED BY <2>1, <2>2
<1> QED BY <1>1 DEF SumsTo

\* Every row of numbers has a table of running totals.
LEMMA SumsExist ==
  ASSUME NEW n \in Nat, NEW f
  PROVE  \E t : SumsTo(f, t, n)
<1> DEFINE S == {m \in Nat : \E t : SumsTo(f, t, m)}
<1>1. 0 \in S
  <2>1. SumsTo(f, [k \in 0..0 |-> 0], 0) BY DEF SumsTo
  <2> QED BY <2>1
<1>2. ASSUME NEW m \in Nat, m \in S PROVE m + 1 \in S
  <2>1. PICK t : SumsTo(f, t, m) BY <1>2
  <2>2. PICK j \in Nat : j = m + 1 /\ j # 0 /\ j - 1 = m OBVIOUS
  <2>3. SumsTo(f, t, j-1) BY <2>1, <2>2
  <2>4. \E u : SumsTo(f, u, j) BY <2>2, <2>3, SumsToNext, Zenon
  <2> QED BY <2>2, <2>4
<1> HIDE DEF S
<1>3. n \in S BY <1>1, <1>2, SetInduction
<1> QED BY <1>3 DEF S

\* The recursive equations of RunningTotals.
LEMMA RunningTotalsStep ==
  ASSUME NEW n \in Nat, NEW f
  PROVE  /\ RunningTotals(f, n)[0] = 0
         /\ \A k \in 1..n : RunningTotals(f, n)[k] = RunningTotals(f, n)[k-1] + f[k]
<1>1. SumsTo(f, RunningTotals(f, n), n)
  <2>1. RunningTotals(f, n) = CHOOSE t : SumsTo(f, t, n)
    BY DEF RunningTotals, SumsTo
  <2> QED BY <2>1, SumsExist
<1> HIDE DEF RunningTotals
<1>2. \A k \in 0..n : RunningTotals(f, n)[k] =
                        IF k = 0 THEN 0 ELSE RunningTotals(f, n)[k-1] + f[k]
  BY <1>1 DEF SumsTo
<1> QED BY <1>2

\* A sum of integers is an integer.
LEMMA TotalType ==
  ASSUME NEW n \in Nat, NEW f \in [1..n -> Int]
  PROVE  Total(f, n) \in Int
<1> DEFINE r == RunningTotals(f, n)
           S == {k \in Nat : k <= n => r[k] \in Int}
<1>0. r[0] = 0 /\ \A k \in 1..n : r[k] = r[k-1] + f[k] BY RunningTotalsStep
<1> HIDE DEF r
<1>1. 0 \in S BY <1>0
<1>2. ASSUME NEW k \in Nat, k \in S PROVE k + 1 \in S
  <2> SUFFICES ASSUME k + 1 <= n PROVE r[k+1] \in Int OBVIOUS
  <2>1. k + 1 \in 1..n /\ (k + 1) - 1 = k /\ r[k] \in Int BY <1>2
  <2>2. r[k+1] = r[k] + f[k+1] /\ f[k+1] \in Int BY <1>0, <2>1
  <2> QED BY <2>1, <2>2
<1>3. n \in S
  <2> HIDE DEF S
  <2> QED BY <1>1, <1>2, SetInduction
<1> QED BY <1>3 DEF r, Total

\* A sum of zeros is zero.
LEMMA TotalOfZeros ==
  ASSUME NEW n \in Nat, NEW f, \A i \in 1..n : f[i] = 0
  PROVE  Total(f, n) = 0
<1> DEFINE r == RunningTotals(f, n)
           S == {k \in Nat : k <= n => r[k] = 0}
<1>0. r[0] = 0 /\ \A k \in 1..n : r[k] = r[k-1] + f[k] BY RunningTotalsStep
<1> HIDE DEF r
<1>1. 0 \in S BY <1>0
<1>2. ASSUME NEW k \in Nat, k \in S PROVE k + 1 \in S
  <2> SUFFICES ASSUME k + 1 <= n PROVE r[k+1] = 0 OBVIOUS
  <2>1. k + 1 \in 1..n /\ (k + 1) - 1 = k /\ r[k] = 0 BY <1>2
  <2>2. r[k+1] = r[k] + f[k+1] /\ f[k+1] = 0 BY <1>0, <2>1
  <2> QED BY <2>1, <2>2
<1>3. n \in S
  <2> HIDE DEF S
  <2> QED BY <1>1, <1>2, SetInduction
<1> QED BY <1>3 DEF r, Total

\* A sum of naturals is a natural and bounds each of its terms.
LEMMA TotalBounds ==
  ASSUME NEW n \in Nat, NEW f \in [1..n -> Nat], NEW i \in 1..n
  PROVE  Total(f, n) \in Nat /\ f[i] <= Total(f, n)
<1> DEFINE r == RunningTotals(f, n)
           S == {k \in Nat : k <= n => r[k] \in Nat /\ (i <= k => f[i] <= r[k])}
<1>0. r[0] = 0 /\ \A k \in 1..n : r[k] = r[k-1] + f[k] BY RunningTotalsStep
<1> HIDE DEF r
<1>1. 0 \in S BY <1>0
<1>2. ASSUME NEW k \in Nat, k \in S PROVE k + 1 \in S
  <2> SUFFICES ASSUME k + 1 <= n
               PROVE  r[k+1] \in Nat /\ (i <= k + 1 => f[i] <= r[k+1])
    OBVIOUS
  <2>1. k + 1 \in 1..n /\ (k + 1) - 1 = k OBVIOUS
  <2>2. r[k] \in Nat /\ (i <= k => f[i] <= r[k]) BY <1>2
  <2>3. r[k+1] = r[k] + f[k+1] /\ f[k+1] \in Nat BY <1>0, <2>1
  <2>4. CASE i = k + 1 BY <2>2, <2>3, <2>4
  <2>5. CASE i # k + 1 BY <2>2, <2>3, <2>5
  <2> QED BY <2>4, <2>5
<1>3. n \in S
  <2> HIDE DEF S
  <2> QED BY <1>1, <1>2, SetInduction
<1> QED BY <1>3 DEF r, Total

\* Replacing one term moves the sum by the difference.
LEMMA TotalUpdate ==
  ASSUME NEW n \in Nat, NEW f \in [1..n -> Int], NEW i \in 1..n, NEW x \in Int
  PROVE  Total([f EXCEPT ![i] = x], n) = Total(f, n) - f[i] + x
<1> DEFINE g == [f EXCEPT ![i] = x]
           r == RunningTotals(f, n)
           q == RunningTotals(g, n)
           S == {k \in Nat : k <= n => /\ r[k] \in Int
                                       /\ q[k] = IF i <= k THEN r[k] - f[i] + x ELSE r[k]}
<1>0. r[0] = 0 /\ \A k \in 1..n : r[k] = r[k-1] + f[k] BY RunningTotalsStep
<1>a. q[0] = 0 /\ \A k \in 1..n : q[k] = q[k-1] + g[k] BY RunningTotalsStep
<1>b. \A k \in 1..n : g[k] = IF k = i THEN x ELSE f[k] OBVIOUS
<1> HIDE DEF r, q, g
<1>1. 0 \in S BY <1>0, <1>a
<1>2. ASSUME NEW k \in Nat, k \in S PROVE k + 1 \in S
  <2> SUFFICES ASSUME k + 1 <= n
               PROVE  /\ r[k+1] \in Int
                      /\ q[k+1] = IF i <= k + 1 THEN r[k+1] - f[i] + x ELSE r[k+1]
    OBVIOUS
  <2>1. k + 1 \in 1..n /\ (k + 1) - 1 = k OBVIOUS
  <2>2. r[k] \in Int /\ q[k] = IF i <= k THEN r[k] - f[i] + x ELSE r[k] BY <1>2
  <2>3. r[k+1] = r[k] + f[k+1] /\ f[k+1] \in Int BY <1>0, <2>1
  <2>4. q[k+1] = q[k] + (IF k + 1 = i THEN x ELSE f[k+1]) BY <1>a, <1>b, <2>1
  <2>5. f[i] \in Int OBVIOUS
  <2>6. CASE i = k + 1 BY <2>2, <2>3, <2>4, <2>5, <2>6
  <2>7. CASE i # k + 1 BY <2>2, <2>3, <2>4, <2>5, <2>7
  <2> QED BY <2>6, <2>7
<1>3. n \in S
  <2> HIDE DEF S
  <2> QED BY <1>1, <1>2, SetInduction
<1> QED BY <1>3 DEF r, q, g, Total

\* Adding to one term adds as much to the sum.
LEMMA TotalAdd ==
  ASSUME NEW n \in Nat, NEW f \in [1..n -> Int], NEW i \in 1..n, NEW d \in Int
  PROVE  /\ Total(f, n) \in Int
         /\ Total([f EXCEPT ![i] = f[i] + d], n) = Total(f, n) + d
<1>1. Total(f, n) \in Int BY TotalType
<1>2. f[i] \in Int /\ f[i] + d \in Int OBVIOUS
<1>3. Total([f EXCEPT ![i] = f[i] + d], n) = Total(f, n) - f[i] + (f[i] + d)
  BY <1>2, TotalUpdate
<1> QED BY <1>1, <1>2, <1>3

\* The same for two rows compared term by term.
LEMMA TotalOfUpdated ==
  ASSUME NEW n \in Nat, NEW f \in [1..n -> Int], NEW g \in [1..n -> Int],
         NEW i \in 1..n, NEW d \in Int,
         \A k \in 1..n : g[k] = IF k = i THEN f[i] + d ELSE f[k]
  PROVE  Total(f, n) \in Int /\ Total(g, n) = Total(f, n) + d
<1>1. g = [f EXCEPT ![i] = f[i] + d] OBVIOUS
<1>2. Total(f, n) \in Int BY TotalType
<1>3. Total([f EXCEPT ![i] = f[i] + d], n) = Total(f, n) + d BY TotalAdd
<1> QED BY <1>1, <1>2, <1>3

-----------------------------------------------------------------------------
(* Postings *)

\* Updating one place of a function keeps its type.
LEMMA UpdateType ==
  ASSUME NEW S, NEW T, NEW f \in [S -> T], NEW i \in S, NEW x \in T
  PROVE  [f EXCEPT ![i] = x] \in [S -> T]
OBVIOUS

\* A row of naturals is a row of integers.
LEMMA NatAreIntRows ==
  ASSUME NEW S, NEW f \in [S -> Nat]
  PROVE  f \in [S -> Int]
OBVIOUS

\* The numeric columns of a book, with the row numbers spelled out.
LEMMA BookFields ==
  ASSUME NEW b \in Book
  PROVE  /\ b.available \in [Member -> Nat] /\ b.locked \in [Member -> Nat]
         /\ b.float \in Int /\ b.notional \in Int
         /\ b.owner \in [Wager -> Member]
         /\ b.risk \in [Wager -> Nat]
         /\ NMembers \in Nat /\ NWagers \in Nat /\ NOrders \in Nat
         /\ Member = 1..NMembers /\ Wager = 1..NWagers /\ Order = 1..NOrders
<1>1. Risk \cup {0} \subseteq Nat BY AmountAssumption
<1>2. b.risk \in [Wager -> Risk \cup {0}] BY DEF Book
<1>3. b.risk \in [Wager -> Nat] BY <1>1, <1>2
<1> QED BY <1>3, SizesAssumption DEF Book, Member, Wager, Order

\* c is b after a posting to w's owner.
Posted(b, c, w, available, locked, float) ==
  LET m == b.owner[w]
  IN  /\ c \in Book
      /\ m \in Member
      /\ b.available[m] + available \in Nat
      /\ b.locked[m] + locked \in Nat
      /\ c.available = [b.available EXCEPT ![m] = b.available[m] + available]
      /\ c.locked = [b.locked EXCEPT ![m] = b.locked[m] + locked]
      /\ c.float = b.float + float
      /\ c.notional = b.notional /\ c.order = b.order
      /\ c.status = b.status /\ c.owner = b.owner /\ c.risk = b.risk
      /\ c.ticket = b.ticket /\ c.leg = b.leg /\ c.settled = b.settled
      /\ c.result = b.result

\* A posting that applyLedger allows moves three amounts and nothing else.
LEMMA PostingFields ==
  ASSUME NEW b \in Book, NEW w \in Wager,
         NEW available \in Int, NEW locked \in Int, NEW float \in Int,
         LedgerAllows(b, w, available, locked, float)
  PROVE  Posted(b, ApplyLedger(b, w, available, locked, float), w, available, locked, float)
<1> DEFINE m == b.owner[w]
           av == [b.available EXCEPT ![m] = b.available[m] + available]
           lk == [b.locked EXCEPT ![m] = b.locked[m] + locked]
           fl == b.float + float
           c == [b EXCEPT !.available = av, !.locked = lk, !.float = fl]
<1>1. m \in Member /\ b.available[m] \in Nat /\ b.locked[m] \in Nat
  BY BookFields
<1>2. b.available[m] + available \in Nat /\ b.locked[m] + locked \in Nat
  BY <1>1 DEF LedgerAllows
<1>3. av \in [Member -> Nat] /\ lk \in [Member -> Nat] /\ fl \in Int
  <2>1. /\ b.available \in [Member -> Nat] /\ b.locked \in [Member -> Nat]
        /\ b.float \in Int BY BookFields
  <2> HIDE DEF m
  <2>2. av \in [Member -> Nat] BY <1>1, <1>2, <2>1, UpdateType
  <2>3. lk \in [Member -> Nat] BY <1>1, <1>2, <2>1, UpdateType
  <2> QED BY <2>1, <2>2, <2>3
<1>4. ApplyLedger(b, w, available, locked, float) = c
  BY DEF ApplyLedger
<1> HIDE DEF av, lk, fl, m
<1>5. c \in Book BY <1>3 DEF Book
<1>6. /\ c.available = av /\ c.locked = lk /\ c.float = fl
      /\ c.notional = b.notional /\ c.order = b.order
      /\ c.status = b.status /\ c.owner = b.owner /\ c.risk = b.risk
      /\ c.ticket = b.ticket /\ c.leg = b.leg /\ c.settled = b.settled
      /\ c.result = b.result
  BY DEF Book
<1> QED BY <1>1, <1>2, <1>4, <1>5, <1>6 DEF av, lk, fl, m, Posted

\* A posting whose balances add up to its float keeps the float equal to the
\* members' holdings.
LEMMA PostingConserves ==
  ASSUME NEW b \in Book, NEW w \in Wager,
         NEW available \in Int, NEW locked \in Int, NEW float \in Int,
         LedgerAllows(b, w, available, locked, float),
         available + locked = float, Conserved(b)
  PROVE  Conserved(ApplyLedger(b, w, available, locked, float))
<1> DEFINE c == ApplyLedger(b, w, available, locked, float)
           m == b.owner[w]
<1>1. /\ m \in Member
      /\ b.available[m] + available \in Nat
      /\ b.locked[m] + locked \in Nat
      /\ c.available = [b.available EXCEPT ![m] = b.available[m] + available]
      /\ c.locked = [b.locked EXCEPT ![m] = b.locked[m] + locked]
      /\ c.float = b.float + float
  <2>1. Posted(b, c, w, available, locked, float) BY PostingFields
  <2> QED BY <2>1 DEF Posted
<1>2. /\ NMembers \in Nat /\ m \in 1..NMembers
      /\ b.available \in [1..NMembers -> Int] /\ b.locked \in [1..NMembers -> Int]
      /\ b.available[m] \in Int /\ b.locked[m] \in Int /\ b.float \in Int
  <2>1. /\ NMembers \in Nat /\ Member = 1..NMembers /\ b.float \in Int
        /\ b.available \in [Member -> Nat] /\ b.locked \in [Member -> Nat]
    BY BookFields
  <2>2. b.available \in [1..NMembers -> Int] /\ b.locked \in [1..NMembers -> Int]
    BY <2>1, NatAreIntRows
  <2> HIDE DEF m
  <2> QED BY <1>1, <2>1, <2>2
<1> HIDE DEF c, m
<1>3. /\ Total(b.available, NMembers) \in Int
      /\ Total(c.available, NMembers) = Total(b.available, NMembers) + available
  <2>1. c.available = [b.available EXCEPT ![m] = b.available[m] + available] BY <1>1
  <2>2. Total(b.available, NMembers) \in Int BY <1>2, TotalType
  <2>3. Total([b.available EXCEPT ![m] = b.available[m] + available], NMembers)
          = Total(b.available, NMembers) + available
    BY <1>2, TotalAdd, Zenon
  <2> QED BY <2>1, <2>2, <2>3
<1>4. /\ Total(b.locked, NMembers) \in Int
      /\ Total(c.locked, NMembers) = Total(b.locked, NMembers) + locked
  <2>1. c.locked = [b.locked EXCEPT ![m] = b.locked[m] + locked] BY <1>1
  <2>2. Total(b.locked, NMembers) \in Int BY <1>2, TotalType
  <2>3. Total([b.locked EXCEPT ![m] = b.locked[m] + locked], NMembers)
          = Total(b.locked, NMembers) + locked
    BY <1>2, TotalAdd, Zenon
  <2> QED BY <2>1, <2>2, <2>3
<1>5. c.float = b.float + float BY <1>1
<1>6. b.float = Total(b.available, NMembers) + Total(b.locked, NMembers)
  BY DEF Conserved
<1>7. c.float = Total(c.available, NMembers) + Total(c.locked, NMembers)
  BY <1>3, <1>4, <1>5, <1>6
<1> QED BY <1>7 DEF Conserved, c

(* Locked balances follow the risk of the wagers without a settlement *)

\* The unsettled risk of a member is a row of naturals, one per wager.
LEMMA UnsettledType ==
  ASSUME NEW b \in Book, NEW m \in Member
  PROVE  /\ UnsettledRisk(b, m) \in [1..NWagers -> Nat]
         /\ \A w \in Wager : UnsettledRisk(b, m)[w] =
              IF b.status[w] # "none" /\ ~HasPrior(b, w) /\ b.owner[w] = m
              THEN b.risk[w] ELSE 0
<1>1. b.risk \in [Wager -> Nat] /\ Wager = 1..NWagers BY BookFields
<1> QED BY <1>1 DEF UnsettledRisk

\* Only wager w of member o and o's locked balance moved, both by d.
RowMoved(b, c, w, o, d) ==
  /\ c.owner[w] = o /\ (b.status[w] # "none" => b.owner[w] = o)
  /\ \A v \in Wager \ {w} : /\ c.owner[v] = b.owner[v] /\ c.risk[v] = b.risk[v]
                           /\ c.status[v] = b.status[v] /\ c.settled[v] = b.settled[v]
  /\ c.locked = [b.locked EXCEPT ![o] = b.locked[o] + d]
  /\ UnsettledRisk(c, o)[w] = UnsettledRisk(b, o)[w] + d

\* If one wager's unsettled risk and its owner's locked balance move by the same
\* amount, locked balances still add up.
LEMMA LockedFollowsRow ==
  ASSUME NEW b \in Book, NEW c \in Book, NEW w \in Wager, NEW o \in Member,
         NEW d \in Int, LockedIsUnsettled(b), RowMoved(b, c, w, o, d)
  PROVE  LockedIsUnsettled(c)
<1> SUFFICES ASSUME NEW m \in Member
             PROVE  c.locked[m] = Total(UnsettledRisk(c, m), NWagers)
  BY DEF LockedIsUnsettled
<1> DEFINE f == UnsettledRisk(b, m)
           g == UnsettledRisk(c, m)
<1>1. /\ f \in [1..NWagers -> Nat] /\ g \in [1..NWagers -> Nat]
      /\ f \in [1..NWagers -> Int] /\ Wager = 1..NWagers /\ NWagers \in Nat
      /\ w \in 1..NWagers
  BY UnsettledType, NatAreIntRows, BookFields
<1>2. \A v \in Wager : v # w => f[v] = g[v]
  <2>1. \A v \in Wager \ {w} : HasPrior(b, v) <=> HasPrior(c, v)
    BY DEF HasPrior, RowMoved
  <2> QED BY <2>1, UnsettledType DEF RowMoved
<1>3. b.locked \in [Member -> Nat] /\ b.locked[m] = Total(f, NWagers)
  BY BookFields DEF LockedIsUnsettled
<1>4. CASE m = o
  <2>1. g[w] = f[w] + d BY <1>4 DEF RowMoved
  <2> HIDE DEF f, g
  <2>2. \A k \in 1..NWagers : g[k] = IF k = w THEN f[w] + d ELSE f[k]
    BY <1>1, <1>2, <2>1
  <2>3. Total(f, NWagers) \in Int /\ Total(g, NWagers) = Total(f, NWagers) + d
    <3>1. NWagers \in Nat /\ w \in 1..NWagers BY <1>1
    <3>2. f \in [1..NWagers -> Int] /\ g \in [1..NWagers -> Int] BY <1>1
    <3> QED BY <2>2, <3>1, <3>2, TotalOfUpdated
  <2>4. c.locked[m] = b.locked[m] + d BY <1>3, <1>4 DEF RowMoved
  <2>5. c.locked[m] = Total(g, NWagers) BY <1>3, <2>2, <2>3, <2>4
  <2> QED BY <2>5 DEF g
<1>5. CASE m # o
  <2>1. f[w] = 0 /\ g[w] = 0 BY <1>5, UnsettledType DEF RowMoved
  <2> HIDE DEF f, g
  <2>2. f = g BY <1>1, <1>2, <2>1
  <2>3. c.locked[m] = b.locked[m] BY <1>3, <1>5 DEF RowMoved
  <2>4. c.locked[m] = Total(g, NWagers) BY <1>3, <2>2, <2>3
  <2> QED BY <2>4 DEF g
<1> QED BY <1>4, <1>5

\* Nothing that locks depends on is touched.
LEMMA LockedUntouched ==
  ASSUME NEW b, NEW c, LockedIsUnsettled(b),
         c.owner = b.owner, c.risk = b.risk, c.settled = b.settled, c.locked = b.locked,
         \A v \in Wager : c.status[v] # "none" <=> b.status[v] # "none"
  PROVE  LockedIsUnsettled(c)
<1>1. \A m \in Member : UnsettledRisk(c, m) = UnsettledRisk(b, m)
  BY DEF UnsettledRisk, HasPrior
<1> QED BY <1>1 DEF LockedIsUnsettled

(* The helpers of settlement.ts keep a book sound *)

\* Applying an outcome changes the float by return minus risk.
LEMMA OutcomeArithmetic ==
  ASSUME NEW risk \in Nat, NEW profit \in Nat, NEW outcome \in {"win", "loss", "refund"}
  PROVE  /\ Return(risk, outcome, profit) \in Nat
         /\ SettlementFloat(risk, outcome, profit) \in Int
         /\ Return(risk, outcome, profit) + (-risk) = SettlementFloat(risk, outcome, profit)
BY DEF Return, SettlementFloat

\* Undoing an outcome changes the float by risk minus return.
LEMMA ReversalArithmetic ==
  ASSUME NEW b \in Book, OutcomesPaid(b), NEW w \in Wager, HasPrior(b, w)
  PROVE  /\ b.settled[w].return \in Nat /\ b.risk[w] \in Nat
         /\ ReversalFloat(b, w) \in Int
         /\ (-b.settled[w].return) + b.risk[w] = ReversalFloat(b, w)
<1>1. /\ b.settled[w].outcome \in {"win", "loss", "refund"}
      /\ b.settled[w].return \in Nat /\ b.settled[w].profit \in Nat
  BY DEF Book, HasPrior
<1>2. b.risk[w] \in Nat BY BookFields
<1>3. b.settled[w].return = Return(b.risk[w], b.settled[w].outcome, b.settled[w].profit)
  BY DEF OutcomesPaid
<1> QED BY <1>1, <1>2, <1>3 DEF Return, ReversalFloat

\* c is b with the settlement of w undone.
PriorUndone(b, c, w) ==
  /\ Sound(c) /\ ~HasPrior(c, w)
  /\ c.status = b.status /\ c.risk = b.risk /\ c.ticket = b.ticket
  /\ c.leg = b.leg /\ c.result = b.result
  /\ c.settled = [b.settled EXCEPT ![w] = NoSettlement]

\* Undoing a settlement, when the account can carry it.
LEMMA ReversePriorSound ==
  ASSUME NEW b, Sound(b), NEW w \in Wager, HasPrior(b, w), CanReverse(b, w)
  PROVE  PriorUndone(b, ReversePrior(b, w), w)
<1> DEFINE x == -b.settled[w].return
           y == b.risk[w]
           z == ReversalFloat(b, w)
           p == ApplyLedger(b, w, x, y, z)
           c == [p EXCEPT !.settled[w] = NoSettlement]
<1>0. b \in Book /\ RowsPlaced(b) /\ OutcomesPaid(b) /\ Conserved(b)
      /\ LockedIsUnsettled(b) /\ NotionalIsSold(b) /\ ReversalsRefer(b)
  BY DEF Sound
<1>1. x \in Int /\ y \in Int /\ y \in Nat /\ z \in Int /\ x + y = z
  BY <1>0, ReversalArithmetic
<1>2. LedgerAllows(b, w, x, y, z) BY DEF CanReverse
<1>3. ReversePrior(b, w) = c BY DEF ReversePrior
<1> HIDE DEF x, y, z
<1>4. /\ p \in Book
      /\ p.locked = [b.locked EXCEPT ![b.owner[w]] = b.locked[b.owner[w]] + y]
      /\ p.notional = b.notional /\ p.order = b.order
      /\ p.status = b.status /\ p.owner = b.owner /\ p.risk = b.risk
      /\ p.ticket = b.ticket /\ p.leg = b.leg /\ p.settled = b.settled
      /\ p.result = b.result
  <2>1. Posted(b, p, w, x, y, z) BY <1>0, <1>1, <1>2, PostingFields
  <2> HIDE DEF p
  <2> QED BY <2>1 DEF Posted
<1>5. Conserved(p) BY <1>0, <1>1, <1>2, PostingConserves
<1> HIDE DEF p
<1>6. c \in Book BY <1>4 DEF Book, NoSettlement
<1>7. /\ c.available = p.available /\ c.locked = p.locked /\ c.float = p.float
      /\ c.notional = p.notional /\ c.order = p.order
      /\ c.status = p.status /\ c.owner = p.owner /\ c.risk = p.risk
      /\ c.ticket = p.ticket /\ c.leg = p.leg /\ c.result = p.result
      /\ c.settled = [p.settled EXCEPT ![w] = NoSettlement]
  BY <1>4 DEF Book
<1> HIDE DEF c
<1>8. ~HasPrior(c, w) /\ \A v \in Wager \ {w} : c.settled[v] = b.settled[v]
  <2>1. b.settled \in [Wager -> [outcome : {"none", "win", "loss", "refund"},
                                 return : Nat, profit : Nat, manual : BOOLEAN,
                                 evidence : SUBSET Event]]
    BY <1>0 DEF Book
  <2> QED BY <1>4, <1>7, <2>1 DEF HasPrior, NoSettlement
<1>9. Conserved(c) BY <1>5, <1>7 DEF Conserved
<1>10. NotionalIsSold(c) /\ ReversalsRefer(c)
  BY <1>0, <1>4, <1>7 DEF NotionalIsSold, StandingValue, Reversed, ReversalsRefer
<1>11. RowsPlaced(c) BY <1>0, <1>4, <1>7 DEF RowsPlaced, Placed
<1>12. OutcomesPaid(c)
  BY <1>0, <1>4, <1>7, <1>8 DEF OutcomesPaid, HasPrior
<1>13. LockedIsUnsettled(c)
  <2>1. UnsettledRisk(b, b.owner[w])[w] = 0
    <3>1. b.owner[w] \in Member BY <1>0, BookFields
    <3> QED BY <1>0, <3>1, UnsettledType
  <2>2. UnsettledRisk(c, b.owner[w])[w] = y
    <3>1. b.owner[w] \in Member /\ c.owner[w] = b.owner[w] /\ c.risk[w] = y
      BY <1>0, <1>4, <1>7, BookFields DEF y
    <3>2. c.status[w] # "none" BY <1>0, <1>4, <1>7 DEF OutcomesPaid
    <3> QED BY <1>6, <1>8, <3>1, <3>2, UnsettledType DEF c
  <2>3. RowMoved(b, c, w, b.owner[w], y)
    BY <1>1, <1>4, <1>7, <1>8, <2>1, <2>2 DEF RowMoved
  <2>4. b.owner[w] \in Member BY <1>0, BookFields
  <2> QED BY <1>0, <1>1, <1>6, <2>3, <2>4, LockedFollowsRow DEF c
<1> QED BY <1>3, <1>4, <1>6, <1>7, <1>8, <1>9, <1>10, <1>11, <1>12, <1>13 DEF Sound, PriorUndone, c

\* c is b with w settled.
SettledAs(b, c, w, outcome, profit, manual, evidence) ==
  /\ Sound(c)
  /\ c.ticket = b.ticket /\ c.leg = b.leg /\ c.result = b.result
  /\ c.risk = b.risk
  /\ c.status = [b.status EXCEPT ![w] = StatusOf(outcome)]
  /\ c.settled = [b.settled EXCEPT ![w] =
        [outcome |-> outcome, return |-> Return(b.risk[w], outcome, profit),
         profit |-> profit, manual |-> manual, evidence |-> evidence]]

\* Settling a wager that has no settlement, when the account can carry it.
LEMMA ApplySettlementSound ==
  ASSUME NEW b, Sound(b), NEW w \in Placed(b), ~HasPrior(b, w),
         NEW outcome \in {"win", "loss", "refund"}, NEW profit \in Nat,
         NEW manual \in BOOLEAN, NEW evidence \in SUBSET Event,
         CanApply(b, w, outcome, profit)
  PROVE  SettledAs(b, ApplySettlement(b, w, outcome, profit, manual, evidence),
                   w, outcome, profit, manual, evidence)
<1> DEFINE x == Return(b.risk[w], outcome, profit)
           y == -b.risk[w]
           z == SettlementFloat(b.risk[w], outcome, profit)
           row == [outcome |-> outcome, return |-> x,
                   profit |-> profit, manual |-> manual, evidence |-> evidence]
           st == StatusOf(outcome)
           p == ApplyLedger(b, w, x, y, z)
           loss == p.lossEntry \/ outcome = "loss"
           c == [p EXCEPT !.status[w] = st, !.settled[w] = row, !.lossEntry = loss]
<1>0. /\ b \in Book /\ RowsPlaced(b) /\ OutcomesPaid(b) /\ Conserved(b)
      /\ LockedIsUnsettled(b) /\ NotionalIsSold(b) /\ ReversalsRefer(b)
      /\ w \in Wager /\ b.status[w] # "none"
  BY DEF Sound, Placed
<1>1. b.risk[w] \in Nat BY <1>0, BookFields
<1>2. x \in Nat /\ x \in Int /\ y \in Int /\ z \in Int /\ x + y = z
  <2>1. x \in Nat /\ z \in Int /\ x + (-b.risk[w]) = z BY <1>1, OutcomeArithmetic, Zenon
  <2> QED BY <1>1, <2>1
<1>3. LedgerAllows(b, w, x, y, z) BY DEF CanApply
<1>4. ApplySettlement(b, w, outcome, profit, manual, evidence) = c
  BY DEF ApplySettlement
<1>5. st \in {"won", "lost", "refunded"} BY DEF StatusOf
<1>6. row \in [outcome : {"none", "win", "loss", "refund"}, return : Nat,
              profit : Nat, manual : BOOLEAN, evidence : SUBSET Event]
  BY <1>2
<1> HIDE DEF x, y, z, st
<1>7. Posted(b, p, w, x, y, z) BY <1>0, <1>2, <1>3, PostingFields
<1>8. Conserved(p) BY <1>0, <1>2, <1>3, PostingConserves
<1> HIDE DEF p, row
<1>9. p \in Book BY <1>7 DEF Posted
<1>10. loss \in BOOLEAN BY <1>9 DEF Book
<1> HIDE DEF loss
<1>11. c \in Book BY <1>0, <1>5, <1>6, <1>9, <1>10 DEF Book
<1>12. /\ c.available = p.available /\ c.locked = p.locked /\ c.float = p.float
       /\ c.notional = p.notional /\ c.order = p.order
       /\ c.owner = p.owner /\ c.risk = p.risk
       /\ c.ticket = p.ticket /\ c.leg = p.leg /\ c.result = p.result
       /\ c.status = [p.status EXCEPT ![w] = st]
       /\ c.settled = [p.settled EXCEPT ![w] = row]
  BY <1>9 DEF Book
<1> HIDE DEF c
<1>13. /\ c.locked = [b.locked EXCEPT ![b.owner[w]] = b.locked[b.owner[w]] + y]
       /\ c.notional = b.notional /\ c.order = b.order
       /\ c.owner = b.owner /\ c.risk = b.risk
       /\ c.ticket = b.ticket /\ c.leg = b.leg /\ c.result = b.result
       /\ c.status = [b.status EXCEPT ![w] = st]
       /\ c.settled = [b.settled EXCEPT ![w] = row]
  BY <1>7, <1>12 DEF Posted
<1>14. /\ c.status[w] = st /\ c.settled[w] = row
       /\ \A v \in Wager \ {w} : c.status[v] = b.status[v] /\ c.settled[v] = b.settled[v]
  <2>1. /\ b.status \in [Wager -> {"none", "open", "won", "lost", "refunded"}]
        /\ b.settled \in [Wager -> [outcome : {"none", "win", "loss", "refund"},
                                    return : Nat, profit : Nat, manual : BOOLEAN,
                                    evidence : SUBSET Event]]
    BY <1>0 DEF Book
  <2> QED BY <1>0, <1>13, <2>1
<1>15. Conserved(c) BY <1>8, <1>12 DEF Conserved
<1>16. NotionalIsSold(c) /\ ReversalsRefer(c)
  BY <1>0, <1>13 DEF NotionalIsSold, StandingValue, Reversed, ReversalsRefer
<1>17. RowsPlaced(c) BY <1>0, <1>13, <1>14 DEF RowsPlaced, Placed
<1>18. HasPrior(c, w) /\ row.outcome = outcome /\ row.return = x /\ row.profit = profit
  BY <1>14 DEF HasPrior, row
<1>19. OutcomesPaid(c)
  BY <1>0, <1>5, <1>13, <1>14, <1>18 DEF OutcomesPaid, HasPrior, x
<1>20. LockedIsUnsettled(c)
  <2>1. b.owner[w] \in Member /\ c.owner[w] = b.owner[w]
    BY <1>0, <1>13, BookFields
  <2>2. UnsettledRisk(b, b.owner[w])[w] = b.risk[w] BY <1>0, <2>1, UnsettledType
  <2>3. UnsettledRisk(c, b.owner[w])[w] = 0
    BY <1>0, <1>11, <1>18, <2>1, UnsettledType DEF c
  <2>4. UnsettledRisk(c, b.owner[w])[w] = UnsettledRisk(b, b.owner[w])[w] + y
    BY <1>1, <2>2, <2>3 DEF y
  <2>5. RowMoved(b, c, w, b.owner[w], y) BY <1>13, <1>14, <2>4 DEF RowMoved
  <2> QED BY <1>0, <1>2, <1>11, <2>1, <2>5, LockedFollowsRow DEF c
<1>21. Sound(c) BY <1>11, <1>15, <1>16, <1>17, <1>19, <1>20 DEF Sound, c
<1> QED BY <1>4, <1>13, <1>21 DEF c, row, st, x, SettledAs

\* A book that differs in rows the ledger does not depend on.
SameLedger(b, c) ==
  /\ c.available = b.available /\ c.locked = b.locked
  /\ c.float = b.float /\ c.notional = b.notional /\ c.order = b.order
  /\ c.owner = b.owner /\ c.risk = b.risk /\ c.ticket = b.ticket
  /\ c.settled = b.settled
  /\ \A v \in Wager : c.status[v] = "none" <=> b.status[v] = "none"

\* Rows the ledger does not depend on do not matter to soundness.
LEMMA SameLedgerSound ==
  ASSUME NEW b, NEW c \in Book, Sound(b), SameLedger(b, c)
  PROVE  Sound(c) /\ Placed(c) = Placed(b)
<1>0. /\ b \in Book /\ RowsPlaced(b) /\ OutcomesPaid(b) /\ Conserved(b)
      /\ LockedIsUnsettled(b) /\ NotionalIsSold(b) /\ ReversalsRefer(b)
  BY DEF Sound
<1>1. Placed(c) = Placed(b) BY DEF SameLedger, Placed
<1>2. RowsPlaced(c) BY <1>0, <1>1 DEF SameLedger, RowsPlaced
<1>3. OutcomesPaid(c) BY <1>0 DEF SameLedger, OutcomesPaid, HasPrior
<1>4. Conserved(c) BY <1>0 DEF SameLedger, Conserved
<1>5. LockedIsUnsettled(c)
  BY <1>0, LockedUntouched DEF SameLedger
<1>6. NotionalIsSold(c) /\ ReversalsRefer(c)
  BY <1>0 DEF SameLedger, NotionalIsSold, StandingValue, Reversed, ReversalsRefer
<1> QED BY <1>1, <1>2, <1>3, <1>4, <1>5, <1>6 DEF Sound

\* Nor do they matter to the explanation of the statuses.
LEMMA SameStatusExplained ==
  ASSUME NEW b, NEW c, StatusExplained(b), SameLedger(b, c), c.status = b.status
  PROVE  StatusExplained(c)
BY DEF SameLedger, StatusExplained

\* With its settlement undone, if it had one, a wager leaves a sound book.
LEMMA WithoutPriorSound ==
  ASSUME NEW b, Sound(b), NEW w \in Wager, HasPrior(b, w) => CanReverse(b, w)
  PROVE  LET d == WithoutPrior(b, w)
         IN  /\ Sound(d) /\ ~HasPrior(d, w)
             /\ d.status = b.status /\ d.risk = b.risk /\ d.ticket = b.ticket
             /\ d.leg = b.leg /\ d.result = b.result
             /\ \A v \in Wager \ {w} : d.settled[v] = b.settled[v]
<1>1. CASE HasPrior(b, w)
  <2>1. b.settled \in [Wager -> [outcome : {"none", "win", "loss", "refund"},
                                 return : Nat, profit : Nat, manual : BOOLEAN,
                                 evidence : SUBSET Event]]
    BY DEF Sound, Book
  <2>2. WithoutPrior(b, w) = ReversePrior(b, w) BY <1>1 DEF WithoutPrior
  <2>3. PriorUndone(b, WithoutPrior(b, w), w) BY <1>1, <2>2, ReversePriorSound
  <2> HIDE DEF WithoutPrior
  <2> QED BY <2>1, <2>3 DEF PriorUndone
<1>2. CASE ~HasPrior(b, w) BY <1>2 DEF WithoutPrior
<1> QED BY <1>1, <1>2

\* c is b after a step of a transaction that placed nothing and kept the law.
Kept(b, c) ==
  /\ Sound(c) /\ StatusExplained(c)
  /\ Placed(c) = Placed(b) /\ c.ticket = b.ticket /\ c.result = b.result

\* Replacing the settlement of a wager, whatever it was.
LEMMA ReplaceSound ==
  ASSUME NEW b, Sound(b), StatusExplained(b), NEW w \in Placed(b),
         NEW outcome \in {"win", "loss", "refund"}, NEW profit \in Nat,
         NEW manual \in BOOLEAN, NEW evidence \in SUBSET Event,
         CanReplace(b, w, outcome, profit)
  PROVE  Kept(b, Replace(b, w, outcome, profit, manual, evidence))
<1> DEFINE d == WithoutPrior(b, w)
           c == ApplySettlement(d, w, outcome, profit, manual, evidence)
<1>0. w \in Wager BY DEF Placed
<1>1. /\ Sound(d) /\ ~HasPrior(d, w)
      /\ d.status = b.status /\ d.risk = b.risk /\ d.ticket = b.ticket
      /\ d.leg = b.leg /\ d.result = b.result
      /\ \A v \in Wager \ {w} : d.settled[v] = b.settled[v]
  BY <1>0, WithoutPriorSound DEF CanReplace
<1>2. CanApply(d, w, outcome, profit) BY DEF CanReplace
<1>3. w \in Placed(d) BY <1>1 DEF Placed
<1>4. Replace(b, w, outcome, profit, manual, evidence) = c BY DEF Replace
<1> HIDE DEF d
<1>5. /\ Sound(c)
      /\ c.ticket = d.ticket /\ c.leg = d.leg /\ c.result = d.result
      /\ c.risk = d.risk
      /\ c.status = [d.status EXCEPT ![w] = StatusOf(outcome)]
      /\ c.settled = [d.settled EXCEPT ![w] =
           [outcome |-> outcome, return |-> Return(d.risk[w], outcome, profit),
            profit |-> profit, manual |-> manual, evidence |-> evidence]]
  <2>1. SettledAs(d, c, w, outcome, profit, manual, evidence)
    BY <1>1, <1>2, <1>3, ApplySettlementSound
  <2> HIDE DEF c
  <2> QED BY <2>1 DEF SettledAs
<1> HIDE DEF c
<1>6. /\ d.status \in [Wager -> {"none", "open", "won", "lost", "refunded"}]
      /\ d.settled \in [Wager -> [outcome : {"none", "win", "loss", "refund"},
                                  return : Nat, profit : Nat, manual : BOOLEAN,
                                  evidence : SUBSET Event]]
  BY <1>1 DEF Sound, Book
<1>7. StatusOf(outcome) \in {"won", "lost", "refunded"} BY DEF StatusOf
<1>8. Placed(c) = Placed(b)
  <2>1. \A v \in Wager : c.status[v] = "none" <=> b.status[v] = "none"
    BY <1>0, <1>1, <1>3, <1>5, <1>6, <1>7 DEF Placed
  <2> QED BY <2>1 DEF Placed
<1>9. StatusExplained(c)
  <2>1. /\ c.status[w] = StatusOf(outcome)
        /\ c.settled[w].outcome = outcome /\ c.settled[w].profit = profit
        /\ c.settled[w].return = Return(c.risk[w], outcome, profit)
    BY <1>0, <1>5, <1>6
  <2>2. \A v \in Wager \ {w} :
          c.status[v] = b.status[v] /\ c.settled[v] = b.settled[v] /\ c.risk[v] = b.risk[v]
    BY <1>0, <1>1, <1>5, <1>6
  <2> QED BY <1>7, <2>1, <2>2 DEF StatusExplained
<1> QED BY <1>1, <1>4, <1>5, <1>8, <1>9 DEF c, Kept

\* Kept is transitive.
LEMMA KeptTwice ==
  ASSUME NEW b, NEW c, NEW d, Kept(b, c), Kept(c, d)
  PROVE  Kept(b, d)
BY DEF Kept

\* Rows the ledger does not depend on may be rewritten freely.
LEMMA SameLedgerKept ==
  ASSUME NEW b, NEW c \in Book, Sound(b), StatusExplained(b), SameLedger(b, c),
         c.status = b.status, c.result = b.result
  PROVE  Kept(b, c)
<1>1. Sound(c) /\ Placed(c) = Placed(b) BY SameLedgerSound
<1>2. StatusExplained(c) BY SameStatusExplained
<1> QED BY <1>1, <1>2 DEF Kept, SameLedger

(* Grading *)

LegGrades == {"win", "loss", "push", "void"}

\* A leg graded on a result has one of the stored grades.
LEMMA GradeLegType ==
  ASSUME NEW side, NEW result PROVE GradeLeg(side, result) \in LegGrades
BY DEF GradeLeg, LegGrades

\* A placed wager has an accepted risk and a ticket on known events.
LEMMA TicketRows ==
  ASSUME NEW b, Sound(b), NEW w \in Placed(b)
  PROVE  /\ w \in Wager /\ b \in Book /\ b.risk[w] \in Risk
         /\ b.ticket[w] \in Ticket /\ Legs(b, w) \in SUBSET Event
<1>1. b.ticket[w] \in Ticket /\ b.risk[w] \in Risk BY DEF Sound, RowsPlaced
<1>2. DOMAIN b.ticket[w].picks \in SUBSET Event BY <1>1, TicketAssumption
<1> QED BY <1>1, <1>2 DEF Sound, Placed, Legs

\* A ticket is decided unless one of its legs is pending.
LEMMA GradeTicketType ==
  ASSUME NEW t, NEW grades
  PROVE  /\ GradeTicket(t, grades) \in {"none", "win", "loss", "refund"}
         /\ GradeTicket(t, grades) = "none" => \E e \in DOMAIN t.picks : grades[e] = "pending"
BY DEF GradeTicket

\* The profit of a placed wager is a natural number.
LEMMA ProfitType ==
  ASSUME NEW b, Sound(b), NEW w \in Placed(b), NEW outcome, NEW grades
  PROVE  ProfitOf(b, w, outcome, grades) \in Nat
<1>1. b.risk[w] \in Risk /\ Legs(b, w) \in SUBSET Event BY TicketRows
<1>2. Winners(b.ticket[w], grades) \in SUBSET Event BY <1>1 DEF Winners, Legs
<1> HIDE DEF Winners
<1>3. <<b.risk[w], Winners(b.ticket[w], grades)>> \in Risk \X SUBSET Event BY <1>1, <1>2
<1>4. Profit[b.risk[w], Winners(b.ticket[w], grades)] \in Nat BY <1>3, ProfitAssumption
<1> QED BY <1>4 DEF ProfitOf

\* Writing the legs of w to rows leaves the ledger alone.
LEMMA LegRowsKept ==
  ASSUME NEW b, Sound(b), StatusExplained(b), NEW w \in Wager,
         NEW rows \in [Event -> [grade : {"none", "win", "loss", "push", "void"}, version : Nat]]
  PROVE  /\ Kept(b, [b EXCEPT !.leg[w] = rows])
         /\ SameLedger(b, [b EXCEPT !.leg[w] = rows])
         /\ [b EXCEPT !.leg[w] = rows].status = b.status
<1> DEFINE c == [b EXCEPT !.leg[w] = rows]
<1>1. b \in Book BY DEF Sound
<1>2. c \in Book BY <1>1 DEF Book
<1>3. SameLedger(b, c) /\ c.status = b.status /\ c.result = b.result
  BY <1>1 DEF Book, SameLedger
<1> HIDE DEF c
<1>4. Kept(b, c) BY <1>2, <1>3, SameLedgerKept
<1> QED BY <1>3, <1>4 DEF c

\* updateObservedLegs touches no money and no status.
LEMMA GradeObservedLegsKept ==
  ASSUME NEW b, Sound(b), StatusExplained(b), NEW w \in Placed(b)
  PROVE  LET g == GradeObservedLegs(b, w)
         IN  Kept(b, g) /\ SameLedger(b, g) /\ g.status = b.status
<1> DEFINE rows == [e \in Event |->
             IF e \in Legs(b, w) \cap Observed(b)
             THEN [grade |-> SystemGrades(b, w)[e], version |-> b.result[e].version]
             ELSE b.leg[w][e]]
<1>1. w \in Wager /\ b \in Book BY TicketRows
<1>2. ASSUME NEW e \in Legs(b, w) \cap Observed(b)
      PROVE  SystemGrades(b, w)[e] \in LegGrades
  <2>1. SystemGrades(b, w)[e] = GradeLeg(b.ticket[w].picks[e], ResultValues(b)[e])
    BY DEF SystemGrades, Grades, Legs
  <2> QED BY <2>1, GradeLegType
<1>3. \A e \in Event : b.result[e].version \in Nat
  BY <1>1 DEF Book
<1>4. b.leg[w] \in [Event -> [grade : {"none", "win", "loss", "push", "void"}, version : Nat]]
  BY <1>1 DEF Book
<1>5. rows \in [Event -> [grade : {"none", "win", "loss", "push", "void"}, version : Nat]]
  BY <1>2, <1>3, <1>4 DEF LegGrades
<1>6. GradeObservedLegs(b, w) = [b EXCEPT !.leg[w] = rows] BY DEF GradeObservedLegs
<1> HIDE DEF rows
<1> QED BY <1>1, <1>5, <1>6, LegRowsKept

\* The body of the settlement loop keeps the law.
LEMMA SettleWagerKept ==
  ASSUME NEW b, Sound(b), StatusExplained(b), NEW w \in Placed(b), CanSettle(b, w)
  PROVE  Kept(b, SettleWager(b, w))
<1> DEFINE g == GradeObservedLegs(b, w)
           outcome == SystemOutcome(b, w)
           profit == SystemProfit(b, w)
           seen == Legs(b, w) \cap Observed(b)
<1>1. w \in Wager /\ b \in Book /\ Legs(b, w) \in SUBSET Event BY TicketRows
<1>2. Kept(b, g) /\ SameLedger(b, g) /\ g.status = b.status
  BY GradeObservedLegsKept
<1>3. outcome \in {"none", "win", "loss", "refund"}
  BY GradeTicketType DEF SystemOutcome
<1>4. profit \in Nat BY ProfitType DEF SystemProfit
<1>5. seen \in SUBSET Event BY <1>1
<1>6. Sound(g) /\ StatusExplained(g) /\ Placed(g) = Placed(b) /\ w \in Placed(g)
  BY <1>2 DEF Kept
<1>7. CASE outcome = "none" /\ ~PartialLoss(b, w)
  <2>1. SettleWager(b, w) = g BY <1>7 DEF SettleWager
  <2> QED BY <1>2, <2>1
<1>8. CASE outcome = "none" /\ PartialLoss(b, w)
  <2> DEFINE u == ReversePrior(g, w)
             c == [u EXCEPT !.status[w] = "open"]
  <2>1. SettleWager(b, w) = c BY <1>8 DEF SettleWager, Reopen
  <2>2. HasPrior(g, w)
    BY <1>2, <1>8 DEF SameLedger, HasPrior, PartialLoss
  <2>3. CanReverse(g, w) BY <1>8 DEF CanSettle
  <2>4. PriorUndone(g, u, w) BY <1>1, <1>6, <2>2, <2>3, ReversePriorSound
  <2> HIDE DEF u, g
  <2>5. u \in Book /\ Sound(u) /\ ~HasPrior(u, w) /\ u.status[w] # "none"
    BY <1>6, <2>4 DEF PriorUndone, Sound, Placed
  <2>6. c \in Book BY <1>1, <2>5 DEF Book
  <2>7. SameLedger(u, c) /\ c.status = [u.status EXCEPT ![w] = "open"] /\ c.result = u.result
    <3>1. u.status \in [Wager -> {"none", "open", "won", "lost", "refunded"}]
      BY <2>5 DEF Book
    <3>2. /\ c.available = u.available /\ c.locked = u.locked
          /\ c.float = u.float /\ c.notional = u.notional /\ c.order = u.order
          /\ c.owner = u.owner /\ c.risk = u.risk /\ c.ticket = u.ticket
          /\ c.settled = u.settled /\ c.result = u.result
          /\ c.status = [u.status EXCEPT ![w] = "open"]
      BY <2>5 DEF Book
    <3> HIDE DEF c
    <3>3. \A v \in Wager : c.status[v] = "none" <=> u.status[v] = "none"
      BY <1>1, <2>5, <3>1, <3>2
    <3> QED BY <3>2, <3>3 DEF SameLedger
  <2> HIDE DEF c
  <2>8. Sound(c) /\ Placed(c) = Placed(u) BY <2>5, <2>6, <2>7, SameLedgerSound
  <2>9. StatusExplained(c)
    <3>1. /\ u.settled \in [Wager -> [outcome : {"none", "win", "loss", "refund"},
                                      return : Nat, profit : Nat, manual : BOOLEAN,
                                      evidence : SUBSET Event]]
          /\ g.settled \in [Wager -> [outcome : {"none", "win", "loss", "refund"},
                                      return : Nat, profit : Nat, manual : BOOLEAN,
                                      evidence : SUBSET Event]]
          /\ u.status \in [Wager -> {"none", "open", "won", "lost", "refunded"}]
      BY <1>6, <2>5 DEF Sound, Book
    <3>2. c.settled[w].outcome = "none" /\ c.status[w] = "open"
      BY <1>1, <2>5, <2>7, <3>1 DEF HasPrior, SameLedger
    <3>3. \A v \in Wager \ {w} : /\ c.settled[v] = g.settled[v] /\ c.status[v] = g.status[v]
                               /\ c.risk[v] = g.risk[v]
      BY <2>4, <2>7, <3>1 DEF PriorUndone, SameLedger
    <3> QED BY <1>6, <3>2, <3>3 DEF StatusExplained
  <2>10. c.ticket = b.ticket /\ c.result = b.result
    BY <1>2, <2>4, <2>7 DEF Kept, SameLedger, PriorUndone
  <2>11. Placed(u) = Placed(g) BY <2>4 DEF PriorUndone, Placed
  <2> QED BY <1>6, <2>1, <2>8, <2>9, <2>10, <2>11 DEF Kept
<1>9. CASE outcome # "none"
  <2>1. SettleWager(b, w) = Replace(g, w, outcome, profit, FALSE, seen)
    BY <1>9 DEF SettleWager
  <2>2. CanReplace(g, w, outcome, profit) BY <1>9 DEF CanSettle
  <2> HIDE DEF g, outcome, profit, seen
  <2>3. Kept(g, Replace(g, w, outcome, profit, FALSE, seen))
    BY <1>3, <1>4, <1>5, <1>6, <1>9, <2>2, ReplaceSound
  <2> QED BY <1>2, <2>1, <2>3, KeptTwice
<1> QED BY <1>7, <1>8, <1>9

\* closeEligibleSeasons touches no money and no status.
LEMMA CloseEligibleKept ==
  ASSUME NEW b, Sound(b), StatusExplained(b)
  PROVE  Kept(b, CloseEligible(b))
<1>1. b \in Book BY DEF Sound
<1>2. ASSUME NEW r \in {"float_exhausted", "super_bowl_final", "commissioner_closed"}
      PROVE  Kept(b, [b EXCEPT !.state = "closed", !.reason = r])
  <2> DEFINE c == [b EXCEPT !.state = "closed", !.reason = r]
  <2>1. c \in Book BY <1>1 DEF Book
  <2>2. SameLedger(b, c) /\ c.status = b.status /\ c.result = b.result
    BY <1>1 DEF Book, SameLedger
  <2> HIDE DEF c
  <2>3. Kept(b, c) BY <2>1, <2>2, SameLedgerKept
  <2> QED BY <2>3 DEF c
<1>3. Kept(b, b) BY DEF Kept
<1> QED BY <1>2, <1>3 DEF CloseEligible

(* Commands *)

\* What the invariant says of the two books.
LEMMA InvariantBooks ==
  ASSUME LedgerInvariant
  PROVE  /\ Sound(committed) /\ StatusExplained(committed)
         /\ Sound(working) /\ StatusExplained(working)
BY DEF LedgerInvariant, Books

\* A command that commits a sound book keeps the invariant.
LEMMA CommitKeepsInvariant ==
  ASSUME LedgerInvariant, Idle, NEW b, Sound(b), StatusExplained(b), Commit(b)
  PROVE  LedgerInvariant'
<1>1. todo' = {} BY DEF LedgerInvariant, Idle, Commit
<1> QED BY <1>1 DEF LedgerInvariant, Commit, Books

\* Voiding a wager keeps the invariant.
LEMMA VoidWagerStep ==
  ASSUME LedgerInvariant, NEW w \in Wager, VoidWager(w)
  PROVE  LedgerInvariant'
<1> DEFINE c == Replace(committed, w, "refund", 0, TRUE, {})
<1>1. Sound(committed) /\ StatusExplained(committed) BY InvariantBooks
<1>2. /\ Idle /\ w \in Placed(committed) /\ CanReplace(committed, w, "refund", 0)
      /\ Commit(CloseEligible(c))
  BY DEF VoidWager, Placed
<1> HIDE DEF c
<1>3. Kept(committed, c)
  <2>1. {} \in SUBSET Event /\ TRUE \in BOOLEAN /\ 0 \in Nat
        /\ "refund" \in {"win", "loss", "refund"} OBVIOUS
  <2> QED BY <1>1, <1>2, <2>1, ReplaceSound DEF c
<1>4. Sound(c) /\ StatusExplained(c) BY <1>3 DEF Kept
<1>5. Kept(c, CloseEligible(c)) BY <1>4, CloseEligibleKept
<1>6. Sound(CloseEligible(c)) /\ StatusExplained(CloseEligible(c)) BY <1>5 DEF Kept
<1> QED BY <1>2, <1>6, CommitKeepsInvariant

\* Regrading a wager keeps the invariant.
LEMMA RegradeWagerStep ==
  ASSUME LedgerInvariant, NEW w \in Wager, NEW corrected \in [Legs(committed, w) -> Result],
         RegradeWager(w, corrected)
  PROVE  LedgerInvariant'
<1> DEFINE b == committed
           grades == Grades(b.ticket[w], Legs(b, w), corrected)
           outcome == GradeTicket(b.ticket[w], grades)
           profit == ProfitOf(b, w, outcome, grades)
           c == Replace(b, w, outcome, profit, TRUE, {})
           d == CorrectLegs(c, w, grades)
<1>1. Sound(b) /\ StatusExplained(b) BY InvariantBooks
<1>2. /\ Idle /\ w \in Placed(b) /\ CanReplace(b, w, outcome, profit)
      /\ Commit(CloseEligible(d))
  BY DEF RegradeWager, Placed
<1>3. \A e \in Legs(b, w) : grades[e] \in LegGrades
  BY GradeLegType DEF Grades, Legs
<1>4. outcome \in {"win", "loss", "refund"}
  <2>1. \A e \in Legs(b, w) : grades[e] # "pending" BY <1>3 DEF LegGrades
  <2> QED BY <2>1, GradeTicketType DEF Legs
<1>5. profit \in Nat BY <1>1, <1>2, ProfitType
<1>6. Legs(b, w) \in SUBSET Event BY <1>1, <1>2, TicketRows
<1> HIDE DEF b, grades, outcome, profit, d
<1>7. Kept(b, c)
  <2>1. {} \in SUBSET Event /\ TRUE \in BOOLEAN OBVIOUS
  <2> QED BY <1>1, <1>2, <1>4, <1>5, <2>1, ReplaceSound
<1> HIDE DEF c
<1>8. Sound(c) /\ StatusExplained(c) /\ Legs(c, w) = Legs(b, w) BY <1>7 DEF Kept, Legs
<1>9. Kept(c, d)
  <2> DEFINE rows == [e \in Event |->
               IF e \in Legs(c, w) THEN [grade |-> grades[e], version |-> c.leg[w][e].version]
               ELSE c.leg[w][e]]
  <2>1. c.leg[w] \in [Event -> [grade : {"none", "win", "loss", "push", "void"}, version : Nat]]
    BY <1>8 DEF Sound, Book
  <2>2. rows \in [Event -> [grade : {"none", "win", "loss", "push", "void"}, version : Nat]]
    BY <1>3, <1>8, <2>1 DEF LegGrades
  <2>3. d = [c EXCEPT !.leg[w] = rows] BY DEF d, CorrectLegs
  <2> HIDE DEF rows
  <2> QED BY <1>8, <2>2, <2>3, LegRowsKept
<1>10. Sound(d) /\ StatusExplained(d) BY <1>9 DEF Kept
<1>11. Kept(d, CloseEligible(d)) BY <1>10, CloseEligibleKept
<1>12. Sound(CloseEligible(d)) /\ StatusExplained(CloseEligible(d)) BY <1>11 DEF Kept
<1> QED BY <1>2, <1>12, CommitKeepsInvariant

\* Confirming the Super Bowl and closing the season keep the invariant.
LEMMA SeasonCommandStep ==
  ASSUME LedgerInvariant, ConfirmSuperBowl \/ CloseSeason
  PROVE  LedgerInvariant'
<1>1. Sound(committed) /\ StatusExplained(committed) /\ committed \in Book
  BY InvariantBooks DEF Sound
<1>2. ASSUME NEW c \in Book, SameLedger(committed, c), c.status = committed.status,
             c.result = committed.result
      PROVE  Sound(c) /\ StatusExplained(c)
  BY <1>1, <1>2, SameLedgerSound, SameStatusExplained
<1>3. CASE ConfirmSuperBowl
  <2> DEFINE c == [committed EXCEPT !.confirmed = TRUE]
  <2>1. c \in Book BY <1>1 DEF Book
  <2>2. SameLedger(committed, c) /\ c.status = committed.status /\ c.result = committed.result
    BY <1>1 DEF Book, SameLedger
  <2>3. Idle /\ Commit(c) BY <1>3 DEF ConfirmSuperBowl
  <2> HIDE DEF c
  <2> QED BY <1>2, <2>1, <2>2, <2>3, CommitKeepsInvariant
<1>4. CASE CloseSeason
  <2> DEFINE c == [committed EXCEPT !.state = "closed", !.reason = "commissioner_closed"]
  <2>1. c \in Book BY <1>1 DEF Book
  <2>2. SameLedger(committed, c) /\ c.status = committed.status /\ c.result = committed.result
    BY <1>1 DEF Book, SameLedger
  <2>3. Idle /\ Commit(c) BY <1>4 DEF CloseSeason
  <2> HIDE DEF c
  <2> QED BY <1>2, <2>1, <2>2, <2>3, CommitKeepsInvariant
<1> QED BY <1>3, <1>4

\* g is the balances f with d added to m's.
Credited(f, g, d) ==
  /\ g \in [Member -> Nat]
  /\ Total(f, NMembers) \in Int /\ Total(g, NMembers) = Total(f, NMembers) + d

\* Adding to one member's balance adds as much to the sum of the balances.
LEMMA BalanceCredited ==
  ASSUME NEW f \in [Member -> Nat], NEW m \in Member, NEW d \in Int, f[m] + d \in Nat
  PROVE  Credited(f, [f EXCEPT ![m] = f[m] + d], d)
<1> DEFINE g == [f EXCEPT ![m] = f[m] + d]
<1>1. NMembers \in Nat /\ Member = 1..NMembers BY SizesAssumption DEF Member
<1>2. g \in [Member -> Nat] BY UpdateType
<1>3. f \in [1..NMembers -> Int] /\ g \in [1..NMembers -> Int] BY <1>1, <1>2, NatAreIntRows
<1>4. \A k \in 1..NMembers : g[k] = IF k = m THEN f[m] + d ELSE f[k] BY <1>1
<1>5. m \in 1..NMembers BY <1>1
<1> HIDE DEF g
<1>6. Total(f, NMembers) \in Int /\ Total(g, NMembers) = Total(f, NMembers) + d
  BY <1>1, <1>3, <1>4, <1>5, TotalOfUpdated
<1> QED BY <1>2, <1>6 DEF Credited, g

\* Placing a wager keeps the invariant.
LEMMA PlaceWagerStep ==
  ASSUME LedgerInvariant, NEW w \in Wager, NEW m \in Member, NEW risk \in Risk,
         NEW t \in Ticket, PlaceWager(w, m, risk, t)
  PROVE  LedgerInvariant'
<1> DEFINE b == committed
           av == [b.available EXCEPT ![m] = b.available[m] + (-risk)]
           lk == [b.locked EXCEPT ![m] = b.locked[m] + risk]
           c == [b EXCEPT !.available = av, !.locked = lk, !.status[w] = "open",
                          !.owner[w] = m, !.risk[w] = risk, !.ticket[w] = t]
<1>1. Sound(b) /\ StatusExplained(b) BY InvariantBooks
<1>2. /\ Idle /\ b.status[w] = "none" /\ b.available[m] >= risk
      /\ Commit(c)
  BY DEF PlaceWager
<1> HIDE DEF b
<1>0. /\ b \in Book /\ RowsPlaced(b) /\ OutcomesPaid(b) /\ Conserved(b)
      /\ LockedIsUnsettled(b) /\ NotionalIsSold(b) /\ ReversalsRefer(b)
  BY <1>1 DEF Sound
<1>3. /\ NMembers \in Nat /\ m \in 1..NMembers /\ Member = 1..NMembers
      /\ b.available \in [Member -> Nat] /\ b.locked \in [Member -> Nat]
      /\ b.available[m] \in Nat /\ b.locked[m] \in Nat /\ risk \in Nat
  BY <1>0, BookFields, AmountAssumption
<1>4. Credited(b.available, av, -risk) /\ Credited(b.locked, lk, risk)
  <2>1. -risk \in Int /\ risk \in Int BY <1>3
  <2>2. b.available[m] + (-risk) \in Nat /\ b.locked[m] + risk \in Nat BY <1>2, <1>3
  <2>3. Credited(b.available, av, -risk) BY <1>3, <2>1, <2>2, BalanceCredited
  <2>4. Credited(b.locked, lk, risk) BY <1>3, <2>1, <2>2, BalanceCredited
  <2> QED BY <2>3, <2>4
<1>5. /\ av \in [Member -> Nat] /\ lk \in [Member -> Nat]
      /\ Total(b.available, NMembers) \in Int /\ Total(b.locked, NMembers) \in Int
      /\ Total(av, NMembers) = Total(b.available, NMembers) + (-risk)
      /\ Total(lk, NMembers) = Total(b.locked, NMembers) + risk
  BY <1>4 DEF Credited
<1> HIDE DEF av
<1>6. c \in Book
  <2> HIDE DEF lk
  <2> QED BY <1>0, <1>5 DEF Book
<1>7. /\ c.available = av /\ c.locked = lk /\ c.float = b.float
      /\ c.notional = b.notional /\ c.order = b.order /\ c.settled = b.settled
      /\ c.status = [b.status EXCEPT ![w] = "open"]
      /\ c.owner = [b.owner EXCEPT ![w] = m]
      /\ c.risk = [b.risk EXCEPT ![w] = risk]
      /\ c.ticket = [b.ticket EXCEPT ![w] = t]
  <2> HIDE DEF lk
  <2> QED BY <1>0 DEF Book
<1> HIDE DEF c
<1>8. /\ c.status[w] = "open" /\ c.owner[w] = m /\ c.risk[w] = risk /\ c.ticket[w] = t
      /\ \A v \in Wager \ {w} : /\ c.status[v] = b.status[v] /\ c.owner[v] = b.owner[v]
                               /\ c.risk[v] = b.risk[v] /\ c.ticket[v] = b.ticket[v]
                               /\ c.settled[v] = b.settled[v]
  BY <1>0, <1>7 DEF Book
<1>9. ~HasPrior(b, w) /\ ~HasPrior(c, w)
  <2>1. ~HasPrior(b, w) BY <1>0, <1>2 DEF OutcomesPaid
  <2> QED BY <1>7, <2>1 DEF HasPrior
<1>10. Conserved(c)
  <2>1. b.float = Total(b.available, NMembers) + Total(b.locked, NMembers)
    BY <1>0 DEF Conserved
  <2>2. c.float = Total(c.available, NMembers) + Total(c.locked, NMembers)
    BY <1>3, <1>5, <1>7, <2>1
  <2> QED BY <2>2 DEF Conserved
<1>11. RowsPlaced(c) BY <1>0, <1>8 DEF RowsPlaced, Placed
<1>12. OutcomesPaid(c) BY <1>0, <1>8, <1>9 DEF OutcomesPaid, HasPrior
<1>13. NotionalIsSold(c) /\ ReversalsRefer(c)
  BY <1>0, <1>7 DEF NotionalIsSold, StandingValue, Reversed, ReversalsRefer
<1>14. LockedIsUnsettled(c)
  <2>1. UnsettledRisk(b, m)[w] = 0 BY <1>0, <1>2, UnsettledType
  <2>2. UnsettledRisk(c, m)[w] = risk BY <1>6, <1>8, <1>9, UnsettledType
  <2>3. UnsettledRisk(c, m)[w] = UnsettledRisk(b, m)[w] + risk BY <1>3, <2>1, <2>2
  <2>4. RowMoved(b, c, w, m, risk) BY <1>2, <1>7, <1>8, <2>3 DEF RowMoved, lk
  <2> QED BY <1>0, <1>3, <1>6, <2>4, LockedFollowsRow
<1>15. Sound(c) BY <1>6, <1>10, <1>11, <1>12, <1>13, <1>14 DEF Sound
<1>16. StatusExplained(c)
  <2>1. c.settled[w].outcome = "none" BY <1>9 DEF HasPrior
  <2> QED BY <1>1, <1>8, <2>1 DEF StatusExplained
<1> QED BY <1>2, <1>15, <1>16, CommitKeepsInvariant

(* Orders *)

\* Bankers' rounding returns an integer.
LEMMA RoundedType ==
  ASSUME NEW n \in Int, NEW d \in Int, d # 0
  PROVE  DivideRoundHalfEven(n, d) \in Int
<1>1. Magnitude(n) \in Int /\ Magnitude(d) \in Int /\ Magnitude(d) > 0 BY DEF Magnitude
<1>2. Magnitude(n) \div Magnitude(d) \in Int BY <1>1
<1> QED BY <1>2 DEF DivideRoundHalfEven

\* The shares and the value of an order are integers.
LEMMA OrderAmountsType ==
  ASSUME NEW float \in Int, NEW notional \in Int, NEW mode \in {"shares", "value"},
         NEW amount \in Nat,
         mode = "value" => SharePrice(float, notional) # 0
  PROVE  /\ OrderShares(mode, amount, SharePrice(float, notional)) \in Int
         /\ OrderValue(mode, amount, SharePrice(float, notional)) \in Int
<1> DEFINE price == SharePrice(float, notional)
<1>1. Unit \in Nat /\ Unit # 0 BY UnitAssumption
<1>2. price \in Int
  <2>1. CASE float = 0 BY <1>1, <2>1 DEF SharePrice
  <2>2. CASE float # 0
    <3>1. notional * Unit \in Int BY <1>1
    <3> QED BY <2>2, <3>1, RoundedType DEF SharePrice
  <2> QED BY <2>1, <2>2
<1> HIDE DEF price
<1>3. CASE mode = "shares"
  <2>1. OrderShares(mode, amount, price) = amount BY <1>3 DEF OrderShares
  <2>2. amount * price \in Int BY <1>2
  <2>3. DivideRoundHalfEven(amount * price, Unit) \in Int BY <1>1, <2>2, RoundedType
  <2> QED BY <1>3, <2>1, <2>3 DEF OrderValue, price
<1>4. CASE mode = "value"
  <2>1. amount * Unit \in Int /\ price # 0 BY <1>1, <1>4 DEF price
  <2>2. DivideRoundHalfEven(amount * Unit, price) \in Int BY <1>2, <2>1, RoundedType
  <2> QED BY <1>4, <2>2 DEF OrderShares, OrderValue, price
<1> QED BY <1>3, <1>4

OrderRow(b) ==
  b.order \in [Order -> [member : Member, shares : Int, value : Int,
                         reverses : {0} \cup Order, placed : BOOLEAN]]

\* The standing values of a book are a row of integers, one per order.
LEMMA StandingType ==
  ASSUME NEW b \in Book
  PROVE  /\ OrderRow(b) /\ NOrders \in Nat /\ Order = 1..NOrders
         /\ StandingValue(b) \in [1..NOrders -> Int]
<1>1. OrderRow(b) BY DEF Book, OrderRow
<1>2. NOrders \in Nat /\ Order = 1..NOrders BY SizesAssumption DEF Order
<1> QED BY <1>1, <1>2 DEF StandingValue, OrderRow

\* c is b with one more order row; the row's value went into the notional.
Ordered(b, c, o, row) ==
  /\ c \in Book /\ Conserved(c) /\ RowsPlaced(c) /\ OutcomesPaid(c)
  /\ LockedIsUnsettled(c)
  /\ c.notional = b.notional + row.value /\ c.status = b.status
  /\ c.settled = b.settled /\ c.risk = b.risk
  /\ c.order = [b.order EXCEPT ![o] = row]

\* A new order row adds shares to m's free balance and to the float.
LEMMA OrderPosted ==
  ASSUME NEW b, Sound(b), NEW o \in Order, NEW m \in Member,
         NEW s \in Int, NEW v \in Int, NEW r \in {0} \cup Order,
         b.available[m] + s \in Nat
  PROVE  Ordered(b,
           [b EXCEPT !.available[m] = b.available[m] + s, !.float = b.float + s,
                     !.notional = b.notional + v,
                     !.order[o] = [member |-> m, shares |-> s, value |-> v,
                                   reverses |-> r, placed |-> TRUE]],
           o, [member |-> m, shares |-> s, value |-> v, reverses |-> r, placed |-> TRUE])
<1> DEFINE av == [b.available EXCEPT ![m] = b.available[m] + s]
           row == [member |-> m, shares |-> s, value |-> v, reverses |-> r, placed |-> TRUE]
           c == [b EXCEPT !.available = av, !.float = b.float + s,
                          !.notional = b.notional + v, !.order[o] = row]
<1>0. /\ b \in Book /\ RowsPlaced(b) /\ OutcomesPaid(b) /\ Conserved(b)
      /\ LockedIsUnsettled(b)
  BY DEF Sound
<1>1. /\ b.available \in [Member -> Nat] /\ b.locked \in [Member -> Nat]
      /\ b.float \in Int /\ b.notional \in Int /\ NMembers \in Nat /\ Member = 1..NMembers
  BY <1>0, BookFields
<1>2. Credited(b.available, av, s) BY <1>1, BalanceCredited
<1> HIDE DEF av
<1>3. av \in [Member -> Nat] BY <1>2 DEF Credited
<1>4. row \in [member : Member, shares : Int, value : Int, reverses : {0} \cup Order,
              placed : BOOLEAN]
  OBVIOUS
<1> HIDE DEF row
<1>5. b.float + s \in Int /\ b.notional + v \in Int BY <1>1
<1>6. c \in Book BY <1>0, <1>3, <1>4, <1>5 DEF Book
<1>7. /\ c.available = av /\ c.locked = b.locked /\ c.float = b.float + s
      /\ c.notional = b.notional + v /\ c.order = [b.order EXCEPT ![o] = row]
      /\ c.status = b.status /\ c.owner = b.owner /\ c.risk = b.risk
      /\ c.ticket = b.ticket /\ c.settled = b.settled
  BY <1>0 DEF Book
<1> HIDE DEF c
<1>8. Conserved(c)
  <2>1. b.float = Total(b.available, NMembers) + Total(b.locked, NMembers)
    BY <1>0 DEF Conserved
  <2>2. b.locked \in [1..NMembers -> Int] BY <1>1, NatAreIntRows
  <2>3. Total(b.locked, NMembers) \in Int BY <1>1, <2>2, TotalType
  <2>4. c.float = Total(c.available, NMembers) + Total(c.locked, NMembers)
    BY <1>1, <1>2, <1>7, <2>1, <2>3 DEF Credited
  <2> QED BY <2>4 DEF Conserved
<1>9. RowsPlaced(c) BY <1>0, <1>7 DEF RowsPlaced, Placed
<1>10. OutcomesPaid(c) BY <1>0, <1>7 DEF OutcomesPaid, HasPrior
<1>11. LockedIsUnsettled(c)
  <2>1. \A v0 \in Wager : c.status[v0] # "none" <=> b.status[v0] # "none" BY <1>7
  <2> QED BY <1>0, <1>7, <2>1, LockedUntouched
<1>12. row.value = v BY DEF row
<1> QED BY <1>6, <1>7, <1>8, <1>9, <1>10, <1>11, <1>12 DEF c, av, row, Ordered

\* Executing a share order keeps the invariant.
LEMMA ExecuteShareOrderStep ==
  ASSUME LedgerInvariant, NEW o \in Order, NEW m \in Member,
         NEW mode \in {"shares", "value"}, NEW amount \in Amount,
         ExecuteShareOrder(o, m, mode, amount)
  PROVE  LedgerInvariant'
<1> DEFINE b == committed
           price == SharePrice(b.float, b.notional)
           s == OrderShares(mode, amount, price)
           v == OrderValue(mode, amount, price)
           row == [member |-> m, shares |-> s, value |-> v, reverses |-> 0, placed |-> TRUE]
           c == [b EXCEPT !.available[m] = b.available[m] + s, !.float = b.float + s,
                          !.notional = b.notional + v, !.order[o] = row]
<1>1. Sound(b) /\ StatusExplained(b) BY InvariantBooks
<1>2. /\ Idle /\ ~b.order[o].placed /\ (mode = "value" => price # 0)
      /\ s > 0 /\ v > 0 /\ Commit(c)
  BY DEF ExecuteShareOrder
<1>0. b \in Book /\ NotionalIsSold(b) /\ ReversalsRefer(b) BY <1>1 DEF Sound
<1>3. s \in Int /\ v \in Int
  <2>1. b.float \in Int /\ b.notional \in Int /\ amount \in Nat
    BY <1>0, BookFields, AmountAssumption
  <2> QED BY <1>2, <2>1, OrderAmountsType
<1> HIDE DEF b, s, v
<1>4. b.available[m] + s \in Nat
  <2>1. b.available[m] \in Nat BY <1>0, BookFields
  <2> QED BY <1>2, <1>3, <2>1
<1>5. Ordered(b, c, o, row) BY <1>1, <1>3, <1>4, OrderPosted
<1> HIDE DEF c
<1>6. row.placed /\ row.reverses = 0 /\ row.value = v OBVIOUS
<1> HIDE DEF row
<1>7. /\ c.order[o] = row /\ \A p \in Order \ {o} : c.order[p] = b.order[p]
      /\ OrderRow(b) /\ NOrders \in Nat /\ Order = 1..NOrders
  <2>1. OrderRow(b) /\ NOrders \in Nat /\ Order = 1..NOrders BY <1>0, StandingType
  <2> QED BY <1>5, <2>1 DEF Ordered, OrderRow
<1>8. ReversalsRefer(c)
  <2>1. SUFFICES ASSUME NEW q \in Order, c.order[q].placed, c.order[q].reverses # 0
                 PROVE  c.order[c.order[q].reverses].placed
    BY DEF ReversalsRefer
  <2>2. q # o BY <1>6, <1>7, <2>1
  <2>3. c.order[q] = b.order[q] BY <1>7, <2>2
  <2>4. b.order[q].reverses \in Order BY <1>7, <2>1, <2>3 DEF OrderRow
  <2>5. b.order[b.order[q].reverses].placed BY <1>0, <2>1, <2>3 DEF ReversalsRefer
  <2> QED BY <1>6, <1>7, <2>3, <2>4, <2>5
<1>9. \A p \in Order : Reversed(c, p) <=> Reversed(b, p)
  <2>1. ASSUME NEW p \in Order PROVE Reversed(c, p) <=> Reversed(b, p)
    <3>1. p # 0 BY <1>7
    <3> QED BY <1>2, <1>6, <1>7, <3>1 DEF Reversed
  <2> QED BY <2>1
<1>10. ~Reversed(b, o) BY <1>0, <1>2, <1>7 DEF Reversed, ReversalsRefer
<1>11. \A k \in 1..NOrders : StandingValue(c)[k] =
         IF k = o THEN StandingValue(b)[o] + v ELSE StandingValue(b)[k]
  <2>1. StandingValue(b)[o] = 0 BY <1>2 DEF StandingValue
  <2>2. StandingValue(c)[o] = v BY <1>2, <1>6, <1>7, <1>9, <1>10 DEF StandingValue
  <2>3. \A k \in Order \ {o} : StandingValue(c)[k] = StandingValue(b)[k]
    BY <1>7, <1>9 DEF StandingValue
  <2> QED BY <1>3, <1>7, <2>1, <2>2, <2>3
<1>12. NotionalIsSold(c)
  <2> DEFINE f == StandingValue(b)
             g == StandingValue(c)
  <2>1. c \in Book /\ c.notional = b.notional + v BY <1>5, <1>6 DEF Ordered
  <2>2. /\ f \in [1..NOrders -> Int] /\ g \in [1..NOrders -> Int]
        /\ o \in 1..NOrders /\ NOrders \in Nat
    BY <1>0, <1>7, <2>1, StandingType
  <2>3. b.notional = Total(f, NOrders) BY <1>0 DEF NotionalIsSold
  <2> HIDE DEF f
  <2>4. \A k \in 1..NOrders : g[k] = IF k = o THEN f[o] + v ELSE f[k]
    BY <1>11 DEF f
  <2> HIDE DEF g
  <2>5. Total(g, NOrders) = Total(f, NOrders) + v
    BY <1>3, <2>2, <2>4, TotalOfUpdated
  <2>6. c.notional = Total(g, NOrders) BY <2>1, <2>3, <2>5
  <2> QED BY <2>6 DEF NotionalIsSold, g
<1>13. Sound(c) BY <1>5, <1>8, <1>12 DEF Sound, Ordered
<1>14. StatusExplained(c) BY <1>1, <1>5 DEF StatusExplained, Ordered
<1> QED BY <1>2, <1>13, <1>14, CommitKeepsInvariant DEF c, row

\* g is f with u added on row p and d on row o.
Moved(f, g, n, p, u, o, d) ==
  /\ n \in Nat /\ f \in [1..n -> Int] /\ g \in [1..n -> Int]
  /\ p \in 1..n /\ o \in 1..n /\ p # o /\ u \in Int /\ d \in Int
  /\ \A k \in 1..n : g[k] = IF k = o THEN f[o] + d
                           ELSE IF k = p THEN f[p] + u ELSE f[k]

\* A sum two of whose terms move by u and d moves by u + d.
LEMMA TotalMoved ==
  ASSUME NEW n, NEW f, NEW g, NEW p, NEW o, NEW u, NEW d, Moved(f, g, n, p, u, o, d)
  PROVE  Total(f, n) \in Int /\ Total(g, n) = Total(f, n) + u + d
<1>0. /\ n \in Nat /\ f \in [1..n -> Int] /\ g \in [1..n -> Int]
      /\ p \in 1..n /\ o \in 1..n /\ p # o /\ u \in Int /\ d \in Int
      /\ \A k \in 1..n : g[k] = IF k = o THEN f[o] + d
                               ELSE IF k = p THEN f[p] + u ELSE f[k]
  BY DEF Moved
<1> DEFINE h == [k \in 1..n |-> IF k = p THEN f[p] + u ELSE f[k]]
<1>1. h \in [1..n -> Int] BY <1>0
<1>2. \A k \in 1..n : h[k] = IF k = p THEN f[p] + u ELSE f[k] OBVIOUS
<1>3. \A k \in 1..n : g[k] = IF k = o THEN h[o] + d ELSE h[k]
  BY <1>0
<1> HIDE DEF h
<1>4. Total(f, n) \in Int /\ Total(h, n) = Total(f, n) + u
  BY <1>0, <1>1, <1>2, TotalOfUpdated
<1>5. Total(h, n) \in Int /\ Total(g, n) = Total(h, n) + d
  BY <1>0, <1>1, <1>3, TotalOfUpdated
<1> QED BY <1>0, <1>4, <1>5

\* Reversing a share order keeps the invariant, also when the order reversed is
\* itself a reversal, which brings the original order back.
LEMMA ReverseShareOrderStep ==
  ASSUME LedgerInvariant, NEW o \in Order, NEW p \in Order, ReverseShareOrder(o, p)
  PROVE  LedgerInvariant'
<1> DEFINE b == committed
           m == b.order[p].member
           s == b.order[p].shares
           v == b.order[p].value
           row == [member |-> m, shares |-> -s, value |-> -v, reverses |-> p, placed |-> TRUE]
           c == [b EXCEPT !.available[m] = b.available[m] + (-s), !.float = b.float + (-s),
                          !.notional = b.notional + (-v), !.order[o] = row]
<1>1. Sound(b) /\ StatusExplained(b) BY InvariantBooks
<1>0. b \in Book /\ NotionalIsSold(b) /\ ReversalsRefer(b) BY <1>1 DEF Sound
<1>2. /\ OrderRow(b) /\ NOrders \in Nat /\ Order = 1..NOrders BY <1>0, StandingType
<1>3. m \in Member /\ s \in Int /\ v \in Int /\ -s \in Int /\ -v \in Int
  BY <1>2 DEF OrderRow
<1>4. /\ b.available[m] \in Int /\ b.float \in Int /\ b.notional \in Int
  BY <1>0, <1>3, BookFields
<1>5. /\ Idle /\ ~b.order[o].placed /\ b.order[p].placed /\ ~Reversed(b, p)
      /\ b.available[m] >= s /\ Commit(c)
  <2>1. /\ b.available[m] - s = b.available[m] + (-s) /\ b.float - s = b.float + (-s)
        /\ b.notional - v = b.notional + (-v)
    BY <1>3, <1>4
  <2> QED BY <2>1 DEF ReverseShareOrder
<1> HIDE DEF b, m, s, v
<1>6. b.available[m] + (-s) \in Nat BY <1>3, <1>4, <1>5
<1>7. Ordered(b, c, o, row) BY <1>1, <1>3, <1>6, OrderPosted
<1> HIDE DEF c
<1>8. row.placed /\ row.reverses = p /\ row.value = -v OBVIOUS
<1> HIDE DEF row
<1>9. c.order[o] = row /\ \A q \in Order \ {o} : c.order[q] = b.order[q]
  BY <1>2, <1>7 DEF Ordered, OrderRow
<1>10. p # o /\ p # 0 BY <1>2, <1>5
<1>11. ReversalsRefer(c)
  <2>1. SUFFICES ASSUME NEW q \in Order, c.order[q].placed, c.order[q].reverses # 0
                 PROVE  c.order[c.order[q].reverses].placed
    BY DEF ReversalsRefer
  <2>2. CASE q = o BY <1>5, <1>8, <1>9, <1>10, <2>2
  <2>3. CASE q # o
    <3>1. c.order[q] = b.order[q] BY <1>9, <2>3
    <3>2. b.order[q].reverses \in Order BY <1>2, <2>1, <3>1 DEF OrderRow
    <3>3. b.order[b.order[q].reverses].placed BY <1>0, <2>1, <3>1 DEF ReversalsRefer
    <3> QED BY <1>8, <1>9, <3>1, <3>2, <3>3
  <2> QED BY <2>2, <2>3
<1>12. ~Reversed(b, o) BY <1>0, <1>2, <1>5 DEF Reversed, ReversalsRefer
<1>13. /\ Reversed(c, p) /\ ~Reversed(c, o)
       /\ \A q \in Order \ {o, p} : Reversed(c, q) <=> Reversed(b, q)
  <2>1. Reversed(c, p) BY <1>8, <1>9 DEF Reversed
  <2>2. ASSUME NEW q \in Order, q # p PROVE Reversed(c, q) <=> Reversed(b, q)
    BY <1>5, <1>8, <1>9, <2>2 DEF Reversed
  <2> QED BY <1>10, <1>12, <2>1, <2>2
<1> DEFINE u == IF v > 0 THEN -v ELSE 0
           d == IF -v > 0 THEN -v ELSE 0
<1>14. \A k \in 1..NOrders : StandingValue(c)[k] =
         IF k = o THEN StandingValue(b)[o] + d
         ELSE IF k = p THEN StandingValue(b)[p] + u ELSE StandingValue(b)[k]
  <2>1. StandingValue(b)[o] = 0 BY <1>5 DEF StandingValue
  <2>2. StandingValue(c)[o] = d BY <1>8, <1>9, <1>13 DEF StandingValue
  <2>3. StandingValue(c)[p] = 0 BY <1>13 DEF StandingValue
  <2>4. StandingValue(b)[p] = IF v > 0 THEN v ELSE 0 BY <1>5 DEF StandingValue, v
  <2>5. StandingValue(b)[p] + u = 0 BY <1>3, <2>4
  <2>6. \A k \in Order \ {o, p} : StandingValue(c)[k] = StandingValue(b)[k]
    BY <1>9, <1>13 DEF StandingValue
  <2>7. d \in Int BY <1>3
  <2> HIDE DEF u, d
  <2> QED BY <1>2, <2>1, <2>2, <2>3, <2>5, <2>6, <2>7
<1>15. u \in Int /\ d \in Int /\ u + d = -v BY <1>3
<1> HIDE DEF u, d
<1>16. NotionalIsSold(c)
  <2> DEFINE f == StandingValue(b)
             g == StandingValue(c)
  <2>1. c \in Book /\ c.notional = b.notional + (-v) BY <1>7, <1>8 DEF Ordered
  <2>2. /\ f \in [1..NOrders -> Int] /\ g \in [1..NOrders -> Int]
        /\ o \in 1..NOrders /\ p \in 1..NOrders /\ NOrders \in Nat
    BY <1>0, <1>2, <2>1, StandingType
  <2>3. b.notional = Total(f, NOrders) BY <1>0 DEF NotionalIsSold
  <2> HIDE DEF f
  <2>4. \A k \in 1..NOrders : g[k] = IF k = o THEN f[o] + d
                                   ELSE IF k = p THEN f[p] + u ELSE f[k]
    BY <1>14 DEF f
  <2> HIDE DEF g
  <2>5. Total(f, NOrders) \in Int /\ Total(g, NOrders) = Total(f, NOrders) + u + d
    <3>1. Moved(f, g, NOrders, p, u, o, d) BY <1>10, <1>15, <2>2, <2>4 DEF Moved
    <3> QED BY <3>1, TotalMoved
  <2>6. c.notional = Total(g, NOrders) BY <1>3, <1>15, <2>1, <2>3, <2>5
  <2> QED BY <2>6 DEF NotionalIsSold, g
<1>17. Sound(c) BY <1>7, <1>11, <1>16 DEF Sound, Ordered
<1>18. StatusExplained(c) BY <1>1, <1>7 DEF StatusExplained, Ordered
<1> QED BY <1>5, <1>17, <1>18, CommitKeepsInvariant DEF c, row

(* The settlement transaction and the environment *)

\* Opening a settlement run keeps the invariant.
LEMMA BeginSettlementStep ==
  ASSUME LedgerInvariant, NEW due \in SUBSET Event, BeginSettlement(due)
  PROVE  LedgerInvariant'
<1> DEFINE b == committed
           rows == [e \in Event |->
                     IF e \in due /\ feed[e].version > 0 THEN feed[e] ELSE b.result[e]]
           c == [b EXCEPT !.result = rows]
<1>1. Sound(b) /\ StatusExplained(b) /\ b \in Book BY InvariantBooks DEF Sound
<1>2. rows \in [Event -> [version : Nat, value : Result]]
  BY <1>1 DEF Book, LedgerInvariant
<1>3. /\ working' = c /\ committed' = b /\ settling' = TRUE
      /\ todo' \subseteq Placed(c) /\ feed' = feed /\ started' = started
  BY DEF BeginSettlement
<1> HIDE DEF rows
<1>4. c \in Book BY <1>1, <1>2 DEF Book
<1>5. SameLedger(b, c) /\ c.status = b.status BY <1>1 DEF Book, SameLedger
<1> HIDE DEF c
<1>6. Sound(c) /\ StatusExplained(c)
  BY <1>1, <1>4, <1>5, SameLedgerSound, SameStatusExplained
<1> QED BY <1>1, <1>3, <1>6 DEF LedgerInvariant, Books

\* Visiting one wager of a run keeps the invariant.
LEMMA SettleNextStep ==
  ASSUME LedgerInvariant, NEW w \in Wager, SettleNext(w)
  PROVE  LedgerInvariant'
<1> DEFINE c == SettleWager(working, w)
<1>1. /\ Sound(committed) /\ StatusExplained(committed)
      /\ Sound(working) /\ StatusExplained(working)
  BY InvariantBooks
<1>2. /\ settling /\ w \in todo /\ w \in Placed(working) /\ CanSettle(working, w)
      /\ working' = c /\ todo' = todo \ {w}
      /\ committed' = committed /\ settling' = settling /\ feed' = feed /\ started' = started
  BY DEF SettleNext, LedgerInvariant
<1> HIDE DEF c
<1>3. Kept(working, c) BY <1>1, <1>2, SettleWagerKept DEF c
<1> QED BY <1>1, <1>2, <1>3 DEF LedgerInvariant, Books, Kept

\* Rolling a run back keeps the invariant.
LEMMA RollBackStep ==
  ASSUME LedgerInvariant, RollBack
  PROVE  LedgerInvariant'
BY DEF LedgerInvariant, RollBack, Books

\* Committing a run keeps the invariant.
LEMMA CommitSettlementStep ==
  ASSUME LedgerInvariant, CommitSettlement
  PROVE  LedgerInvariant'
<1> DEFINE c == CloseEligible(working)
<1>1. Sound(working) /\ StatusExplained(working) BY InvariantBooks
<1>2. Kept(working, c) BY <1>1, CloseEligibleKept
<1>3. /\ todo = {} /\ working' = c /\ committed' = c /\ settling' = FALSE
      /\ todo' = todo /\ feed' = feed /\ started' = started
  BY DEF CommitSettlement
<1> HIDE DEF c
<1> QED BY <1>2, <1>3 DEF LedgerInvariant, Books, Kept

\* Published results and kickoffs keep the invariant.
LEMMA EnvironmentStep ==
  ASSUME LedgerInvariant, Environment
  PROVE  LedgerInvariant'
<1>1. ASSUME NEW e \in Event, NEW value \in Result, PublishResult(e, value)
      PROVE  LedgerInvariant'
  <2>1. feed' \in [Event -> [version : Nat, value : Result]]
    BY <1>1 DEF PublishResult, LedgerInvariant
  <2> QED BY <1>1, <2>1 DEF PublishResult, LedgerInvariant, Books
<1>2. ASSUME NEW e \in Event, KickOff(e) PROVE LedgerInvariant'
  BY <1>2 DEF KickOff, LedgerInvariant, Books
<1> QED BY <1>1, <1>2 DEF Environment

\* The invariant holds of a season that has just opened.
LEMMA InvariantInit ==
  ASSUME Init
  PROVE  LedgerInvariant
<1> DEFINE b == EmptyBook
<1>1. 1 \in Member BY SizesAssumption DEF Member
<1>2. b \in Book
  BY <1>1 DEF EmptyBook, Book, NoOrder, NoTicket, NoLeg, NoSettlement, NoResult, Result
<1>3. Total(b.available, NMembers) = 0 /\ Total(b.locked, NMembers) = 0
  BY SizesAssumption, TotalOfZeros DEF EmptyBook, Member
<1>4. Conserved(b) BY <1>3 DEF EmptyBook, Conserved
<1>5. LockedIsUnsettled(b)
  <2>1. ASSUME NEW m \in Member PROVE Total(UnsettledRisk(b, m), NWagers) = 0
    <3>1. \A i \in 1..NWagers : UnsettledRisk(b, m)[i] = 0
      BY DEF UnsettledRisk, EmptyBook, Wager
    <3> QED BY <3>1, SizesAssumption, TotalOfZeros
  <2>2. \A m \in Member : b.locked[m] = 0 BY DEF EmptyBook
  <2> QED BY <2>1, <2>2 DEF LockedIsUnsettled
<1>6. NotionalIsSold(b)
  <2>1. \A i \in 1..NOrders : StandingValue(b)[i] = 0
    BY DEF StandingValue, EmptyBook, NoOrder, Order
  <2>2. Total(StandingValue(b), NOrders) = 0 BY <2>1, SizesAssumption, TotalOfZeros
  <2> QED BY <2>2 DEF NotionalIsSold, EmptyBook
<1>7. RowsPlaced(b) /\ OutcomesPaid(b) /\ ReversalsRefer(b) /\ StatusExplained(b)
  BY DEF EmptyBook, RowsPlaced, OutcomesPaid, ReversalsRefer, StatusExplained, Placed,
         HasPrior, NoSettlement, NoOrder
<1>8. Sound(b) BY <1>2, <1>4, <1>5, <1>6, <1>7 DEF Sound
<1>9. feed \in [Event -> [version : Nat, value : Result]] BY DEF Init, NoResult, Result
<1> QED BY <1>7, <1>8, <1>9 DEF Init, LedgerInvariant, Books

\* One step of any kind keeps the invariant.
LEMMA InvariantStep ==
  ASSUME LedgerInvariant, [Next]_vars
  PROVE  LedgerInvariant'
<1>1. CASE Command
  <2>1. ASSUME NEW o \in Order, NEW m \in Member, NEW mode \in {"shares", "value"},
               NEW a \in Amount, ExecuteShareOrder(o, m, mode, a)
        PROVE  LedgerInvariant'
    BY <2>1, ExecuteShareOrderStep
  <2>2. ASSUME NEW o \in Order, NEW p \in Order, ReverseShareOrder(o, p)
        PROVE  LedgerInvariant'
    BY <2>2, ReverseShareOrderStep
  <2>3. ASSUME NEW w \in Wager, NEW m \in Member, NEW r \in Risk, NEW t \in Ticket,
               PlaceWager(w, m, r, t)
        PROVE  LedgerInvariant'
    BY <2>3, PlaceWagerStep
  <2>4. ASSUME NEW w \in Wager, VoidWager(w) PROVE LedgerInvariant'
    BY <2>4, VoidWagerStep
  <2>5. ASSUME NEW w \in Wager, NEW corrected \in [Legs(committed, w) -> Result],
               RegradeWager(w, corrected)
        PROVE  LedgerInvariant'
    BY <2>5, RegradeWagerStep
  <2>6. CASE ConfirmSuperBowl \/ CloseSeason BY <2>6, SeasonCommandStep
  <2> QED BY <1>1, <2>1, <2>2, <2>3, <2>4, <2>5, <2>6, Zenon DEF Command
<1>2. CASE Settlement
  <2>1. ASSUME NEW due \in SUBSET Event, BeginSettlement(due) PROVE LedgerInvariant'
    BY <2>1, BeginSettlementStep
  <2>2. ASSUME NEW w \in Wager, SettleNext(w) PROVE LedgerInvariant'
    BY <2>2, SettleNextStep
  <2>3. ASSUME NEW w \in Wager, SettlementThrows(w) PROVE LedgerInvariant'
    BY <2>3, RollBackStep DEF SettlementThrows
  <2>4. CASE Evicted BY <2>4, RollBackStep DEF Evicted
  <2>5. CASE CommitSettlement BY <2>5, CommitSettlementStep
  <2> QED BY <1>2, <2>1, <2>2, <2>3, <2>4, <2>5 DEF Settlement
<1>3. CASE Environment BY <1>3, EnvironmentStep
<1>4. CASE UNCHANGED vars BY <1>4 DEF vars, LedgerInvariant, Books
<1> QED BY <1>1, <1>2, <1>3, <1>4 DEF Next

-----------------------------------------------------------------------------
(* Theorems *)

\* Every reachable book, committed or half-written by a settlement run, is
\* sound and explains the statuses of its wagers.
THEOREM LedgerIsSound == Spec => []LedgerInvariant
<1>1. Init => LedgerInvariant BY InvariantInit
<1>2. LedgerInvariant /\ [Next]_vars => LedgerInvariant' BY InvariantStep
<1> QED BY <1>1, <1>2, PTL DEF Spec

\* No sequence of orders, placements, settlements, regrades and voids makes an
\* account balance negative or a row malformed.
THEOREM TypeCorrect == Spec => []TypeOK
<1>1. LedgerInvariant => TypeOK
  <2> SUFFICES ASSUME LedgerInvariant PROVE TypeOK OBVIOUS
  <2>1. committed \in Book /\ working \in Book BY InvariantBooks DEF Sound
  <2>2. todo \subseteq Wager BY DEF LedgerInvariant, Placed
  <2> QED BY <2>1, <2>2 DEF LedgerInvariant, TypeOK, Books
<1> QED BY <1>1, LedgerIsSound, PTL

\* The float of the season is always exactly the shares its members hold.
THEOREM FloatIsAlwaysHoldings == Spec => []FloatIsHoldings
<1>1. LedgerInvariant => FloatIsHoldings
  BY DEF LedgerInvariant, FloatIsHoldings, Sound
<1> QED BY <1>1, LedgerIsSound, PTL

\* The notional value of the season is always what its standing orders sold for.
THEOREM NotionalIsAlwaysOrders == Spec => []NotionalIsOrders
<1>1. LedgerInvariant => NotionalIsOrders
  BY DEF LedgerInvariant, NotionalIsOrders, Sound
<1> QED BY <1>1, LedgerIsSound, PTL

\* A wager's status always agrees with its current settlement row.
THEOREM StatusAlwaysMatches == Spec => []StatusMatchesSettlement
<1>1. LedgerInvariant => StatusMatchesSettlement
  BY DEF LedgerInvariant, StatusMatchesSettlement
<1> QED BY <1>1, LedgerIsSound, PTL

\* In a sound book whose statuses are explained, the open wagers are the placed
\* wagers without a settlement.
LEMMA OpenIsUnsettled ==
  ASSUME NEW b, Sound(b), StatusExplained(b), NEW m \in Member
  PROVE  b.locked[m] = OpenRisk(b, m)
<1>1. \A w \in Wager : b.status[w] = "open" <=> b.status[w] # "none" /\ ~HasPrior(b, w)
  BY DEF StatusExplained, HasPrior
<1>2. UnsettledRisk(b, m) = [w \in Wager |-> IF b.status[w] = "open" /\ b.owner[w] = m
                                            THEN b.risk[w] ELSE 0]
  BY <1>1 DEF UnsettledRisk
<1>3. b.locked[m] = Total(UnsettledRisk(b, m), NWagers) BY DEF Sound, LockedIsUnsettled
<1> QED BY <1>2, <1>3 DEF OpenRisk

\* Every member's locked balance is always the risk of the member's open wagers.
THEOREM LockedIsAlwaysOpenRisk == Spec => []LockedIsOpenRisk
<1>1. LedgerInvariant => LockedIsOpenRisk
  BY OpenIsUnsettled DEF LedgerInvariant, LockedIsOpenRisk
<1> QED BY <1>1, LedgerIsSound, PTL

\* In a sound book every balance is a part of the season's float, and the value
\* of every standing order a part of its notional value.
LEMMA BalancesWithinFloat ==
  ASSUME NEW b, Sound(b), NEW m \in Member
  PROVE  /\ b.float \in Int /\ b.available[m] \in Nat /\ b.locked[m] \in Nat
         /\ b.available[m] <= b.float /\ b.locked[m] <= b.float
<1>1. b \in Book /\ Conserved(b) BY DEF Sound
<1>2. /\ b.available \in [1..NMembers -> Nat] /\ b.locked \in [1..NMembers -> Nat]
      /\ m \in 1..NMembers /\ NMembers \in Nat /\ b.float \in Int
  BY <1>1, BookFields
<1>3. Total(b.available, NMembers) \in Nat /\ b.available[m] <= Total(b.available, NMembers)
  BY <1>2, TotalBounds
<1>4. Total(b.locked, NMembers) \in Nat /\ b.locked[m] <= Total(b.locked, NMembers)
  BY <1>2, TotalBounds
<1>5. b.available[m] \in Nat /\ b.locked[m] \in Nat BY <1>2
<1> QED BY <1>1, <1>2, <1>3, <1>4, <1>5 DEF Conserved

\* A standing order's value is within the season's notional value.
LEMMA ValueWithinNotional ==
  ASSUME NEW b, Sound(b), NEW o \in Order, b.order[o].placed, ~Reversed(b, o)
  PROVE  b.notional >= b.order[o].value
<1>1. b \in Book /\ b.notional = Total(StandingValue(b), NOrders)
  BY DEF Sound, NotionalIsSold
<1>2. \A p \in Order : b.order[p].value \in Int BY <1>1 DEF Book
<1>3. StandingValue(b) \in [1..NOrders -> Nat] /\ o \in 1..NOrders /\ NOrders \in Nat
  BY <1>1, <1>2, BookFields DEF StandingValue
<1>4. /\ Total(StandingValue(b), NOrders) \in Nat
      /\ StandingValue(b)[o] <= Total(StandingValue(b), NOrders)
  BY <1>3, TotalBounds
<1>5. b.order[o].value > 0 => StandingValue(b)[o] = b.order[o].value
  BY DEF StandingValue
<1> QED BY <1>1, <1>2, <1>4, <1>5

\* The risk of a wager without a settlement is within its owner's locked balance.
LEMMA RiskWithinLocked ==
  ASSUME NEW b, Sound(b), NEW w \in Placed(b), ~HasPrior(b, w)
  PROVE  b.risk[w] <= b.locked[b.owner[w]]
<1> DEFINE m == b.owner[w]
           f == UnsettledRisk(b, m)
<1>1. b \in Book /\ LockedIsUnsettled(b) /\ w \in Wager /\ b.status[w] # "none"
  BY DEF Sound, Placed
<1>2. m \in Member /\ NWagers \in Nat /\ w \in 1..NWagers BY <1>1, BookFields
<1>3. f \in [1..NWagers -> Nat] /\ f[w] = b.risk[w] BY <1>1, <1>2, UnsettledType
<1>4. b.locked[m] = Total(f, NWagers) BY <1>1, <1>2 DEF LockedIsUnsettled
<1> HIDE DEF f
<1>5. f[w] <= Total(f, NWagers) BY <1>2, <1>3, TotalBounds
<1> QED BY <1>3, <1>4, <1>5

\* The tests of the season's totals in applyLedger and reverseOrder never decide.
THEOREM TotalsAlwaysFollow == Spec => []TotalsFollowAccounts
<1>1. ASSUME NEW b, Sound(b), NEW w \in Placed(b)
      PROVE  IF HasPrior(b, w)
             THEN b.available[b.owner[w]] >= b.settled[w].return
                    => b.float + ReversalFloat(b, w) >= 0
             ELSE b.float >= b.risk[w]
  <2>1. w \in Wager /\ b \in Book /\ OutcomesPaid(b) BY <1>1 DEF Sound, Placed
  <2>2. b.owner[w] \in Member /\ b.risk[w] \in Nat BY <2>1, BookFields
  <2>3. /\ b.float \in Int /\ b.available[b.owner[w]] \in Nat /\ b.locked[b.owner[w]] \in Nat
        /\ b.available[b.owner[w]] <= b.float /\ b.locked[b.owner[w]] <= b.float
    BY <1>1, <2>2, BalancesWithinFloat
  <2>4. CASE HasPrior(b, w)
    <3>1. /\ b.settled[w].return = Return(b.risk[w], b.settled[w].outcome, b.settled[w].profit)
          /\ b.settled[w].outcome \in {"win", "loss", "refund"}
          /\ b.settled[w].profit \in Nat
      BY <2>1, <2>4 DEF OutcomesPaid, HasPrior, Book
    <3> QED BY <2>2, <2>3, <2>4, <3>1 DEF Return, ReversalFloat
  <2>5. CASE ~HasPrior(b, w)
    <3>1. b.risk[w] <= b.locked[b.owner[w]] BY <1>1, <2>5, RiskWithinLocked
    <3> QED BY <2>2, <2>3, <2>5, <3>1
  <2> QED BY <2>4, <2>5
<1>2. ASSUME NEW b, Sound(b), NEW o \in Order, b.order[o].placed, ~Reversed(b, o)
      PROVE  /\ b.available[b.order[o].member] >= b.order[o].shares
                  => b.float >= b.order[o].shares
             /\ b.notional >= b.order[o].value
  <2>1. b.order[o].member \in Member /\ b.order[o].shares \in Int
    BY <1>2 DEF Sound, Book
  <2>2. /\ b.float \in Int /\ b.available[b.order[o].member] \in Nat
        /\ b.available[b.order[o].member] <= b.float
    BY <1>2, <2>1, BalancesWithinFloat
  <2> QED BY <1>2, <2>1, <2>2, ValueWithinNotional
<1>3. LedgerInvariant => TotalsFollowAccounts
  <2> SUFFICES ASSUME LedgerInvariant, NEW b \in Books
               PROVE  /\ \A w \in Placed(b) :
                           IF HasPrior(b, w)
                           THEN b.available[b.owner[w]] >= b.settled[w].return
                                  => b.float + ReversalFloat(b, w) >= 0
                           ELSE b.float >= b.risk[w]
                      /\ \A o \in Order :
                           b.order[o].placed /\ ~Reversed(b, o)
                             => /\ b.available[b.order[o].member] >= b.order[o].shares
                                     => b.float >= b.order[o].shares
                                /\ b.notional >= b.order[o].value
    BY DEF TotalsFollowAccounts
  <2>1. Sound(b) BY DEF LedgerInvariant
  <2> QED BY <1>1, <1>2, <2>1, Zenon
<1> QED BY <1>3, LedgerIsSound, PTL

\* The books of a season always balance.
THEOREM BooksAlwaysBalance == Spec => []BooksBalance
<1>1. FloatIsHoldings /\ LockedIsOpenRisk /\ NotionalIsOrders /\ TotalsFollowAccounts
        => BooksBalance
  BY DEF BooksBalance
<1> QED BY <1>1, FloatIsAlwaysHoldings, LockedIsAlwaysOpenRisk, NotionalIsAlwaysOrders,
           TotalsAlwaysFollow, PTL

(* A closed season: an open run has written nothing but result snapshots. *)

FrozenAs(b, c) == [c EXCEPT !.result = b.result] = b

RunLeavesClosed ==
  committed.state = "closed" => todo = {} /\ FrozenAs(committed, working)

\* A book is frozen as itself.
LEMMA SameIsFrozen ==
  ASSUME NEW b \in Book
  PROVE  FrozenAs(b, b)
BY DEF FrozenAs, Book

\* A step from a closed season keeps its book frozen and its run idle.
LEMMA ClosedStep ==
  ASSUME LedgerInvariant, RunLeavesClosed, committed.state = "closed", [Next]_vars
  PROVE  /\ FrozenAs(committed, committed')
         /\ todo' = {} /\ FrozenAs(committed', working')
<1>1. committed \in Book /\ working \in Book BY InvariantBooks DEF Sound
<1>2. todo = {} /\ FrozenAs(committed, working) BY DEF RunLeavesClosed
<1>3. FrozenAs(committed, committed) BY <1>1, SameIsFrozen
<1>4. ~Command
  BY DEF Command, ExecuteShareOrder, ReverseShareOrder, PlaceWager, VoidWager,
         RegradeWager, ConfirmSuperBowl, CloseSeason
<1>5. CASE UNCHANGED <<committed, working, todo>> BY <1>2, <1>3, <1>5
<1>6. ASSUME NEW due \in SUBSET Event, BeginSettlement(due)
      PROVE  committed' = committed /\ todo' = {} /\ FrozenAs(committed, working')
  <2> DEFINE rows == [e \in Event |-> IF e \in due /\ feed[e].version > 0
                                     THEN feed[e] ELSE committed.result[e]]
  <2>1. working' = [committed EXCEPT !.result = rows] /\ committed' = committed
    BY <1>6 DEF BeginSettlement
  <2>2. todo' = {}
    <3>1. working'.state = "closed" BY <1>1, <2>1 DEF Book
    <3> QED BY <1>6, <3>1 DEF BeginSettlement
  <2> HIDE DEF rows
  <2>3. FrozenAs(committed, working') BY <1>1, <2>1 DEF FrozenAs, Book
  <2> QED BY <2>1, <2>2, <2>3
<1>7. CASE CommitSettlement
  <2>1. working.state = "closed" BY <1>1, <1>2 DEF FrozenAs, Book
  <2>2. CloseEligible(working) = working BY <2>1 DEF CloseEligible
  <2>3. committed' = working /\ working' = working /\ todo' = todo
    BY <1>7, <2>2 DEF CommitSettlement
  <2> QED BY <1>1, <1>2, <2>3, SameIsFrozen
<1>8. CASE RollBack BY <1>3, <1>8 DEF RollBack
<1>9. ASSUME NEW w \in Wager PROVE ~SettleNext(w) BY <1>2 DEF SettleNext
<1>10. CASE Settlement
  <2>1. CASE \E due \in (SUBSET Event) \ {{}} : BeginSettlement(due)
    BY <1>3, <1>6, <2>1
  <2>2. CASE RollBack BY <1>8, <2>2
  <2> QED BY <1>7, <1>9, <1>10, <2>1, <2>2 DEF Settlement, SettlementThrows, Evicted
<1>11. CASE Environment
  BY <1>5, <1>11 DEF Environment, PublishResult, KickOff
<1>12. CASE UNCHANGED vars BY <1>5, <1>12 DEF vars
<1> QED BY <1>4, <1>10, <1>11, <1>12 DEF Next

\* A step that writes a whole book outside a settlement run.
BooksMeet == ~settling /\ committed' = working' /\ todo' = todo

\* From an active season a step leaves nothing pending in a season it closes.
LEMMA ClosingStep ==
  ASSUME LedgerInvariant, committed.state # "closed", [Next]_vars
  PROVE  RunLeavesClosed'
<1>1. CASE committed' = committed BY <1>1 DEF RunLeavesClosed
<1>2. CASE ~settling /\ committed' = working' /\ todo' = todo
  <2>1. committed' = working' /\ todo' = {} BY <1>2 DEF LedgerInvariant
  <2>2. LedgerInvariant' BY InvariantStep
  <2>3. committed' \in Book BY <2>2 DEF LedgerInvariant, Books, Sound
  <2> QED BY <2>1, <2>3, SameIsFrozen DEF RunLeavesClosed
<1>3. CASE CommitSettlement
  <2>1. committed' = working' /\ todo' = {} BY <1>3 DEF CommitSettlement
  <2>2. LedgerInvariant' BY InvariantStep
  <2>3. committed' \in Book BY <2>2 DEF LedgerInvariant, Books, Sound
  <2> QED BY <2>1, <2>3, SameIsFrozen DEF RunLeavesClosed
<1>4. CASE Command
  <2>1. ASSUME NEW b, Idle, Commit(b) PROVE BooksMeet BY <2>1 DEF Idle, Commit, BooksMeet
  <2>2. ASSUME NEW o \in Order, NEW m \in Member, NEW mode \in {"shares", "value"},
               NEW a \in Amount, ExecuteShareOrder(o, m, mode, a)
        PROVE  BooksMeet
    BY <2>1, <2>2 DEF ExecuteShareOrder
  <2>3. ASSUME NEW o \in Order, NEW p \in Order, ReverseShareOrder(o, p) PROVE BooksMeet
    BY <2>1, <2>3 DEF ReverseShareOrder
  <2>4. ASSUME NEW w \in Wager, NEW m \in Member, NEW r \in Risk, NEW t \in Ticket,
               PlaceWager(w, m, r, t)
        PROVE  BooksMeet
    BY <2>1, <2>4 DEF PlaceWager
  <2>5. ASSUME NEW w \in Wager, VoidWager(w) PROVE BooksMeet BY <2>1, <2>5 DEF VoidWager
  <2>6. ASSUME NEW w \in Wager, NEW corrected \in [Legs(committed, w) -> Result],
               RegradeWager(w, corrected)
        PROVE  BooksMeet
    BY <2>1, <2>6 DEF RegradeWager
  <2>7. ASSUME ConfirmSuperBowl \/ CloseSeason PROVE BooksMeet
    BY <2>7 DEF ConfirmSuperBowl, CloseSeason, Idle, Commit, BooksMeet
  <2>8. BooksMeet BY <1>4, <2>2, <2>3, <2>4, <2>5, <2>6, <2>7, Zenon DEF Command
  <2> QED BY <1>2, <2>8 DEF BooksMeet
<1>5. CASE Settlement
  BY <1>1, <1>3, <1>5 DEF Settlement, BeginSettlement, SettleNext, SettlementThrows,
       Evicted, RollBack
<1>6. CASE Environment
  BY <1>1, <1>6 DEF Environment, PublishResult, KickOff
<1>7. CASE UNCHANGED vars BY <1>1, <1>7 DEF vars
<1> QED BY <1>4, <1>5, <1>6, <1>7 DEF Next

\* No step changes the accounts, orders, wagers or settlements of a closed season.
THEOREM ClosedStaysFrozen == Spec => ClosedIsFrozen
<1> DEFINE Inv == LedgerInvariant /\ RunLeavesClosed
<1>1. Init => Inv
  <2> SUFFICES ASSUME Init PROVE LedgerInvariant /\ RunLeavesClosed OBVIOUS
  <2>1. committed.state = "active" BY DEF Init, EmptyBook
  <2> QED BY <2>1, InvariantInit DEF RunLeavesClosed
<1>2. Inv /\ [Next]_vars => Inv'
  <2> SUFFICES ASSUME LedgerInvariant, RunLeavesClosed, [Next]_vars
               PROVE  LedgerInvariant' /\ RunLeavesClosed'
    OBVIOUS
  <2>1. LedgerInvariant' BY InvariantStep
  <2>2. CASE committed.state = "closed" BY <2>1, <2>2, ClosedStep DEF RunLeavesClosed
  <2>3. CASE committed.state # "closed" BY <2>1, <2>3, ClosingStep
  <2> QED BY <2>2, <2>3
<1>3. Inv /\ [Next]_vars
        => [committed.state = "closed" =>
              [committed' EXCEPT !.result = committed.result] = committed]_vars
  BY ClosedStep DEF FrozenAs
<1> QED BY <1>1, <1>2, <1>3, PTL DEF Spec, ClosedIsFrozen

-----------------------------------------------------------------------------
(***************************************************************************)
(* What a settlement run decides: every wager stands where its newest      *)
(* evidence puts it, a commissioner's settlement gives way only to a       *)
(* complete and new set of results, and a season that closed by itself     *)
(* owes nothing.  The argument is per wager: a run rewrites one row at a   *)
(* time, and a row can only be behind the results it was graded on in a    *)
(* way that shows in its versions.  The last part is about the price       *)
(* orders are executed at.                                                 *)
(***************************************************************************)

(* The inductive invariant *)

\* A leg was never graded on a version the season has not seen; what the system
\* settled, it settled on observed results, and on all of them unless it is a
\* loss; a manual mark belongs to a settlement.
RowGraded(b, w) ==
  /\ \A e \in Event : b.leg[w][e].version <= b.result[e].version
  /\ HasPrior(b, w) /\ ~b.settled[w].manual =>
       /\ b.settled[w].evidence \subseteq Observed(b)
       /\ b.settled[w].outcome # "loss" => b.settled[w].evidence = Legs(b, w)
  /\ b.settled[w].manual => HasPrior(b, w)

UpToDate(b, w) ==
  \A e \in Legs(b, w) \cap Observed(b) : b.leg[w][e].version = b.result[e].version

\* What EvidenceDecides says of one wager of a book.
Decided(b, w) ==
  ~b.settled[w].manual /\ UpToDate(b, w) => b.settled[w].outcome = SystemOutcome(b, w)

Good(b) ==
  /\ \A w \in Wager : RowGraded(b, w)
  /\ \A w \in Placed(b) : Decided(b, w)

\* A snapshot is the published result of its version.
FromFeed(b) ==
  \A e \in Event : /\ b.result[e].version <= feed[e].version
                   /\ b.result[e].version = feed[e].version => b.result[e] = feed[e]

Automatic == {"float_exhausted", "super_bowl_final"}

\* A book that closed by itself has nothing unresolved.
Final(b) ==
  b.reason \in Automatic =>
    /\ b.state = "closed"
    /\ \A w \in Placed(b) : ~Unresolved(b, w)
    /\ b.reason = "float_exhausted" => b.float = 0

\* A run visits wagers of an active season that need it; what it writes is never a
\* commissioner's settlement, nor an order.
RunIsNeeded ==
  /\ todo # {} => working.state = "active"
  /\ \A w \in todo : NeedsSettling(working, w)
  /\ settling => \A w \in Wager :
       working.settled[w].manual => working.settled[w] = committed.settled[w]
  /\ settling => working.order = committed.order

EvidenceInvariant ==
  /\ \A b \in Books : Good(b) /\ FromFeed(b) /\ Final(b)
  /\ RunIsNeeded

-----------------------------------------------------------------------------
(* One wager's row *)

\* The rows of v are the same in both books.
SameRow(b, c, v) ==
  /\ c.ticket[v] = b.ticket[v] /\ c.leg[v] = b.leg[v] /\ c.settled[v] = b.settled[v]
  /\ c.result = b.result

\* What the invariant says of a wager depends on its rows and on the results only.
LEMMA RowIsLocal ==
  ASSUME NEW b, NEW c, NEW v, SameRow(b, c, v)
  PROVE  /\ RowGraded(b, v) => RowGraded(c, v)
         /\ Decided(b, v) => Decided(c, v)
         /\ NeedsSettling(b, v) => NeedsSettling(c, v)
<1>1. /\ Observed(c) = Observed(b) /\ Legs(c, v) = Legs(b, v)
      /\ HasPrior(c, v) = HasPrior(b, v) /\ ResultValues(c) = ResultValues(b)
  BY DEF SameRow, Observed, Legs, HasPrior, ResultValues
<1>2. SystemOutcome(c, v) = SystemOutcome(b, v)
  BY <1>1 DEF SameRow, SystemOutcome, SystemGrades
<1>3. RowGraded(b, v) => RowGraded(c, v) BY <1>1 DEF SameRow, RowGraded
<1>4. Decided(b, v) => Decided(c, v) BY <1>1, <1>2 DEF SameRow, Decided, UpToDate
<1>5. NeedsSettling(b, v) => NeedsSettling(c, v) BY <1>1 DEF SameRow, NeedsSettling
<1> QED BY <1>3, <1>4, <1>5

\* A book whose wagers are the same is as good.
LEMMA SameRowsGood ==
  ASSUME NEW b, NEW c, Good(b), Placed(c) = Placed(b), \A v \in Wager : SameRow(b, c, v)
  PROVE  Good(c)
<1>1. \A v \in Placed(b) : v \in Wager BY DEF Placed
<1> QED BY <1>1, RowIsLocal DEF Good

\* A book in which one wager's row was rewritten is as good, if that row is.
LEMMA OneRowGood ==
  ASSUME NEW b, NEW c, Good(b), NEW w \in Wager,
         RowGraded(c, w), Decided(c, w),
         \A v \in Wager \ {w} : SameRow(b, c, v) /\ (v \in Placed(c) => v \in Placed(b))
  PROVE  Good(c)
<1>1. \A v \in Wager : RowGraded(c, v) BY RowIsLocal DEF Good
<1>2. ASSUME NEW v \in Placed(c) PROVE Decided(c, v)
  <2>1. CASE v = w BY <2>1
  <2>2. CASE v # w
    <3>1. v \in Wager \ {w} BY <2>2 DEF Placed
    <3> QED BY <3>1, RowIsLocal DEF Good
  <2> QED BY <2>1, <2>2
<1> QED BY <1>1, <1>2 DEF Good

(* What the helpers of settlement.ts leave of the rows *)

\* The settlement table of a book.
SettlementRows == [outcome : {"none", "win", "loss", "refund"}, return : Nat, profit : Nat,
                   manual : BOOLEAN, evidence : SUBSET Event]

\* A posting to an account leaves the season's state and orders alone.
LEMMA PostingState ==
  ASSUME NEW b \in Book, NEW w, NEW available, NEW locked, NEW float
  PROVE  LET c == ApplyLedger(b, w, available, locked, float)
         IN  c.state = b.state /\ c.reason = b.reason /\ c.order = b.order
<1> DEFINE av == [b.available EXCEPT ![b.owner[w]] = @ + available]
           lk == [b.locked EXCEPT ![b.owner[w]] = @ + locked]
           fl == b.float + float
<1>1. ApplyLedger(b, w, available, locked, float)
        = [b EXCEPT !.available = av, !.locked = lk, !.float = fl]
  BY DEF ApplyLedger
<1> HIDE DEF av, lk, fl
<1> QED BY <1>1 DEF Book

\* c is b with another settlement of w; the season's state is the same.
Rewritten(b, c, w) ==
  /\ c.state = b.state /\ c.reason = b.reason /\ c.order = b.order
  /\ c.ticket = b.ticket /\ c.leg = b.leg /\ c.result = b.result
  /\ \A v \in Wager \ {w} : c.settled[v] = b.settled[v]

\* Undoing a settlement rewrites one row.
LEMMA ReversePriorRows ==
  ASSUME NEW b, Sound(b), NEW w \in Wager, HasPrior(b, w), CanReverse(b, w)
  PROVE  LET c == ReversePrior(b, w)
         IN  Rewritten(b, c, w) /\ c.settled[w] = NoSettlement /\ c.status = b.status
<1> DEFINE p == ApplyLedger(b, w, -b.settled[w].return, b.risk[w], ReversalFloat(b, w))
           c == [p EXCEPT !.settled[w] = NoSettlement]
<1>0. b \in Book /\ OutcomesPaid(b) BY DEF Sound
<1>1. p.state = b.state /\ p.reason = b.reason /\ p.order = b.order BY <1>0, PostingState
<1>2. p \in Book
  <2>1. /\ -b.settled[w].return \in Int /\ b.risk[w] \in Int /\ ReversalFloat(b, w) \in Int
    BY <1>0, ReversalArithmetic
  <2>2. LedgerAllows(b, w, -b.settled[w].return, b.risk[w], ReversalFloat(b, w))
    BY DEF CanReverse
  <2> QED BY <1>0, <2>1, <2>2, PostingFields DEF Posted
<1>3. ReversePrior(b, w) = c BY DEF ReversePrior
<1>4. PriorUndone(b, c, w) BY <1>3, ReversePriorSound
<1> HIDE DEF p
<1>5. c.state = p.state /\ c.reason = p.reason /\ c.order = p.order BY <1>2 DEF Book
<1> HIDE DEF c
<1>6. /\ c.ticket = b.ticket /\ c.leg = b.leg /\ c.result = b.result /\ c.status = b.status
      /\ c.settled = [b.settled EXCEPT ![w] = NoSettlement]
  BY <1>4 DEF PriorUndone
<1>7. b.settled \in [Wager -> SettlementRows] BY <1>0 DEF Book, SettlementRows
<1>8. c.settled[w] = NoSettlement /\ \A v \in Wager \ {w} : c.settled[v] = b.settled[v]
  BY <1>6, <1>7
<1> QED BY <1>1, <1>3, <1>5, <1>6, <1>8 DEF Rewritten

\* ... and the new settlement has this outcome, mark and evidence.
RewrittenAs(b, c, w, outcome, manual, evidence) ==
  /\ Rewritten(b, c, w)
  /\ c.settled[w].outcome = outcome /\ c.settled[w].manual = manual
  /\ c.settled[w].evidence = evidence

\* Replacing a settlement rewrites one row.
LEMMA ReplaceRows ==
  ASSUME NEW b, Sound(b), NEW w \in Placed(b),
         NEW outcome \in {"win", "loss", "refund"}, NEW profit \in Nat,
         NEW manual \in BOOLEAN, NEW evidence \in SUBSET Event,
         CanReplace(b, w, outcome, profit)
  PROVE  RewrittenAs(b, Replace(b, w, outcome, profit, manual, evidence),
                     w, outcome, manual, evidence)
<1> DEFINE d == WithoutPrior(b, w)
           p == ApplyLedger(d, w, Return(d.risk[w], outcome, profit), -d.risk[w],
                            SettlementFloat(d.risk[w], outcome, profit))
           row == [outcome |-> outcome, return |-> Return(d.risk[w], outcome, profit),
                   profit |-> profit, manual |-> manual, evidence |-> evidence]
           st == StatusOf(outcome)
           loss == p.lossEntry \/ outcome = "loss"
           c == [p EXCEPT !.status[w] = st, !.settled[w] = row, !.lossEntry = loss]
<1>0. w \in Wager BY DEF Placed
<1>1. Sound(d) /\ ~HasPrior(d, w) /\ d.status = b.status /\ d.risk = b.risk
  BY <1>0, WithoutPriorSound DEF CanReplace
<1>2. Rewritten(b, d, w)
  <2>1. CASE HasPrior(b, w) BY <1>0, <2>1, ReversePriorRows DEF WithoutPrior, CanReplace
  <2>2. CASE ~HasPrior(b, w) BY <2>2 DEF WithoutPrior, Rewritten
  <2> QED BY <2>1, <2>2
<1>3. CanApply(d, w, outcome, profit) /\ w \in Placed(d) BY <1>1 DEF CanReplace, Placed
<1>4. Replace(b, w, outcome, profit, manual, evidence)
        = ApplySettlement(d, w, outcome, profit, manual, evidence)
  BY DEF Replace
<1> HIDE DEF d
<1>5. ApplySettlement(d, w, outcome, profit, manual, evidence) = c BY DEF ApplySettlement
<1>6. SettledAs(d, c, w, outcome, profit, manual, evidence)
  BY <1>1, <1>3, <1>5, ApplySettlementSound
<1>7. p \in Book /\ p.state = d.state /\ p.reason = d.reason /\ p.order = d.order
  <2>1. d \in Book BY <1>1 DEF Sound
  <2>2. d.risk[w] \in Nat BY <1>0, <2>1, BookFields
  <2>3. /\ Return(d.risk[w], outcome, profit) \in Nat
        /\ SettlementFloat(d.risk[w], outcome, profit) \in Int
    BY <2>2, OutcomeArithmetic
  <2>4. LedgerAllows(d, w, Return(d.risk[w], outcome, profit), -d.risk[w],
                     SettlementFloat(d.risk[w], outcome, profit))
    BY <1>3 DEF CanApply
  <2>5. -d.risk[w] \in Int /\ Return(d.risk[w], outcome, profit) \in Int BY <2>2, <2>3
  <2>6. Posted(d, p, w, Return(d.risk[w], outcome, profit), -d.risk[w],
               SettlementFloat(d.risk[w], outcome, profit))
    BY <1>0, <2>1, <2>3, <2>4, <2>5, PostingFields
  <2>7. p.state = d.state /\ p.reason = d.reason /\ p.order = d.order
    BY <2>1, PostingState
  <2> HIDE DEF p
  <2> QED BY <2>6, <2>7 DEF Posted
<1> HIDE DEF p, st, loss
<1>8. c.state = p.state /\ c.reason = p.reason /\ c.order = p.order
  <2> HIDE DEF row
  <2> QED BY <1>7 DEF Book
<1> HIDE DEF c
<1>9. /\ c.ticket = d.ticket /\ c.leg = d.leg /\ c.result = d.result
      /\ c.settled = [d.settled EXCEPT ![w] = row]
  BY <1>6 DEF SettledAs
<1>10. d.settled \in [Wager -> SettlementRows] BY <1>1 DEF Sound, Book, SettlementRows
<1>11. /\ c.settled[w] = row
       /\ \A v \in Wager \ {w} : c.settled[v] = d.settled[v]
  <2> HIDE DEF row
  <2> QED BY <1>0, <1>9, <1>10
<1>12. Rewritten(b, c, w) BY <1>2, <1>7, <1>8, <1>9, <1>11 DEF Rewritten
<1> QED BY <1>4, <1>5, <1>11, <1>12 DEF RewrittenAs

(* The settlement of one wager *)

\* A decided ticket has an outcome; without a pending leg, every ticket is decided.
LEMMA KnownLegsDecide ==
  ASSUME NEW b, NEW w, Legs(b, w) \subseteq Observed(b)
  PROVE  SystemOutcome(b, w) # "none"
<1>1. \A e \in Legs(b, w) : SystemGrades(b, w)[e] \in LegGrades
  BY GradeLegType DEF SystemGrades, Grades, Legs
<1>2. \A e \in DOMAIN b.ticket[w].picks : SystemGrades(b, w)[e] # "pending"
  BY <1>1 DEF LegGrades, Legs
<1> QED BY <1>2, GradeTicketType DEF SystemOutcome

\* Before any of its results is known, a ticket is undecided.
LEMMA UnknownLegsPend ==
  ASSUME NEW b, NEW w, Legs(b, w) # {}, Legs(b, w) \cap Observed(b) = {}
  PROVE  SystemOutcome(b, w) = "none"
<1>1. \A e \in DOMAIN b.ticket[w].picks : SystemGrades(b, w)[e] = "pending"
  BY DEF SystemGrades, Grades, Legs
<1>2. \E e \in DOMAIN b.ticket[w].picks : TRUE BY DEF Legs
<1> QED BY <1>1, <1>2 DEF SystemOutcome, GradeTicket

\* Grading the observed legs rewrites one wager's legs.
LEMMA GradeObservedRows ==
  ASSUME NEW b, Sound(b), NEW w \in Placed(b)
  PROVE  LET g == GradeObservedLegs(b, w)
         IN  /\ g.state = b.state /\ g.reason = b.reason /\ g.order = b.order
             /\ g.ticket = b.ticket
             /\ g.result = b.result /\ g.settled = b.settled /\ g.status = b.status
             /\ \A v \in Wager \ {w} : g.leg[v] = b.leg[v]
             /\ \A e \in Event : g.leg[w][e].version =
                  IF e \in Legs(b, w) \cap Observed(b) THEN b.result[e].version
                  ELSE b.leg[w][e].version
<1> DEFINE rows == [e \in Event |->
             IF e \in Legs(b, w) \cap Observed(b)
             THEN [grade |-> SystemGrades(b, w)[e], version |-> b.result[e].version]
             ELSE b.leg[w][e]]
           g == [b EXCEPT !.leg[w] = rows]
<1>1. w \in Wager /\ b \in Book BY TicketRows
<1>2. GradeObservedLegs(b, w) = g BY DEF GradeObservedLegs
<1>3. \A e \in Event : rows[e].version =
        IF e \in Legs(b, w) \cap Observed(b) THEN b.result[e].version
        ELSE b.leg[w][e].version
  OBVIOUS
<1> HIDE DEF rows
<1>4. /\ g.state = b.state /\ g.reason = b.reason /\ g.order = b.order
      /\ g.ticket = b.ticket
      /\ g.result = b.result /\ g.settled = b.settled /\ g.status = b.status
      /\ g.leg = [b.leg EXCEPT ![w] = rows]
  BY <1>1 DEF Book
<1> HIDE DEF g
<1>5. g.leg[w] = rows /\ \A v \in Wager \ {w} : g.leg[v] = b.leg[v]
  BY <1>1, <1>4 DEF Book
<1> QED BY <1>2, <1>3, <1>4, <1>5

\* What the body of the loop does to the book: one row is rewritten, with what the
\* results decide, on the evidence they are, and never with a commissioner's mark.
Visited(b, c, w) ==
  /\ c.state = b.state /\ c.reason = b.reason /\ c.order = b.order /\ c.result = b.result
  /\ c.ticket = b.ticket
  /\ \A v \in Wager \ {w} : c.leg[v] = b.leg[v] /\ c.settled[v] = b.settled[v]
  /\ \A e \in Event : c.leg[w][e].version =
       IF e \in Legs(b, w) \cap Observed(b) THEN b.result[e].version ELSE b.leg[w][e].version
  /\ IF SystemOutcome(b, w) = "none"
     THEN IF PartialLoss(b, w) THEN c.settled[w] = NoSettlement
          ELSE c.settled[w] = b.settled[w]
     ELSE /\ c.settled[w].outcome = SystemOutcome(b, w) /\ ~c.settled[w].manual
          /\ c.settled[w].evidence = Legs(b, w) \cap Observed(b)

LEMMA SettleWagerRows ==
  ASSUME NEW b, Sound(b), StatusExplained(b), NEW w \in Placed(b), CanSettle(b, w)
  PROVE  Visited(b, SettleWager(b, w), w)
<1> DEFINE g == GradeObservedLegs(b, w)
           outcome == SystemOutcome(b, w)
           profit == SystemProfit(b, w)
           seen == Legs(b, w) \cap Observed(b)
<1>1. w \in Wager /\ b \in Book /\ Legs(b, w) \in SUBSET Event BY TicketRows
<1>2. Sound(g) /\ Placed(g) = Placed(b) BY GradeObservedLegsKept DEF Kept
<1>3. /\ g.state = b.state /\ g.reason = b.reason /\ g.order = b.order
      /\ g.ticket = b.ticket
      /\ g.result = b.result /\ g.settled = b.settled
      /\ \A v \in Wager \ {w} : g.leg[v] = b.leg[v]
      /\ \A e \in Event : g.leg[w][e].version =
           IF e \in Legs(b, w) \cap Observed(b) THEN b.result[e].version
           ELSE b.leg[w][e].version
  BY GradeObservedRows
<1> HIDE DEF g
<1>4. CASE outcome = "none" /\ ~PartialLoss(b, w)
  <2>1. SettleWager(b, w) = g BY <1>4 DEF SettleWager, g
  <2> QED BY <1>3, <1>4, <2>1 DEF Visited
<1>5. CASE outcome = "none" /\ PartialLoss(b, w)
  <2> DEFINE u == ReversePrior(g, w)
             c == [u EXCEPT !.status[w] = "open"]
  <2>1. SettleWager(b, w) = c BY <1>5 DEF SettleWager, Reopen, g
  <2>2. HasPrior(g, w) BY <1>3, <1>5 DEF HasPrior, PartialLoss
  <2>3. CanReverse(g, w) BY <1>5 DEF CanSettle, g
  <2>4. Rewritten(g, u, w) /\ u.settled[w] = NoSettlement
    BY <1>1, <1>2, <2>2, <2>3, ReversePriorRows
  <2>5. u \in Book BY <1>1, <1>2, <2>2, <2>3, ReversePriorSound DEF PriorUndone, Sound
  <2> HIDE DEF u
  <2>6. /\ c.state = u.state /\ c.reason = u.reason /\ c.order = u.order
        /\ c.ticket = u.ticket
        /\ c.leg = u.leg /\ c.result = u.result /\ c.settled = u.settled
    BY <2>5 DEF Book
  <2> HIDE DEF c
  <2> QED BY <1>3, <1>5, <2>1, <2>4, <2>6 DEF Visited, Rewritten
<1>6. CASE outcome # "none"
  <2> DEFINE c == Replace(g, w, outcome, profit, FALSE, seen)
  <2>1. SettleWager(b, w) = c BY <1>6 DEF SettleWager, g
  <2>2. CanReplace(g, w, outcome, profit) BY <1>6 DEF CanSettle, g
  <2>3. outcome \in {"win", "loss", "refund"} BY <1>6, GradeTicketType DEF SystemOutcome
  <2>4. profit \in Nat BY ProfitType DEF SystemProfit
  <2>5. seen \in SUBSET Event /\ FALSE \in BOOLEAN BY <1>1
  <2> HIDE DEF outcome, profit, seen
  <2>6. RewrittenAs(g, c, w, outcome, FALSE, seen)
    BY <1>2, <2>2, <2>3, <2>4, <2>5, ReplaceRows
  <2> HIDE DEF c
  <2> QED BY <1>3, <1>6, <2>1, <2>6 DEF Visited, Rewritten, RewrittenAs, outcome, seen
<1> QED BY <1>4, <1>5, <1>6

\* A visited wager stands where the results put it.
LEMMA VisitedIsGood ==
  ASSUME NEW b, Sound(b), Good(b), NEW w \in Placed(b), NEW c, Visited(b, c, w),
         Placed(c) = Placed(b)
  PROVE  Good(c)
<1>1. w \in Wager /\ b \in Book /\ Legs(b, w) \in SUBSET Event BY TicketRows
<1>2. RowGraded(b, w) /\ Decided(b, w) BY <1>1 DEF Good
<1>3. /\ Legs(c, w) = Legs(b, w) /\ Observed(c) = Observed(b)
      /\ SystemOutcome(c, w) = SystemOutcome(b, w)
  BY DEF Visited, Legs, Observed, SystemOutcome, SystemGrades, ResultValues
<1>4. \A e \in Event : c.leg[w][e].version <= c.result[e].version
  <2>1. \A e \in Event : b.result[e].version \in Nat BY <1>1 DEF Book
  <2>2. \A e \in Event : b.leg[w][e].version <= b.result[e].version BY <1>2 DEF RowGraded
  <2> QED BY <2>1, <2>2 DEF Visited
<1>5. CASE SystemOutcome(b, w) # "none"
  <2>1. /\ c.settled[w].outcome = SystemOutcome(b, w) /\ ~c.settled[w].manual
        /\ c.settled[w].evidence = Legs(b, w) \cap Observed(b)
    BY <1>5 DEF Visited
  <2>2. SystemOutcome(b, w) # "loss" => Legs(b, w) \cap Observed(b) = Legs(b, w)
    <3> SUFFICES ASSUME SystemOutcome(b, w) # "loss", NEW e \in Legs(b, w)
                 PROVE  e \in Observed(b)
      OBVIOUS
    <3> SUFFICES ASSUME e \notin Observed(b) PROVE FALSE OBVIOUS
    <3>1. SystemGrades(b, w)[e] = "pending" BY DEF SystemGrades, Grades, Legs
    <3> QED BY <1>5, <3>1 DEF SystemOutcome, GradeTicket, Legs
  <2>3. RowGraded(c, w) BY <1>3, <1>4, <2>1, <2>2 DEF RowGraded, HasPrior
  <2>4. Decided(c, w) BY <1>3, <2>1 DEF Decided
  <2> QED BY <1>1, <2>3, <2>4, OneRowGood DEF Visited, SameRow
<1>6. CASE SystemOutcome(b, w) = "none" /\ PartialLoss(b, w)
  <2>1. c.settled[w] = NoSettlement BY <1>6 DEF Visited
  <2>2. RowGraded(c, w) BY <1>4, <2>1 DEF RowGraded, HasPrior, NoSettlement
  <2>3. Decided(c, w) BY <1>3, <1>6, <2>1 DEF Decided, NoSettlement
  <2> QED BY <1>1, <2>2, <2>3, OneRowGood DEF Visited, SameRow
<1>7. CASE SystemOutcome(b, w) = "none" /\ ~PartialLoss(b, w)
  <2>1. c.settled[w] = b.settled[w] BY <1>7 DEF Visited
  <2>2. RowGraded(c, w) BY <1>2, <1>3, <1>4, <2>1 DEF RowGraded, HasPrior
  <2>3. Decided(c, w)
    <3> SUFFICES ASSUME ~b.settled[w].manual, HasPrior(b, w) PROVE FALSE
      BY <1>3, <1>7, <2>1 DEF Decided, HasPrior
    <3>1. b.settled[w].evidence = Legs(b, w) BY <1>2, <1>7 DEF PartialLoss, RowGraded
    <3>2. Legs(b, w) \subseteq Observed(b) BY <1>2, <3>1 DEF RowGraded
    <3> QED BY <1>7, <3>2, KnownLegsDecide
  <2> QED BY <1>1, <2>2, <2>3, OneRowGood DEF Visited, SameRow
<1> QED BY <1>5, <1>6, <1>7

(* Closing *)

\* closeEligibleSeasons changes no row, and closes only what nothing holds open.
LEMMA CloseEligibleRows ==
  ASSUME NEW b \in Book
  PROVE  LET c == CloseEligible(b)
         IN  /\ Placed(c) = Placed(b) /\ c.result = b.result /\ c.settled = b.settled
             /\ c.order = b.order
             /\ \A v \in Wager : SameRow(b, c, v)
             /\ Final(b) => Final(c)
<1>1. CASE CloseEligible(b) = b BY <1>1 DEF SameRow
<1>2. ASSUME NEW r \in Automatic, b.state = "active",
             \A w \in Placed(b) : ~Unresolved(b, w),
             r = "float_exhausted" => b.float = 0,
             CloseEligible(b) = [b EXCEPT !.state = "closed", !.reason = r]
      PROVE  LET c == CloseEligible(b)
             IN  /\ Placed(c) = Placed(b) /\ c.result = b.result /\ c.settled = b.settled
                 /\ c.order = b.order
                 /\ \A v \in Wager : SameRow(b, c, v)
                 /\ Final(c)
  <2> DEFINE c == [b EXCEPT !.state = "closed", !.reason = r]
  <2>1. /\ c.state = "closed" /\ c.reason = r /\ c.float = b.float
        /\ c.ticket = b.ticket /\ c.leg = b.leg /\ c.settled = b.settled
        /\ c.result = b.result /\ c.status = b.status /\ c.order = b.order
    BY DEF Book
  <2> HIDE DEF c
  <2>2. Placed(c) = Placed(b) BY <2>1 DEF Placed
  <2>3. \A w \in Placed(c) : ~Unresolved(c, w) BY <1>2, <2>1, <2>2 DEF Unresolved, Legs
  <2>4. Final(c) BY <1>2, <2>1, <2>3 DEF Final
  <2> QED BY <1>2, <2>1, <2>2, <2>4 DEF SameRow, c
<1>3. CASE b.state = "active" /\ ~\E w \in Placed(b) : Unresolved(b, w)
  <2>1. CASE FloatExhausted(b)
    BY <1>2, <1>3, <2>1 DEF CloseEligible, FloatExhausted, Automatic
  <2>2. CASE ~FloatExhausted(b) /\ SuperBowlFinal(b)
    BY <1>2, <1>3, <2>2 DEF CloseEligible, Automatic
  <2>3. CASE ~FloatExhausted(b) /\ ~SuperBowlFinal(b)
    BY <1>1, <1>3, <2>3 DEF CloseEligible
  <2> QED BY <2>1, <2>2, <2>3
<1>4. CASE ~(b.state = "active" /\ ~\E w \in Placed(b) : Unresolved(b, w))
  BY <1>1, <1>4 DEF CloseEligible
<1> QED BY <1>3, <1>4

\* A book that differs from an active book that is Final, and did not close, is Final.
LEMMA ActiveIsFinal ==
  ASSUME NEW b, NEW c, Final(b), b.state = "active", c.reason = b.reason
  PROVE  Final(c)
BY DEF Final

\* A good book stays good when the season closes.
LEMMA CloseEligibleGood ==
  ASSUME NEW b, Sound(b), Good(b), Final(b)
  PROVE  LET c == CloseEligible(b)
         IN  Good(c) /\ Final(c) /\ c.result = b.result /\ c.settled = b.settled
<1>1. b \in Book BY DEF Sound
<1> QED BY <1>1, CloseEligibleRows, SameRowsGood

(* Commands *)

\* What the two invariants say of the committed book between runs.
LEMMA EvidenceBooks ==
  ASSUME LedgerInvariant, EvidenceInvariant
  PROVE  /\ Sound(committed) /\ StatusExplained(committed) /\ committed \in Book
         /\ Good(committed) /\ FromFeed(committed) /\ Final(committed)
         /\ Sound(working) /\ StatusExplained(working) /\ working \in Book
         /\ Good(working) /\ FromFeed(working) /\ Final(working)
         /\ RunIsNeeded
BY InvariantBooks DEF EvidenceInvariant, Books, Sound

\* Committing a good book on the same results keeps the invariant.
LEMMA CommitKeepsEvidence ==
  ASSUME LedgerInvariant, EvidenceInvariant, Idle, NEW b, Commit(b),
         Good(b), Final(b), b.result = committed.result
  PROVE  EvidenceInvariant'
<1>1. todo = {} BY DEF LedgerInvariant, Idle
<1>2. committed' = b /\ working' = b /\ todo' = {} /\ ~settling' /\ feed' = feed
  BY <1>1 DEF Commit, Idle
<1>3. FromFeed(committed) BY EvidenceBooks
<1>4. FromFeed(b)' BY <1>2, <1>3 DEF FromFeed
<1>5. Good(b)' /\ Final(b)' 
  BY DEF Good, Final
<1>6. RunIsNeeded' BY <1>2 DEF RunIsNeeded
<1> QED BY <1>2, <1>4, <1>5, <1>6 DEF EvidenceInvariant, Books

\* A commissioner's settlement of w, with whatever legs of the same versions.
LEMMA ManualIsGood ==
  ASSUME NEW b, Good(b), NEW w \in Wager, NEW c,
         c.settled[w].manual, HasPrior(c, w),
         c.result = b.result, c.ticket = b.ticket, Placed(c) = Placed(b),
         \A e \in Event : c.leg[w][e].version = b.leg[w][e].version,
         \A v \in Wager \ {w} : c.leg[v] = b.leg[v] /\ c.settled[v] = b.settled[v]
  PROVE  Good(c)
<1>1. RowGraded(b, w) BY DEF Good
<1>2. RowGraded(c, w) BY <1>1 DEF RowGraded
<1>3. Decided(c, w) BY DEF Decided
<1> QED BY <1>2, <1>3, OneRowGood DEF SameRow

\* Voiding a wager.
LEMMA VoidWagerEvidence ==
  ASSUME LedgerInvariant, EvidenceInvariant, NEW w \in Wager, VoidWager(w)
  PROVE  EvidenceInvariant'
<1> DEFINE b == committed
           c == Replace(b, w, "refund", 0, TRUE, {})
<1>1. Sound(b) /\ StatusExplained(b) /\ Good(b) /\ Final(b) BY EvidenceBooks
<1>2. /\ Idle /\ w \in Placed(b) /\ b.state = "active" /\ CanReplace(b, w, "refund", 0)
      /\ Commit(CloseEligible(c))
  BY DEF VoidWager, Placed
<1>3. /\ {} \in SUBSET Event /\ TRUE \in BOOLEAN /\ 0 \in Nat
      /\ "refund" \in {"win", "loss", "refund"} OBVIOUS
<1> HIDE DEF b
<1>4. Kept(b, c) BY <1>1, <1>2, <1>3, ReplaceSound
<1>5. RewrittenAs(b, c, w, "refund", TRUE, {}) BY <1>1, <1>2, <1>3, ReplaceRows
<1> HIDE DEF c
<1>6. Good(c)
  BY <1>1, <1>4, <1>5, ManualIsGood DEF Kept, Rewritten, RewrittenAs, HasPrior
<1>7. Final(c) BY <1>1, <1>2, <1>5, ActiveIsFinal DEF Rewritten, RewrittenAs
<1>8. Sound(c) /\ c.result = b.result BY <1>4 DEF Kept
<1>9. /\ Good(CloseEligible(c)) /\ Final(CloseEligible(c))
      /\ CloseEligible(c).result = b.result
  BY <1>6, <1>7, <1>8, CloseEligibleGood
<1> QED BY <1>2, <1>9, CommitKeepsEvidence DEF b

\* Regrading a wager: the legs take the corrected grades and keep their versions.
LEMMA RegradeWagerEvidence ==
  ASSUME LedgerInvariant, EvidenceInvariant,
         NEW w \in Wager, NEW corrected \in [Legs(committed, w) -> Result],
         RegradeWager(w, corrected)
  PROVE  EvidenceInvariant'
<1> DEFINE b == committed
           grades == Grades(b.ticket[w], Legs(b, w), corrected)
           outcome == GradeTicket(b.ticket[w], grades)
           profit == ProfitOf(b, w, outcome, grades)
           c == Replace(b, w, outcome, profit, TRUE, {})
           rows == [e \in Event |->
             IF e \in Legs(c, w) THEN [grade |-> grades[e], version |-> c.leg[w][e].version]
             ELSE c.leg[w][e]]
           d == [c EXCEPT !.leg[w] = rows]
<1>1. Sound(b) /\ StatusExplained(b) /\ Good(b) /\ Final(b) BY EvidenceBooks
<1>2. /\ Idle /\ w \in Placed(b) /\ b.state = "active"
      /\ CanReplace(b, w, outcome, profit)
      /\ Commit(CloseEligible(d))
  BY DEF RegradeWager, Placed, CorrectLegs
<1>3. \A e \in Legs(b, w) : grades[e] \in LegGrades
  BY GradeLegType DEF Grades, Legs
<1>4. outcome \in {"win", "loss", "refund"}
  <2>1. \A e \in Legs(b, w) : grades[e] # "pending" BY <1>3 DEF LegGrades
  <2> QED BY <2>1, GradeTicketType DEF Legs
<1>5. profit \in Nat BY <1>1, <1>2, ProfitType
<1>6. {} \in SUBSET Event /\ TRUE \in BOOLEAN OBVIOUS
<1> HIDE DEF b, grades, outcome, profit
<1>7. Kept(b, c) BY <1>1, <1>2, <1>4, <1>5, <1>6, ReplaceSound
<1>8. Rewritten(b, c, w) /\ c.settled[w].outcome = outcome /\ c.settled[w].manual = TRUE
  <2>1. RewrittenAs(b, c, w, outcome, TRUE, {})
    BY <1>1, <1>2, <1>4, <1>5, <1>6, ReplaceRows
  <2> QED BY <2>1 DEF RewrittenAs
<1> HIDE DEF c
<1>9. Sound(c) /\ StatusExplained(c) /\ c \in Book /\ Legs(c, w) = Legs(b, w)
  BY <1>7 DEF Kept, Legs, Sound
<1>10. rows \in [Event -> [grade : {"none", "win", "loss", "push", "void"}, version : Nat]]
  <2>1. c.leg[w] \in [Event -> [grade : {"none", "win", "loss", "push", "void"}, version : Nat]]
    BY <1>9 DEF Book
  <2> QED BY <1>3, <1>9, <2>1 DEF LegGrades
<1>11. \A e \in Event : rows[e].version = c.leg[w][e].version OBVIOUS
<1> HIDE DEF rows
<1>12. Kept(c, d) BY <1>9, <1>10, LegRowsKept
<1>13. /\ d.state = c.state /\ d.reason = c.reason /\ d.ticket = c.ticket
       /\ d.settled = c.settled /\ d.result = c.result
       /\ d.leg = [c.leg EXCEPT ![w] = rows]
  BY <1>9 DEF Book
<1> HIDE DEF d
<1>14. d.leg[w] = rows /\ \A v \in Wager \ {w} : d.leg[v] = c.leg[v]
  BY <1>9, <1>13 DEF Book
<1>15. Good(d)
  <2>1. d.settled[w].manual /\ HasPrior(d, w) BY <1>4, <1>8, <1>13 DEF HasPrior
  <2>2. d.result = b.result /\ d.ticket = b.ticket /\ Placed(d) = Placed(b)
    BY <1>7, <1>12 DEF Kept
  <2>3. \A e \in Event : d.leg[w][e].version = b.leg[w][e].version
    BY <1>8, <1>11, <1>14 DEF Rewritten
  <2>4. \A v \in Wager \ {w} : d.leg[v] = b.leg[v] /\ d.settled[v] = b.settled[v]
    BY <1>8, <1>13, <1>14 DEF Rewritten
  <2> QED BY <1>1, <2>1, <2>2, <2>3, <2>4, ManualIsGood
<1>16. Final(d) BY <1>1, <1>2, <1>8, <1>13, ActiveIsFinal DEF Rewritten
<1>17. Sound(d) /\ d.result = b.result BY <1>7, <1>12 DEF Kept
<1>18. /\ Good(CloseEligible(d)) /\ Final(CloseEligible(d))
       /\ CloseEligible(d).result = b.result
  BY <1>15, <1>16, <1>17, CloseEligibleGood
<1> QED BY <1>2, <1>18, CommitKeepsEvidence DEF b

\* A new ticket is on games without a result: it is undecided, and unsettled.
LEMMA PlaceWagerEvidence ==
  ASSUME LedgerInvariant, EvidenceInvariant, NEW w \in Wager, NEW m \in Member,
         NEW risk \in Risk, NEW t \in Ticket, PlaceWager(w, m, risk, t)
  PROVE  EvidenceInvariant'
<1> DEFINE b == committed
           av == [b.available EXCEPT ![m] = @ - risk]
           lk == [b.locked EXCEPT ![m] = @ + risk]
           c == [b EXCEPT !.available = av, !.locked = lk, !.status[w] = "open",
                          !.owner[w] = m, !.risk[w] = risk, !.ticket[w] = t]
<1>1. Sound(b) /\ b \in Book /\ Good(b) /\ Final(b) /\ FromFeed(b) BY EvidenceBooks
<1>2. /\ Idle /\ b.state = "active" /\ b.status[w] = "none"
      /\ \A e \in DOMAIN t.picks : feed[e].version = 0
      /\ Commit(c)
  BY DEF PlaceWager
<1>3. DOMAIN t.picks \in SUBSET Event /\ DOMAIN t.picks # {} BY TicketAssumption
<1>4. ~HasPrior(b, w) BY <1>1, <1>2 DEF Sound, OutcomesPaid
<1> HIDE DEF b, av, lk
<1>5. /\ c.state = b.state /\ c.reason = b.reason /\ c.result = b.result
      /\ c.leg = b.leg /\ c.settled = b.settled
      /\ c.ticket = [b.ticket EXCEPT ![w] = t]
      /\ c.status = [b.status EXCEPT ![w] = "open"]
  BY <1>1 DEF Book
<1> HIDE DEF c
<1>6. /\ c.ticket[w] = t
      /\ \A v \in Wager \ {w} : c.ticket[v] = b.ticket[v] /\ c.status[v] = b.status[v]
  BY <1>1, <1>5 DEF Book
<1>7. \A v \in Wager \ {w} : SameRow(b, c, v) /\ (v \in Placed(c) => v \in Placed(b))
  BY <1>5, <1>6 DEF SameRow, Placed
<1>8. ~HasPrior(c, w) /\ c.settled[w].outcome = "none"
  BY <1>4, <1>5 DEF HasPrior
<1>9. RowGraded(c, w)
  <2>1. RowGraded(b, w) BY <1>1 DEF Good
  <2> QED BY <1>4, <1>5, <1>8, <2>1 DEF RowGraded
<1>10. Decided(c, w)
  <2>1. Legs(c, w) = DOMAIN t.picks BY <1>6 DEF Legs
  <2>2. Legs(c, w) \cap Observed(c) = {}
    <3> SUFFICES ASSUME NEW e \in DOMAIN t.picks, e \in Observed(c) PROVE FALSE
      BY <2>1
    <3>1. e \in Event /\ b.result[e].version <= 0 BY <1>1, <1>2, <1>3 DEF FromFeed
    <3>2. b.result[e].version > 0 BY <1>5 DEF Observed
    <3>3. b.result[e].version \in Nat BY <1>1, <3>1 DEF Book
    <3> QED BY <3>1, <3>2, <3>3
  <2>3. SystemOutcome(c, w) = "none" BY <1>3, <2>1, <2>2, UnknownLegsPend
  <2> QED BY <1>8, <2>3 DEF Decided
<1>11. Good(c) BY <1>1, <1>7, <1>9, <1>10, OneRowGood
<1>12. Final(c) BY <1>1, <1>2, <1>5, ActiveIsFinal
<1> QED BY <1>2, <1>5, <1>11, <1>12, CommitKeepsEvidence DEF b

\* Share orders, the confirmation and the commissioner's closure rewrite no wager.
LEMMA RowlessCommandEvidence ==
  ASSUME LedgerInvariant, EvidenceInvariant, Idle, committed.state = "active", NEW c, Commit(c),
         /\ c.ticket = committed.ticket /\ c.leg = committed.leg
         /\ c.settled = committed.settled /\ c.result = committed.result
         /\ c.status = committed.status,
         c.reason = committed.reason \/ c.reason = "commissioner_closed"
  PROVE  EvidenceInvariant'
<1>1. Good(committed) /\ Final(committed) BY EvidenceBooks
<1>2. Placed(c) = Placed(committed) BY DEF Placed
<1>3. Good(c) BY <1>1, <1>2, SameRowsGood DEF SameRow
<1>4. Final(c) BY <1>1 DEF Final, Automatic
<1> QED BY <1>3, <1>4, CommitKeepsEvidence

LEMMA ExecuteShareOrderEvidence ==
  ASSUME LedgerInvariant, EvidenceInvariant, NEW o \in Order, NEW m \in Member,
         NEW mode, NEW amount, ExecuteShareOrder(o, m, mode, amount)
  PROVE  EvidenceInvariant'
<1> DEFINE b == committed
           price == SharePrice(b.float, b.notional)
           s == OrderShares(mode, amount, price)
           v == OrderValue(mode, amount, price)
           av == [b.available EXCEPT ![m] = @ + s]
           fl == b.float + s
           nl == b.notional + v
           od == [b.order EXCEPT ![o] = [member |-> m, shares |-> s, value |-> v,
                                         reverses |-> 0, placed |-> TRUE]]
           c == [b EXCEPT !.available = av, !.float = fl, !.notional = nl, !.order = od]
<1>1. Idle /\ b.state = "active" /\ Commit(c) BY DEF ExecuteShareOrder
<1>2. b \in Book BY EvidenceBooks
<1> HIDE DEF b, av, fl, nl, od
<1>3. /\ c.ticket = b.ticket /\ c.leg = b.leg /\ c.settled = b.settled
      /\ c.result = b.result /\ c.status = b.status /\ c.reason = b.reason
  BY <1>2 DEF Book
<1> HIDE DEF c
<1> QED BY <1>1, <1>3, RowlessCommandEvidence DEF b

LEMMA ReverseShareOrderEvidence ==
  ASSUME LedgerInvariant, EvidenceInvariant, NEW o \in Order, NEW p \in Order,
         ReverseShareOrder(o, p)
  PROVE  EvidenceInvariant'
<1> DEFINE b == committed
           m == b.order[p].member
           s == b.order[p].shares
           v == b.order[p].value
           av == [b.available EXCEPT ![m] = @ - s]
           fl == b.float - s
           nl == b.notional - v
           od == [b.order EXCEPT ![o] = [member |-> m, shares |-> -s, value |-> -v,
                                         reverses |-> p, placed |-> TRUE]]
           c == [b EXCEPT !.available = av, !.float = fl, !.notional = nl, !.order = od]
<1>1. Idle /\ b.state = "active" /\ Commit(c) BY DEF ReverseShareOrder
<1>2. b \in Book BY EvidenceBooks
<1> HIDE DEF b, av, fl, nl, od
<1>3. /\ c.ticket = b.ticket /\ c.leg = b.leg /\ c.settled = b.settled
      /\ c.result = b.result /\ c.status = b.status /\ c.reason = b.reason
  BY <1>2 DEF Book
<1> HIDE DEF c
<1> QED BY <1>1, <1>3, RowlessCommandEvidence DEF b

LEMMA SeasonCommandEvidence ==
  ASSUME LedgerInvariant, EvidenceInvariant, ConfirmSuperBowl \/ CloseSeason
  PROVE  EvidenceInvariant'
<1>1. committed \in Book BY EvidenceBooks
<1>2. CASE ConfirmSuperBowl
  <2> DEFINE c == [committed EXCEPT !.confirmed = TRUE]
  <2>1. Idle /\ committed.state = "active" /\ Commit(c) BY <1>2 DEF ConfirmSuperBowl
  <2>2. /\ c.ticket = committed.ticket /\ c.leg = committed.leg
        /\ c.settled = committed.settled /\ c.result = committed.result
        /\ c.status = committed.status /\ c.reason = committed.reason
    BY <1>1 DEF Book
  <2> HIDE DEF c
  <2> QED BY <2>1, <2>2, RowlessCommandEvidence
<1>3. CASE CloseSeason
  <2> DEFINE c == [committed EXCEPT !.state = "closed", !.reason = "commissioner_closed"]
  <2>1. Idle /\ committed.state = "active" /\ Commit(c) BY <1>3 DEF CloseSeason
  <2>2. /\ c.ticket = committed.ticket /\ c.leg = committed.leg
        /\ c.settled = committed.settled /\ c.result = committed.result
        /\ c.status = committed.status /\ c.reason = "commissioner_closed"
    BY <1>1 DEF Book
  <2> HIDE DEF c
  <2> QED BY <2>1, <2>2, RowlessCommandEvidence
<1> QED BY <1>2, <1>3

(* The settlement run *)

\* New results make rows outdated, never wrong: a row graded on the version of
\* every result it sees was graded on those results.
LEMMA BeginSettlementEvidence ==
  ASSUME LedgerInvariant, EvidenceInvariant, NEW due \in SUBSET Event, BeginSettlement(due)
  PROVE  EvidenceInvariant'
<1> DEFINE b == committed
           rows == [e \in Event |->
                     IF e \in due /\ feed[e].version > 0 THEN feed[e] ELSE b.result[e]]
           c == [b EXCEPT !.result = rows]
<1>1. Sound(b) /\ b \in Book /\ Good(b) /\ Final(b) /\ FromFeed(b) BY EvidenceBooks
<1>2. /\ working' = c /\ committed' = b /\ settling' = TRUE /\ feed' = feed
      /\ todo' = IF c.state = "active" THEN {w \in Placed(c) : NeedsSettling(c, w)} ELSE {}
  BY DEF BeginSettlement
<1>3. \A e \in Event : rows[e] = feed[e] \/ rows[e] = b.result[e]
  OBVIOUS
<1>4. feed \in [Event -> [version : Nat, value : Result]] BY DEF LedgerInvariant
<1> HIDE DEF b, rows
<1>5. /\ c.state = b.state /\ c.reason = b.reason /\ c.float = b.float
      /\ c.ticket = b.ticket /\ c.leg = b.leg /\ c.settled = b.settled
      /\ c.status = b.status /\ c.order = b.order /\ c.result = rows
  BY <1>1 DEF Book
<1> HIDE DEF c
<1>6. b.result \in [Event -> [version : Nat, value : Result]] BY <1>1 DEF Book
<1>7. \A e \in Event : /\ b.result[e].version \in Nat /\ c.result[e].version \in Nat
                       /\ b.result[e].version <= c.result[e].version
                       /\ c.result[e].version = b.result[e].version
                            => c.result[e] = b.result[e]
  BY <1>1, <1>3, <1>4, <1>5, <1>6 DEF FromFeed
<1>8. FromFeed(c) BY <1>1, <1>3, <1>4, <1>5 DEF FromFeed
<1>9. Placed(c) = Placed(b) BY <1>5 DEF Placed
<1>10. \A v \in Wager : Legs(c, v) = Legs(b, v) /\ HasPrior(c, v) = HasPrior(b, v)
  BY <1>5 DEF Legs, HasPrior
<1>11. Observed(b) \subseteq Observed(c) BY <1>7 DEF Observed
<1>12. \A v \in Wager, e \in Event : b.leg[v][e].version \in Nat BY <1>1 DEF Book
<1>13. ASSUME NEW v \in Wager PROVE RowGraded(c, v)
  <2>1. RowGraded(b, v) BY <1>1 DEF Good
  <2>2. \A e \in Event : c.leg[v][e].version <= c.result[e].version
    BY <1>5, <1>7, <1>12, <2>1 DEF RowGraded
  <2> QED BY <1>5, <1>10, <1>11, <2>1, <2>2 DEF RowGraded
<1>14. ASSUME NEW v \in Placed(b) PROVE Decided(c, v)
  <2> SUFFICES ASSUME ~c.settled[v].manual, UpToDate(c, v)
               PROVE  c.settled[v].outcome = SystemOutcome(c, v)
    BY DEF Decided
  <2>1. v \in Wager /\ Legs(b, v) \in SUBSET Event BY <1>1, TicketRows
  <2>2. RowGraded(b, v) /\ Decided(b, v) BY <1>1, <2>1 DEF Good
  <2>3. \A e \in Legs(b, v) \cap Observed(c) : c.result[e] = b.result[e]
    <3> SUFFICES ASSUME NEW e \in Legs(b, v) \cap Observed(c)
                 PROVE  c.result[e] = b.result[e]
      OBVIOUS
    <3>1. e \in Event BY <2>1
    <3>2. b.leg[v][e].version = c.result[e].version
      BY <1>5, <1>10, <2>1 DEF UpToDate
    <3>3. b.leg[v][e].version <= b.result[e].version BY <2>2, <3>1 DEF RowGraded
    <3> QED BY <1>7, <3>1, <3>2, <3>3
  <2>4. Legs(b, v) \cap Observed(c) = Legs(b, v) \cap Observed(b)
    BY <1>11, <2>1, <2>3 DEF Observed
  <2>5. SystemGrades(c, v) = SystemGrades(b, v)
    <3> DEFINE t == b.ticket[v]
    <3>1. ASSUME NEW e \in DOMAIN t.picks
          PROVE  /\ e \in Observed(c) <=> e \in Observed(b)
                 /\ e \in Observed(c) => ResultValues(c)[e] = ResultValues(b)[e]
      BY <2>1, <2>3, <2>4 DEF Legs, ResultValues
    <3> QED BY <1>5, <3>1 DEF SystemGrades, Grades
  <2>6. UpToDate(b, v) BY <1>5, <1>10, <2>1, <2>3, <2>4 DEF UpToDate
  <2>7. SystemOutcome(c, v) = SystemOutcome(b, v) BY <1>5, <2>5 DEF SystemOutcome
  <2> QED BY <1>5, <2>2, <2>6, <2>7 DEF Decided
<1>15. Good(c) BY <1>9, <1>13, <1>14 DEF Good
<1>16. Final(c)
  <2>1. \A v \in Placed(b) : Unresolved(c, v) = Unresolved(b, v)
    BY <1>5 DEF Unresolved, Legs
  <2> QED BY <1>1, <1>5, <1>9, <2>1 DEF Final
<1>17. RunIsNeeded'
  <2>1. todo' # {} => working'.state = "active" BY <1>2
  <2>2. \A v \in todo' : NeedsSettling(working', v) BY <1>2
  <2>3. /\ \A v \in Wager : working'.settled[v] = committed'.settled[v]
        /\ working'.order = committed'.order
    BY <1>2, <1>5
  <2> QED BY <2>1, <2>2, <2>3 DEF RunIsNeeded
<1>18. \A x \in {b, c} : Good(x) /\ FromFeed(x)' /\ Final(x)
  BY <1>1, <1>2, <1>8, <1>15, <1>16 DEF FromFeed
<1> QED BY <1>2, <1>17, <1>18 DEF EvidenceInvariant, Books, Good, Final, FromFeed

\* Visiting a wager settles its row and no other.
LEMMA SettleNextEvidence ==
  ASSUME LedgerInvariant, EvidenceInvariant, NEW w \in Wager, SettleNext(w)
  PROVE  EvidenceInvariant'
<1> DEFINE b == working
           c == SettleWager(b, w)
<1>1. /\ Sound(b) /\ StatusExplained(b) /\ Good(b) /\ Final(b) /\ FromFeed(b)
      /\ Good(committed) /\ Final(committed) /\ FromFeed(committed) /\ RunIsNeeded
  BY EvidenceBooks
<1>2. /\ settling /\ w \in todo /\ w \in Placed(b) /\ CanSettle(b, w)
      /\ working' = c /\ todo' = todo \ {w}
      /\ committed' = committed /\ settling' = settling /\ feed' = feed
  BY DEF SettleNext, LedgerInvariant
<1> HIDE DEF b
<1>3. Visited(b, c, w) BY <1>1, <1>2, SettleWagerRows
<1>4. Placed(c) = Placed(b) BY <1>1, <1>2, SettleWagerKept DEF Kept
<1> HIDE DEF c
<1>5. Good(c) BY <1>1, <1>2, <1>3, <1>4, VisitedIsGood
<1>6. b.state = "active" BY <1>1, <1>2 DEF RunIsNeeded, b
<1>7. Final(c) BY <1>1, <1>3, <1>6, ActiveIsFinal DEF Visited
<1>8. FromFeed(c) BY <1>1, <1>3 DEF FromFeed, Visited
<1>9. \A v \in Wager \ {w} : SameRow(b, c, v) BY <1>3 DEF Visited, SameRow
<1>10. todo \subseteq Wager BY DEF LedgerInvariant, Placed
<1>11. RunIsNeeded'
  <2>1. todo' # {} => working'.state = "active" BY <1>2, <1>3, <1>6 DEF Visited
  <2>2. \A v \in todo' : NeedsSettling(working', v)
    BY <1>1, <1>2, <1>9, <1>10, RowIsLocal DEF RunIsNeeded, b
  <2>3. ASSUME NEW v \in Wager, c.settled[v].manual PROVE c.settled[v] = committed.settled[v]
    <3>1. c.settled[v] = b.settled[v]
      <4>1. CASE v # w BY <4>1, <1>3 DEF Visited
      <4>2. CASE v = w BY <4>2, <1>3, <2>3 DEF Visited, NoSettlement
      <4> QED BY <4>1, <4>2
    <3> QED BY <1>1, <1>2, <2>3, <3>1 DEF RunIsNeeded, b
  <2>4. c.order = committed.order BY <1>1, <1>2, <1>3 DEF Visited, RunIsNeeded, b
  <2> QED BY <1>2, <2>1, <2>2, <2>3, <2>4 DEF RunIsNeeded
<1>12. \A x \in {committed, c} : Good(x) /\ FromFeed(x)' /\ Final(x)
  BY <1>1, <1>2, <1>5, <1>7, <1>8 DEF FromFeed
<1> QED BY <1>2, <1>11, <1>12 DEF EvidenceInvariant, Books, Good, Final, FromFeed

\* A run that is rolled back leaves the committed book twice.
LEMMA RollBackEvidence ==
  ASSUME LedgerInvariant, EvidenceInvariant, RollBack
  PROVE  EvidenceInvariant'
<1>1. Good(committed) /\ Final(committed) /\ FromFeed(committed) BY EvidenceBooks
<1>2. /\ working' = committed /\ committed' = committed /\ todo' = {}
      /\ settling' = FALSE /\ feed' = feed
  BY DEF RollBack
<1>3. RunIsNeeded' BY <1>2 DEF RunIsNeeded
<1> QED BY <1>1, <1>2, <1>3 DEF EvidenceInvariant, Books, Good, Final, FromFeed

\* A run commits what it wrote and closes the season if nothing holds it open.
LEMMA CommitSettlementEvidence ==
  ASSUME LedgerInvariant, EvidenceInvariant, CommitSettlement
  PROVE  EvidenceInvariant'
<1> DEFINE c == CloseEligible(working)
<1>1. Sound(working) /\ Good(working) /\ Final(working) /\ FromFeed(working)
  BY EvidenceBooks
<1>2. /\ working' = c /\ committed' = c /\ todo' = {} /\ settling' = FALSE /\ feed' = feed
  BY DEF CommitSettlement
<1>3. Good(c) /\ Final(c) /\ c.result = working.result BY <1>1, CloseEligibleGood
<1> HIDE DEF c
<1>4. FromFeed(c) BY <1>1, <1>3 DEF FromFeed
<1>5. RunIsNeeded' BY <1>2 DEF RunIsNeeded
<1> QED BY <1>2, <1>3, <1>4, <1>5 DEF EvidenceInvariant, Books, Good, Final, FromFeed

\* A published result has a version of its own.
LEMMA EnvironmentEvidence ==
  ASSUME LedgerInvariant, EvidenceInvariant, Environment
  PROVE  EvidenceInvariant'
<1>1. /\ committed' = committed /\ working' = working /\ todo' = todo /\ settling' = settling
  BY DEF Environment, PublishResult, KickOff
<1>2. ASSUME NEW b \in Books PROVE Good(b) /\ Final(b) /\ FromFeed(b)'
  <2>1. Good(b) /\ Final(b) /\ FromFeed(b) BY DEF EvidenceInvariant
  <2>2. b \in Book BY EvidenceBooks DEF Books
  <2>3. \A e \in Event : b.result[e].version \in Nat BY <2>2 DEF Book
  <2>4. feed \in [Event -> [version : Nat, value : Result]] BY DEF LedgerInvariant
  <2>5. ASSUME NEW e \in Event, NEW value \in Result, PublishResult(e, value)
        PROVE  FromFeed(b)'
    <3>1. feed' = [feed EXCEPT ![e] = [version |-> feed[e].version + 1, value |-> value]]
      BY <2>5 DEF PublishResult
    <3>2. feed'[e].version = feed[e].version + 1 /\ feed[e].version \in Nat
      BY <2>4, <3>1
    <3>3. \A d \in Event \ {e} : feed'[d] = feed[d] BY <2>4, <3>1
    <3>4. \A d \in Event : /\ b.result[d].version <= feed'[d].version
                           /\ b.result[d].version = feed'[d].version
                                => b.result[d] = feed'[d]
      BY <2>1, <2>3, <3>2, <3>3 DEF FromFeed
    <3> QED BY <3>4 DEF FromFeed
  <2>6. CASE feed' = feed BY <2>1, <2>6 DEF FromFeed
  <2> QED BY <2>1, <2>5, <2>6 DEF Environment, KickOff
<1>3. RunIsNeeded' 
  <2>1. RunIsNeeded BY EvidenceBooks
  <2> QED BY <1>1, <2>1 DEF RunIsNeeded
<1> QED BY <1>1, <1>2, <1>3 DEF EvidenceInvariant, Books, Good, Final, FromFeed

\* The invariant holds of a season that has just opened.
LEMMA EvidenceInit ==
  ASSUME Init
  PROVE  EvidenceInvariant
<1>1. Placed(EmptyBook) = {} BY DEF Placed, EmptyBook
<1>2. ASSUME NEW w \in Wager PROVE RowGraded(EmptyBook, w)
  BY DEF RowGraded, EmptyBook, HasPrior, NoSettlement, NoLeg, NoResult
<1>3. Good(EmptyBook) BY <1>1, <1>2 DEF Good
<1>4. Final(EmptyBook) BY DEF Final, Automatic, EmptyBook
<1>5. FromFeed(EmptyBook) BY DEF Init, FromFeed, EmptyBook, NoResult
<1> QED BY <1>3, <1>4, <1>5 DEF Init, EvidenceInvariant, RunIsNeeded, Books

\* One step of any kind keeps the invariant.
LEMMA EvidenceStep ==
  ASSUME LedgerInvariant, EvidenceInvariant, [Next]_vars
  PROVE  EvidenceInvariant'
<1>1. CASE Command
  <2>1. ASSUME NEW o \in Order, NEW m \in Member, NEW mode \in {"shares", "value"},
               NEW a \in Amount, ExecuteShareOrder(o, m, mode, a)
        PROVE  EvidenceInvariant'
    BY <2>1, ExecuteShareOrderEvidence
  <2>2. ASSUME NEW o \in Order, NEW p \in Order, ReverseShareOrder(o, p)
        PROVE  EvidenceInvariant'
    BY <2>2, ReverseShareOrderEvidence
  <2>3. ASSUME NEW w \in Wager, NEW m \in Member, NEW r \in Risk, NEW t \in Ticket,
               PlaceWager(w, m, r, t)
        PROVE  EvidenceInvariant'
    BY <2>3, PlaceWagerEvidence
  <2>4. ASSUME NEW w \in Wager, VoidWager(w) PROVE EvidenceInvariant'
    BY <2>4, VoidWagerEvidence
  <2>5. ASSUME NEW w \in Wager, NEW corrected \in [Legs(committed, w) -> Result],
               RegradeWager(w, corrected)
        PROVE  EvidenceInvariant'
    BY <2>5, RegradeWagerEvidence
  <2>6. CASE ConfirmSuperBowl \/ CloseSeason BY <2>6, SeasonCommandEvidence
  <2> QED BY <1>1, <2>1, <2>2, <2>3, <2>4, <2>5, <2>6, Zenon DEF Command
<1>2. CASE Settlement
  <2>1. ASSUME NEW due \in SUBSET Event, BeginSettlement(due) PROVE EvidenceInvariant'
    BY <2>1, BeginSettlementEvidence
  <2>2. ASSUME NEW w \in Wager, SettleNext(w) PROVE EvidenceInvariant'
    BY <2>2, SettleNextEvidence
  <2>3. ASSUME NEW w \in Wager, SettlementThrows(w) PROVE EvidenceInvariant'
    BY <2>3, RollBackEvidence DEF SettlementThrows
  <2>4. CASE Evicted BY <2>4, RollBackEvidence DEF Evicted
  <2>5. CASE CommitSettlement BY <2>5, CommitSettlementEvidence
  <2> QED BY <1>2, <2>1, <2>2, <2>3, <2>4, <2>5 DEF Settlement
<1>3. CASE Environment BY <1>3, EnvironmentEvidence
<1>4. CASE UNCHANGED vars
  BY <1>4 DEF vars, EvidenceInvariant, Books, Good, Final, FromFeed, RunIsNeeded
<1> QED BY <1>1, <1>2, <1>3, <1>4 DEF Next

-----------------------------------------------------------------------------
(* Theorems *)

\* The two invariants hold together; the first is inductive by itself.
LEMMA EvidenceAlways == Spec => [](LedgerInvariant /\ EvidenceInvariant)
<1>1. Init => EvidenceInvariant BY EvidenceInit
<1>2. LedgerInvariant /\ EvidenceInvariant /\ [Next]_vars => EvidenceInvariant'
  BY EvidenceStep
<1> QED BY <1>1, <1>2, LedgerIsSound, PTL DEF Spec

\* Between runs a wager that no commissioner settled stands where the newest
\* evidence it was graded on puts it, in whatever order results, corrections,
\* reopenings, rollbacks and commands came.
THEOREM EvidenceAlwaysDecides == Spec => []EvidenceDecides
<1>1. LedgerInvariant /\ EvidenceInvariant => EvidenceDecides
  <2> SUFFICES ASSUME LedgerInvariant, EvidenceInvariant PROVE EvidenceDecides
    OBVIOUS
  <2>1. \A w \in Placed(committed) : Decided(committed, w) BY EvidenceBooks DEF Good
  <2> QED BY <2>1 DEF EvidenceDecides, Decided, UpToDate
<1> QED BY <1>1, EvidenceAlways, PTL

\* A season that closed by itself, whatever corrections preceded it, has no open
\* wager, no ungraded leg of a combination, no locked share and, when its float was
\* exhausted, no share at all.
THEOREM ClosureIsAlwaysFinal == Spec => []AutoClosureIsFinal
<1>1. LedgerInvariant /\ EvidenceInvariant => AutoClosureIsFinal
  <2> SUFFICES ASSUME LedgerInvariant, EvidenceInvariant, committed.reason \in Automatic
               PROVE  /\ committed.state = "closed"
                      /\ \A w \in Placed(committed) : committed.status[w] # "open"
                      /\ \A w \in Placed(committed) :
                           committed.ticket[w].kind # "straight" =>
                             \A e \in Legs(committed, w) :
                               committed.leg[w][e].grade # "none"
                      /\ \A m \in Member : committed.locked[m] = 0
                      /\ committed.reason = "float_exhausted" =>
                           \A m \in Member : committed.available[m] = 0
    BY DEF AutoClosureIsFinal, Automatic
  <2> DEFINE b == committed
  <2>1. Sound(b) /\ StatusExplained(b) /\ b \in Book /\ Final(b) BY EvidenceBooks
  <2> HIDE DEF b
  <2>2. /\ b.state = "closed" /\ \A w \in Placed(b) : ~Unresolved(b, w)
        /\ b.reason = "float_exhausted" => b.float = 0
    BY <2>1 DEF Final, b
  <2>3. /\ \A w \in Placed(b) : b.status[w] # "open"
        /\ \A w \in Placed(b) : b.ticket[w].kind # "straight" =>
             \A e \in Legs(b, w) : b.leg[w][e].grade # "none"
    BY <2>2 DEF Unresolved
  <2>4. \A w \in Wager : b.status[w] # "open" BY <2>3 DEF Placed
  <2>5. ASSUME NEW m \in Member PROVE b.locked[m] = 0
    <3>1. b.locked[m] = OpenRisk(b, m) BY <2>1, OpenIsUnsettled
    <3> DEFINE f == [w \in Wager |-> IF b.status[w] = "open" /\ b.owner[w] = m
                                     THEN b.risk[w] ELSE 0]
    <3>2. \A i \in 1..NWagers : f[i] = 0 BY <2>4 DEF Wager
    <3> HIDE DEF f
    <3>3. Total(f, NWagers) = 0 BY <3>2, SizesAssumption, TotalOfZeros
    <3> QED BY <3>1, <3>3 DEF OpenRisk, f
  <2>6. ASSUME b.reason = "float_exhausted", NEW m \in Member PROVE b.available[m] = 0
    <3>1. b.float = 0 BY <2>2, <2>6
    <3>2. b.available[m] <= b.float /\ b.available[m] \in Nat
      BY <2>1, BalancesWithinFloat, BookFields
    <3> QED BY <3>1, <3>2
  <2> QED BY <2>2, <2>3, <2>5, <2>6 DEF b
<1> QED BY <1>1, EvidenceAlways, PTL

\* A settlement run replaces a commissioner's settlement only on a complete set of
\* results with something new, and a run that fails puts nothing in its place.
THEOREM ManualAlwaysStands == Spec => ManualStands
<1> DEFINE A == \A w \in Wager :
                  (/\ working.settled[w].manual
                   /\ working'.settled[w] # working.settled[w]
                   /\ settling)
                  => /\ Legs(working, w) \subseteq Observed(working)
                     /\ \E e \in Legs(working, w) :
                          working.leg[w][e].version # working.result[e].version
<1>1. LedgerInvariant /\ EvidenceInvariant /\ [Next]_vars => [A]_vars
  <2> SUFFICES ASSUME LedgerInvariant, EvidenceInvariant, Next,
                      NEW w \in Wager, settling, working.settled[w].manual,
                      working'.settled[w] # working.settled[w]
               PROVE  /\ Legs(working, w) \subseteq Observed(working)
                      /\ \E e \in Legs(working, w) :
                           working.leg[w][e].version # working.result[e].version
    BY DEF A
  <2>1. /\ Sound(working) /\ StatusExplained(working) /\ Good(working) /\ Final(working)
        /\ RunIsNeeded
    BY EvidenceBooks
  <2>2. ~Command
    BY DEF Command, ExecuteShareOrder, ReverseShareOrder, PlaceWager, VoidWager,
           RegradeWager, ConfirmSuperBowl, CloseSeason, Idle
  <2>3. ~Environment BY DEF Environment, PublishResult, KickOff, Idle
  <2>4. ~RollBack BY <2>1 DEF RollBack, RunIsNeeded
  <2>5. ~CommitSettlement
    BY <2>1, CloseEligibleGood DEF CommitSettlement
  <2>6. PICK v \in Wager : SettleNext(v)
    BY <2>2, <2>3, <2>4, <2>5 DEF Next, Settlement, BeginSettlement, Idle,
       SettlementThrows, Evicted
  <2>7. /\ v \in todo /\ v \in Placed(working) /\ CanSettle(working, v)
        /\ working' = SettleWager(working, v)
    BY <2>6 DEF SettleNext, LedgerInvariant
  <2>8. Visited(working, working', v) BY <2>1, <2>7, SettleWagerRows
  <2>9. v = w BY <2>8 DEF Visited
  <2>10. NeedsSettling(working, w) BY <2>1, <2>7, <2>9 DEF RunIsNeeded
  <2>11. HasPrior(working, w) BY <2>1 DEF Good, RowGraded
  <2> QED BY <2>10, <2>11 DEF NeedsSettling
<1> QED BY <1>1, EvidenceAlways, PTL DEF Spec, ManualStands

-----------------------------------------------------------------------------
(* The price of an order *)

\* Rounding a quotient of naturals moves the product by at most half the divisor.
LEMMA RoundingError ==
  ASSUME NEW n \in Nat, NEW d \in Nat \ {0}
  PROVE  LET q == DivideRoundHalfEven(n, d)
         IN  /\ q \in Nat
             /\ 2 * (q * d - n) <= d
             /\ 2 * (n - q * d) <= d
<1> DEFINE k == n \div d
           r == n % d
           up == 2 * r > d \/ (2 * r = d /\ k % 2 # 0)
           q == IF up THEN k + 1 ELSE k
<1>1. k \in Nat /\ r \in Nat /\ r < d /\ n = d * k + r OBVIOUS
<1>2. Magnitude(n) = n /\ Magnitude(d) = d /\ ~(n < 0) /\ ~(d < 0) BY DEF Magnitude
<1>3. DivideRoundHalfEven(n, d) = q BY <1>2 DEF DivideRoundHalfEven
<1> HIDE DEF k, r
<1>4. CASE up
  <2>1. q = k + 1 /\ 2 * r >= d BY <1>1, <1>4
  <2>2. q * d = d * k + d BY <1>1, <2>1
  <2> HIDE DEF q
  <2>3. q * d - n = d - r BY <1>1, <2>2
  <2>4. q \in Nat BY <1>1, <2>1
  <2>5. 2 * (d - r) <= d /\ 2 * (r - d) <= d BY <1>1, <2>1
  <2>6. n - q * d = r - d BY <1>1, <2>2
  <2> QED BY <1>3, <2>3, <2>4, <2>5, <2>6
<1>5. CASE ~up
  <2>1. q = k /\ 2 * r <= d BY <1>1, <1>5
  <2>2. q * d = d * k BY <1>1, <2>1
  <2> HIDE DEF q
  <2>3. q * d - n = -r /\ n - q * d = r BY <1>1, <2>2
  <2> QED BY <1>1, <1>3, <2>1, <2>3
<1> QED BY <1>4, <1>5

\* Three roundings, of the old price, of the order's amounts and of the new price,
\* add up to the new price's distance from the old one.
LEMMA ThreeRoundings ==
  ASSUME NEW U \in Nat, NEW N \in Nat, NEW F \in Nat, NEW v \in Nat, NEW s \in Nat,
         NEW p \in Nat, NEW q \in Nat, NEW h \in Nat,
         2 * (p * F - N * U) <= F, 2 * (N * U - p * F) <= F,
         2 * (v * U - s * p) <= h, 2 * (s * p - v * U) <= h,
         2 * (q * (F + s) - (N + v) * U) <= F + s,
         2 * ((N + v) * U - q * (F + s)) <= F + s
  PROVE  2 * Magnitude(q - p) * (F + s) <= F + (F + s) + h
<1>1. (N + v) * U = N * U + v * U OBVIOUS
<1>2. p * (F + s) = p * F + s * p OBVIOUS
<1> DEFINE a == p * F
           b == N * U
           c == v * U
           d == s * p
           e == q * (F + s)
           g == p * (F + s)
<1>3. /\ a \in Nat /\ b \in Nat /\ c \in Nat /\ d \in Nat /\ e \in Nat /\ g \in Nat
      /\ g = a + d
  BY <1>2
<1>4. 2 * (e - (b + c)) <= F + s /\ 2 * ((b + c) - e) <= F + s BY <1>1
<1>5. CASE q >= p
  <2>1. Magnitude(q - p) = q - p BY <1>5 DEF Magnitude
  <2>2. 2 * (q - p) * (F + s) = 2 * (e - g) OBVIOUS
  <2> HIDE DEF a, b, c, d, e, g
  <2>3. 2 * (e - g) <= F + (F + s) + h
    <3>1. 2 * (b - a) <= F /\ 2 * (c - d) <= h BY DEF a, b, c, d
    <3> QED BY <1>3, <1>4, <3>1
  <2> QED BY <2>1, <2>2, <2>3
<1>6. CASE q < p
  <2>1. Magnitude(q - p) = p - q BY <1>6 DEF Magnitude
  <2>2. 2 * (p - q) * (F + s) = 2 * (g - e) OBVIOUS
  <2> HIDE DEF a, b, c, d, e, g
  <2>3. 2 * (g - e) <= F + (F + s) + h
    <3>1. 2 * (a - b) <= F /\ 2 * (d - c) <= h BY DEF a, b, c, d
    <3> QED BY <1>3, <1>4, <3>1
  <2> QED BY <2>1, <2>2, <2>3
<1> QED BY <1>5, <1>6

\* What PriceUndiluted says of two books.
PriceKept(b, c) ==
  LET before == SharePrice(b.float, b.notional)
      after  == SharePrice(c.float, c.notional)
  IN  2 * Magnitude(after - before) * c.float
        <= b.float + c.float + (IF before > Unit THEN before ELSE Unit)

\* An order executed at a season's price leaves that price, apart from rounding.
LEMMA OrderKeepsPrice ==
  ASSUME NEW b, Sound(b), b.float > 0, NEW o \in Order, NEW m \in Member,
         NEW mode \in {"shares", "value"}, NEW amount \in Amount, NEW c,
         LET price == SharePrice(b.float, b.notional)
             s == OrderShares(mode, amount, price)
             v == OrderValue(mode, amount, price)
         IN  /\ mode = "value" => price # 0
             /\ s > 0 /\ v > 0
             /\ c.float = b.float + s /\ c.notional = b.notional + v
  PROVE  PriceKept(b, c)
<1> DEFINE F == b.float
           N == b.notional
           U == Unit
           p == SharePrice(F, N)
           s == OrderShares(mode, amount, p)
           v == OrderValue(mode, amount, p)
           q == SharePrice(F + s, N + v)
           h == IF p > U THEN p ELSE U
<1>1. U \in Nat /\ U # 0 /\ amount \in Nat /\ F \in Nat /\ F # 0
  <2>1. F \in Int BY BookFields DEF Sound
  <2> QED BY <2>1, UnitAssumption, AmountAssumption
<1>2. N \in Nat
  <2>1. /\ N = Total(StandingValue(b), NOrders) /\ OrderRow(b)
        /\ NOrders \in Nat /\ Order = 1..NOrders /\ o \in 1..NOrders
    BY StandingType DEF Sound, NotionalIsSold
  <2>2. StandingValue(b) \in [1..NOrders -> Nat]
    BY <2>1 DEF StandingValue, OrderRow
  <2> QED BY <2>1, <2>2, TotalBounds
<1>3. /\ s > 0 /\ v > 0 /\ c.float = F + s /\ c.notional = N + v
      /\ mode = "value" => p # 0
  OBVIOUS
<1>4. /\ p \in Nat /\ 2 * (p * F - N * U) <= F /\ 2 * (N * U - p * F) <= F
  <2>1. N * U \in Nat /\ F \in Nat \ {0} BY <1>1, <1>2
  <2>2. p = DivideRoundHalfEven(N * U, F) BY <1>1 DEF SharePrice
  <2> QED BY <2>1, <2>2, RoundingError
<1> HIDE DEF F, N, U, p
<1>5. /\ s \in Nat /\ v \in Nat /\ h \in Nat
      /\ 2 * (v * U - s * p) <= h /\ 2 * (s * p - v * U) <= h
  <2>1. CASE mode = "shares"
    <3>1. s = amount /\ v = DivideRoundHalfEven(s * p, U) BY <2>1 DEF OrderShares, OrderValue, U
    <3>2. s * p \in Nat /\ U \in Nat \ {0} BY <1>1, <1>4, <3>1
    <3>3. v \in Nat /\ 2 * (v * U - s * p) <= U /\ 2 * (s * p - v * U) <= U
      BY <3>1, <3>2, RoundingError
    <3> HIDE DEF s, v
    <3>4. v * U \in Nat /\ s \in Nat BY <1>1, <3>1, <3>3
    <3> QED BY <1>1, <1>4, <3>2, <3>3, <3>4
  <2>2. CASE mode = "value"
    <3>1. v = amount /\ s = DivideRoundHalfEven(v * U, p) BY <2>2 DEF OrderShares, OrderValue, U
    <3>2. v * U \in Nat /\ p \in Nat \ {0} BY <1>1, <1>3, <1>4, <2>2, <3>1
    <3>3. s \in Nat /\ 2 * (s * p - v * U) <= p /\ 2 * (v * U - s * p) <= p
      BY <3>1, <3>2, RoundingError
    <3> HIDE DEF s, v
    <3>4. s * p \in Nat /\ v \in Nat BY <1>1, <1>4, <3>1, <3>3
    <3> QED BY <1>1, <1>4, <3>2, <3>3, <3>4
  <2> QED BY <2>1, <2>2
<1> HIDE DEF s, v, h
<1>6. /\ q \in Nat /\ 2 * (q * (F + s) - (N + v) * U) <= F + s
      /\ 2 * ((N + v) * U - q * (F + s)) <= F + s
  <2>1. (N + v) * U \in Nat /\ F + s \in Nat \ {0} BY <1>1, <1>2, <1>5
  <2>2. q = DivideRoundHalfEven((N + v) * U, F + s) BY <2>1 DEF SharePrice, U
  <2> QED BY <2>1, <2>2, RoundingError
<1> HIDE DEF q
<1>7. 2 * Magnitude(q - p) * (F + s) <= F + (F + s) + h
  BY <1>1, <1>2, <1>4, <1>5, <1>6, ThreeRoundings
<1> QED BY <1>3, <1>7 DEF PriceKept, F, N, U, p, q, h

\* No other step adds an order that reverses none.
LEMMA OnlyOrdersOrder ==
  ASSUME LedgerInvariant, EvidenceInvariant, Next, NEW o \in Order,
         ~committed.order[o].placed, committed'.order[o].placed,
         committed'.order[o].reverses = 0
  PROVE  \E m \in Member, mode \in {"shares", "value"}, a \in Amount, n \in Order :
           ExecuteShareOrder(n, m, mode, a)
<1> SUFFICES ASSUME ~\E m \in Member, mode \in {"shares", "value"}, a \in Amount, n \in Order :
                      ExecuteShareOrder(n, m, mode, a)
             PROVE  committed'.order = committed.order \/ committed'.order[o].reverses # 0
  OBVIOUS
<1>1. /\ Sound(committed) /\ StatusExplained(committed) /\ committed \in Book
      /\ Sound(working) /\ working \in Book /\ RunIsNeeded
  BY EvidenceBooks
<1>2. ASSUME NEW p \in Order, NEW n \in Order, ReverseShareOrder(n, p)
      PROVE  committed'.order = committed.order \/ committed'.order[o].reverses # 0
  <2> DEFINE row == [member |-> committed.order[p].member,
                     shares |-> -committed.order[p].shares,
                     value |-> -committed.order[p].value, reverses |-> p, placed |-> TRUE]
             av == [committed.available EXCEPT ![committed.order[p].member]
                                          = @ - committed.order[p].shares]
             fl == committed.float - committed.order[p].shares
             nl == committed.notional - committed.order[p].value
             od == [committed.order EXCEPT ![n] = row]
  <2>1. committed' = [committed EXCEPT !.available = av, !.float = fl, !.notional = nl,
                                       !.order = od]
    BY <1>2 DEF ReverseShareOrder, Commit
  <2>2. row.reverses = p /\ p # 0 BY SizesAssumption DEF Order
  <2> HIDE DEF row, av, fl, nl
  <2>3. committed'.order = od
    <3> HIDE DEF od
    <3> QED BY <1>1, <2>1 DEF Book
  <2>4. OrderRow(committed) BY <1>1, StandingType
  <2>5. od[o] = IF o = n THEN row ELSE committed.order[o] BY <2>4 DEF OrderRow
  <2>6. CASE o = n BY <2>2, <2>3, <2>5, <2>6
  <2>7. CASE o # n
    <3>1. committed'.order[o] = committed.order[o] BY <2>3, <2>5, <2>7
    <3> QED BY <3>1
  <2> QED BY <2>6, <2>7
<1>3. ASSUME NEW w \in Wager, NEW m \in Member, NEW r \in Risk, NEW t \in Ticket,
             PlaceWager(w, m, r, t)
      PROVE  committed'.order = committed.order
  <2> DEFINE av == [committed.available EXCEPT ![m] = @ - r]
             lk == [committed.locked EXCEPT ![m] = @ + r]
             c == [committed EXCEPT !.available = av, !.locked = lk, !.status[w] = "open",
                                    !.owner[w] = m, !.risk[w] = r, !.ticket[w] = t]
  <2>1. committed' = c BY <1>3 DEF PlaceWager, Commit
  <2> HIDE DEF av, lk
  <2> QED BY <1>1, <2>1 DEF Book
<1>4. ASSUME NEW w \in Wager, VoidWager(w) PROVE committed'.order = committed.order
  <2> DEFINE c == Replace(committed, w, "refund", 0, TRUE, {})
  <2>1. w \in Placed(committed) /\ CanReplace(committed, w, "refund", 0)
        /\ committed' = CloseEligible(c)
    BY <1>4 DEF VoidWager, Placed, Commit
  <2>2. /\ {} \in SUBSET Event /\ TRUE \in BOOLEAN /\ 0 \in Nat
        /\ "refund" \in {"win", "loss", "refund"} OBVIOUS
  <2> HIDE DEF c
  <2>3. RewrittenAs(committed, c, w, "refund", TRUE, {}) /\ Kept(committed, c)
    BY <1>1, <2>1, <2>2, ReplaceRows, ReplaceSound DEF c
  <2>4. c \in Book BY <2>3 DEF Kept, Sound
  <2> QED BY <2>1, <2>3, <2>4, CloseEligibleRows DEF RewrittenAs, Rewritten
<1>5. ASSUME NEW w \in Wager, NEW corrected \in [Legs(committed, w) -> Result],
             RegradeWager(w, corrected)
      PROVE  committed'.order = committed.order
  <2> DEFINE b == committed
             grades == Grades(b.ticket[w], Legs(b, w), corrected)
             outcome == GradeTicket(b.ticket[w], grades)
             profit == ProfitOf(b, w, outcome, grades)
             c == Replace(b, w, outcome, profit, TRUE, {})
             rows == [e \in Event |->
               IF e \in Legs(c, w) THEN [grade |-> grades[e], version |-> c.leg[w][e].version]
               ELSE c.leg[w][e]]
             d == [c EXCEPT !.leg[w] = rows]
  <2>1. /\ w \in Placed(b) /\ CanReplace(b, w, outcome, profit)
        /\ committed' = CloseEligible(d)
    BY <1>5 DEF RegradeWager, Placed, CorrectLegs, Commit
  <2>2. \A e \in Legs(b, w) : grades[e] \in LegGrades
    BY GradeLegType DEF Grades, Legs
  <2>3. outcome \in {"win", "loss", "refund"}
    <3>1. \A e \in Legs(b, w) : grades[e] # "pending" BY <2>2 DEF LegGrades
    <3> QED BY <3>1, GradeTicketType DEF Legs
  <2>4. profit \in Nat BY <1>1, <2>1, ProfitType
  <2>5. {} \in SUBSET Event /\ TRUE \in BOOLEAN OBVIOUS
  <2> HIDE DEF b, grades, outcome, profit
  <2>6. RewrittenAs(b, c, w, outcome, TRUE, {}) /\ Kept(b, c)
    BY <1>1, <2>1, <2>3, <2>4, <2>5, ReplaceRows, ReplaceSound DEF b
  <2> HIDE DEF c
  <2>7. Sound(c) /\ StatusExplained(c) /\ c \in Book /\ Legs(c, w) = Legs(b, w)
    BY <2>6 DEF Kept, Legs, Sound
  <2>8. rows \in [Event -> [grade : {"none", "win", "loss", "push", "void"}, version : Nat]]
    <3>1. c.leg[w] \in [Event -> [grade : {"none", "win", "loss", "push", "void"}, version : Nat]]
      BY <2>7 DEF Book
    <3> QED BY <2>2, <2>7, <3>1 DEF LegGrades
  <2> HIDE DEF rows
  <2>9. SameLedger(c, d) /\ Kept(c, d) BY <2>7, <2>8, LegRowsKept
  <2> HIDE DEF d
  <2>10. d \in Book /\ d.order = b.order
    BY <2>6, <2>9 DEF Kept, Sound, SameLedger, RewrittenAs, Rewritten
  <2> QED BY <2>1, <2>10, CloseEligibleRows DEF b
<1>6. ASSUME ConfirmSuperBowl \/ CloseSeason PROVE committed'.order = committed.order
  <2>1. CASE ConfirmSuperBowl
    <3>1. committed' = [committed EXCEPT !.confirmed = TRUE]
      BY <2>1 DEF ConfirmSuperBowl, Commit
    <3> QED BY <1>1, <3>1 DEF Book
  <2>2. CASE CloseSeason
    <3>1. committed' = [committed EXCEPT !.state = "closed", !.reason = "commissioner_closed"]
      BY <2>2 DEF CloseSeason, Commit
    <3> QED BY <1>1, <3>1 DEF Book
  <2> QED BY <1>6, <2>1, <2>2
<1>7. CASE CommitSettlement
  BY <1>1, <1>7, CloseEligibleRows DEF CommitSettlement, RunIsNeeded
<1>8. CASE committed' = committed BY <1>8
<1>9. CASE Command
  BY <1>2, <1>3, <1>4, <1>5, <1>6, <1>9, Zenon DEF Command
<1>10. CASE Settlement
  BY <1>7, <1>8, <1>10 DEF Settlement, BeginSettlement, SettleNext, SettlementThrows,
     Evicted, RollBack
<1>11. CASE Environment
  BY <1>8, <1>11 DEF Environment, PublishResult, KickOff
<1> QED BY <1>9, <1>10, <1>11 DEF Next

\* A purchase is fair to those who hold shares already: whatever the amounts, the
\* price moves by no more than three roundings.
THEOREM PriceNeverDiluted == Spec => PriceUndiluted
<1> DEFINE A == LET before == SharePrice(committed.float, committed.notional)
                    after  == SharePrice(committed'.float, committed'.notional)
                IN  /\ committed.float > 0
                    /\ \E o \in Order : /\ ~committed.order[o].placed
                                       /\ committed'.order[o].placed
                                       /\ committed'.order[o].reverses = 0
                    => 2 * Magnitude(after - before) * committed'.float
                         <= committed.float + committed'.float
                              + (IF before > Unit THEN before ELSE Unit)
<1>1. LedgerInvariant /\ EvidenceInvariant /\ [Next]_vars => [A]_vars
  <2> SUFFICES ASSUME LedgerInvariant, EvidenceInvariant, Next, committed.float > 0,
                      NEW o \in Order,
                      ~committed.order[o].placed, committed'.order[o].placed,
                      committed'.order[o].reverses = 0
               PROVE  PriceKept(committed, committed')
    BY DEF A, PriceKept
  <2>1. PICK m \in Member, mode \in {"shares", "value"}, a \in Amount, n \in Order :
          ExecuteShareOrder(n, m, mode, a)
    BY OnlyOrdersOrder
  <2> DEFINE b == committed
             price == SharePrice(b.float, b.notional)
             s == OrderShares(mode, a, price)
             v == OrderValue(mode, a, price)
             av == [b.available EXCEPT ![m] = @ + s]
             fl == b.float + s
             nl == b.notional + v
             od == [b.order EXCEPT ![n] = [member |-> m, shares |-> s, value |-> v,
                                           reverses |-> 0, placed |-> TRUE]]
             c == [b EXCEPT !.available = av, !.float = fl, !.notional = nl, !.order = od]
  <2>2. committed' = c /\ s > 0 /\ v > 0 /\ (mode = "value" => price # 0)
    BY <2>1 DEF ExecuteShareOrder, Commit
  <2>3. Sound(b) /\ b \in Book BY EvidenceBooks
  <2> HIDE DEF b, av, od
  <2>4. c.float = fl /\ c.notional = nl
    <3> HIDE DEF fl, nl
    <3> QED BY <2>3 DEF Book
  <2> HIDE DEF c
  <2>5. PriceKept(b, c) BY <2>2, <2>3, <2>4, OrderKeepsPrice DEF b
  <2> QED BY <2>2, <2>5 DEF b
<1> QED BY <1>1, EvidenceAlways, PTL DEF Spec, PriceUndiluted

-----------------------------------------------------------------------------
(***************************************************************************)
(* What is read of a season: WagerViews, and at the end Standings.         *)
(* First, sums of the values of a function, whose domain is any finite set *)
(* and is added up in an order nobody knows.                               *)
(***************************************************************************)

\* Induction over a finite set D for a family of its subsets instead of a predicate.
LEMMA FiniteInduction ==
  ASSUME NEW D, IsFiniteSet(D), NEW F, {} \in F,
         \A s \in SUBSET D, y \in D : s \in F => s \cup {y} \in F
  PROVE  D \in F
<1> DEFINE T == {n \in Nat : \E s \in SUBSET D : Cardinality(s) = n /\ s \notin F}
<1>1. SUFFICES ASSUME D \notin F PROVE FALSE OBVIOUS
<1>2. T # {} /\ T \subseteq Nat BY <1>1, FS_CardinalityType
<1>3. PICK n \in T : \A k \in T : n <= k
  <2> HIDE DEF T
  <2> QED BY <1>2, LeastNatural
<1>4. PICK s \in SUBSET D : Cardinality(s) = n /\ s \notin F BY <1>3
<1>5. IsFiniteSet(s) /\ s # {} BY <1>4, FS_Subset
<1>6. PICK y \in s : TRUE BY <1>5
<1>7. /\ IsFiniteSet(s \ {y}) /\ Cardinality(s \ {y}) = Cardinality(s) - 1
      /\ Cardinality(s \ {y}) \in Nat /\ Cardinality(s) \in Nat
  BY <1>5, <1>6, FS_RemoveElement, FS_CardinalityType
<1>8. Cardinality(s \ {y}) \notin T
  <2> HIDE DEF T
  <2> QED BY <1>3, <1>4, <1>7
<1>9. s \ {y} \in F BY <1>4, <1>7, <1>8
<1>10. (s \ {y}) \cup {y} = s BY <1>6
<1> QED BY <1>4, <1>6, <1>9, <1>10

\* The equation of the fold, and a function of subsets that satisfies it.
AddedStep(f, g, s) == IF s = {} THEN 0 ELSE LET x == CHOOSE y \in s : TRUE IN f[x] + g[s \ {x}]
AddedUp(f, g)      == g = [s \in SUBSET DOMAIN f |-> AddedStep(f, g, s)]
AddsUpTo(f, g, n)  == \A s \in SUBSET DOMAIN f : Cardinality(s) <= n => g[s] = AddedStep(f, g, s)
AddsFar(f, n)      == \E g : g = [s \in SUBSET DOMAIN f |-> g[s]] /\ AddsUpTo(f, g, n)

LEMMA OneTaken ==
  ASSUME NEW D, IsFiniteSet(D), NEW s \in SUBSET D, NEW x \in s
  PROVE  /\ s \ {x} \in SUBSET D /\ IsFiniteSet(s) /\ IsFiniteSet(s \ {x})
         /\ Cardinality(s) \in Nat /\ Cardinality(s \ {x}) \in Nat
         /\ Cardinality(s \ {x}) = Cardinality(s) - 1
<1>1. IsFiniteSet(s) BY FS_Subset
<1>2. IsFiniteSet(s \ {x}) /\ Cardinality(s \ {x}) = Cardinality(s) - 1 BY <1>1, FS_RemoveElement
<1> QED BY <1>1, <1>2, FS_CardinalityType

LEMMA AddsNext ==
  ASSUME NEW f, IsFiniteSet(DOMAIN f), NEW n \in Nat, NEW g, AddsUpTo(f, g, n)
  PROVE  AddsFar(f, n + 1)
<1> DEFINE h == [s \in SUBSET DOMAIN f |-> AddedStep(f, g, s)]
<1>1. \A s \in SUBSET DOMAIN f : h[s] = AddedStep(f, g, s) OBVIOUS
<1>2. h = [s \in SUBSET DOMAIN f |-> h[s]] OBVIOUS
<1> HIDE DEF h
<1>3. ASSUME NEW s \in SUBSET DOMAIN f, Cardinality(s) <= n + 1 PROVE h[s] = AddedStep(f, h, s)
  <2>1. CASE s = {} BY <1>1, <2>1 DEF AddedStep
  <2>2. CASE s # {}
    <3> DEFINE x == CHOOSE y \in s : TRUE
    <3>1. x \in s BY <2>2
    <3>2. AddedStep(f, g, s) = f[x] + g[s \ {x}] /\ AddedStep(f, h, s) = f[x] + h[s \ {x}]
      BY <2>2 DEF AddedStep
    <3> HIDE DEF x
    <3>3. s \ {x} \in SUBSET DOMAIN f /\ Cardinality(s \ {x}) <= n BY <1>3, <3>1, OneTaken
    <3>4. g[s \ {x}] = h[s \ {x}] BY <1>1, <3>3 DEF AddsUpTo
    <3> QED BY <1>1, <3>2, <3>4
  <2> QED BY <2>1, <2>2
<1>4. AddsUpTo(f, h, n + 1) BY <1>3 DEF AddsUpTo
<1> QED BY <1>2, <1>4 DEF AddsFar

LEMMA AddsEverywhere ==
  ASSUME NEW f, IsFiniteSet(DOMAIN f)
  PROVE  \E g : AddedUp(f, g)
<1> DEFINE S == {n \in Nat : AddsFar(f, n)}
<1>1. 0 \in S
  <2> DEFINE g == [s \in SUBSET DOMAIN f |-> 0]
  <2>1. ASSUME NEW s \in SUBSET DOMAIN f, Cardinality(s) <= 0 PROVE g[s] = AddedStep(f, g, s)
    <3>1. s = {}
      <4>1. IsFiniteSet(s) BY FS_Subset
      <4>2. Cardinality(s) \in Nat BY <4>1, FS_CardinalityType
      <4> QED BY <2>1, <4>1, <4>2, FS_EmptySet
    <3> QED BY <3>1 DEF AddedStep
  <2>2. g = [s \in SUBSET DOMAIN f |-> g[s]] OBVIOUS
  <2> HIDE DEF g
  <2>3. AddsUpTo(f, g, 0) BY <2>1 DEF AddsUpTo
  <2> QED BY <2>2, <2>3 DEF AddsFar
<1>2. ASSUME NEW n \in Nat, n \in S PROVE n + 1 \in S
  <2>1. PICK g : AddsUpTo(f, g, n) BY <1>2 DEF AddsFar
  <2> QED BY <2>1, AddsNext
<1>3. Cardinality(DOMAIN f) \in S
  <2>1. Cardinality(DOMAIN f) \in Nat BY FS_CardinalityType
  <2> HIDE DEF S
  <2> QED BY <1>1, <1>2, <2>1, SetInduction
<1>4. PICK g : g = [s \in SUBSET DOMAIN f |-> g[s]] /\ AddsUpTo(f, g, Cardinality(DOMAIN f))
  BY <1>3 DEF AddsFar
<1>5. \A s \in SUBSET DOMAIN f : g[s] = AddedStep(f, g, s) BY <1>4, FS_Subset DEF AddsUpTo
<1>6. g = [s \in SUBSET DOMAIN f |-> AddedStep(f, g, s)] BY <1>4, <1>5
<1> QED BY <1>6 DEF AddedUp

LEMMA AddedIs ==
  ASSUME NEW f, IsFiniteSet(DOMAIN f)
  PROVE  \E g : AddedUp(f, g) /\ Added(f) = g[DOMAIN f]
<1> DEFINE G == CHOOSE g : AddedUp(f, g)
<1>1. AddedUp(f, G) BY AddsEverywhere
<1>2. Added(f) = G[DOMAIN f]
  BY DEF Added, FoldFunction, FoldFunctionOnSet, MapThenFoldSet, AddedUp, AddedStep
<1> HIDE DEF G
<1> QED BY <1>1, <1>2

\* Whatever is taken first, the sum is the same.
AnyOrder(f, g, s) == g[s] \in Int /\ \A y \in s : g[s] = f[y] + g[s \ {y}]

LEMMA OrderIsFree ==
  ASSUME NEW D, IsFiniteSet(D), NEW f \in [D -> Int], NEW g, AddedUp(f, g)
  PROVE  \A s \in SUBSET D : AnyOrder(f, g, s)
<1> DEFINE S == {n \in Nat : \A s \in SUBSET D : Cardinality(s) <= n => AnyOrder(f, g, s)}
<1>1. \A s \in SUBSET D : g[s] = AddedStep(f, g, s) BY DEF AddedUp
<1>2. 0 \in S
  <2>1. ASSUME NEW s \in SUBSET D, Cardinality(s) <= 0 PROVE AnyOrder(f, g, s)
    <3>1. s = {}
      <4>1. IsFiniteSet(s) BY FS_Subset
      <4>2. Cardinality(s) \in Nat BY <4>1, FS_CardinalityType
      <4> QED BY <2>1, <4>1, <4>2, FS_EmptySet
    <3>2. g[s] = 0 BY <1>1, <3>1 DEF AddedStep
    <3> QED BY <3>1, <3>2 DEF AnyOrder
  <2> QED BY <2>1
<1>3. ASSUME NEW n \in Nat, n \in S PROVE n + 1 \in S
  <2>1. ASSUME NEW s \in SUBSET D, Cardinality(s) <= n + 1, s # {} PROVE AnyOrder(f, g, s)
    <3> DEFINE c == CHOOSE y \in s : TRUE
    <3>1. c \in s BY <2>1
    <3>2. g[s] = f[c] + g[s \ {c}] BY <1>1, <2>1 DEF AddedStep
    <3> HIDE DEF c
    <3>3. \A y \in s : s \ {y} \in SUBSET D /\ AnyOrder(f, g, s \ {y})
      <4> SUFFICES ASSUME NEW y \in s PROVE s \ {y} \in SUBSET D /\ AnyOrder(f, g, s \ {y}) OBVIOUS
      <4>1. s \ {y} \in SUBSET D /\ Cardinality(s \ {y}) <= n BY <2>1, OneTaken
      <4> QED BY <1>3, <4>1
    <3>4. f[c] \in Int /\ g[s \ {c}] \in Int BY <3>1, <3>3 DEF AnyOrder
    <3>5. ASSUME NEW y \in s PROVE g[s] = f[y] + g[s \ {y}]
      <4>1. CASE y = c BY <3>2, <4>1
      <4>2. CASE y # c
        <5>1. y \in s \ {c} /\ c \in s \ {y} /\ (s \ {c}) \ {y} = (s \ {y}) \ {c} BY <3>1, <4>2
        <5>2. g[s \ {c}] = f[y] + g[(s \ {c}) \ {y}] BY <3>1, <3>3, <5>1 DEF AnyOrder
        <5>3. g[s \ {y}] = f[c] + g[(s \ {y}) \ {c}] BY <3>3, <5>1 DEF AnyOrder
        <5>4. f[y] \in Int /\ g[s \ {y}] \in Int BY <3>3 DEF AnyOrder
        <5>5. g[(s \ {c}) \ {y}] \in Int
          <6>1. Cardinality((s \ {c}) \ {y}) <= n /\ (s \ {c}) \ {y} \in SUBSET D
            <7>1. /\ s \ {c} \in SUBSET D /\ Cardinality(s \ {c}) = Cardinality(s) - 1
                  /\ Cardinality(s) \in Nat /\ Cardinality(s \ {c}) \in Nat
              BY <3>1, OneTaken
            <7> DEFINE r == s \ {c}
            <7>2. r \in SUBSET D /\ y \in r BY <5>1, <7>1
            <7> HIDE DEF r
            <7>3. r \ {y} \in SUBSET D /\ Cardinality(r \ {y}) = Cardinality(r) - 1
              BY <7>2, OneTaken
            <7> QED BY <2>1, <7>1, <7>3 DEF r
          <6> QED BY <1>3, <6>1 DEF AnyOrder
        <5> DEFINE z == g[(s \ {c}) \ {y}]
        <5>6. g[(s \ {y}) \ {c}] = z BY <5>1
        <5> HIDE DEF z
        <5>7. g[s \ {c}] = f[y] + z /\ g[s \ {y}] = f[c] + z BY <5>2, <5>3, <5>6 DEF z
        <5>8. z \in Int BY <5>5 DEF z
        <5> QED BY <3>2, <3>4, <5>4, <5>7, <5>8
      <4> QED BY <4>1, <4>2
    <3>6. g[s] \in Int BY <3>2, <3>4
    <3> QED BY <3>5, <3>6 DEF AnyOrder
  <2>2. \A s \in SUBSET D : s = {} => AnyOrder(f, g, s) BY <1>1 DEF AddedStep, AnyOrder
  <2> QED BY <2>1, <2>2
<1>4. ASSUME NEW s \in SUBSET D PROVE AnyOrder(f, g, s)
  <2>1. Cardinality(s) \in Nat BY FS_Subset, FS_CardinalityType
  <2> HIDE DEF S
  <2>2. Cardinality(s) \in S BY <1>2, <1>3, <2>1, SetInduction
  <2> QED BY <2>1, <2>2 DEF S
<1> QED BY <1>4

\* A table of the sums of a function over all subsets of its domain.
Tabulates(D, f, g) ==
  /\ g[{}] = 0
  /\ \A s \in SUBSET D : /\ g[s] \in Int
                         /\ Added([x \in s |-> f[x]]) = g[s]
                         /\ \A y \in s : g[s] = f[y] + g[s \ {y}]

LEMMA SumsAreTabulated ==
  ASSUME NEW D, IsFiniteSet(D), NEW f \in [D -> Int]
  PROVE  \E g : Tabulates(D, f, g)
<1>1. PICK g : AddedUp(f, g) BY AddsEverywhere
<1>2. \A s \in SUBSET D : AnyOrder(f, g, s) BY <1>1, OrderIsFree
<1>3. \A s \in SUBSET D : g[s] = AddedStep(f, g, s) BY <1>1 DEF AddedUp
<1>4. ASSUME NEW s \in SUBSET D PROVE Added([x \in s |-> f[x]]) = g[s]
  <2> DEFINE r == [x \in s |-> f[x]]
  <2>1. DOMAIN r = s /\ IsFiniteSet(s) BY FS_Subset
  <2>2. \A x \in s : r[x] = f[x] OBVIOUS
  <2> HIDE DEF r
  <2>3. PICK h : AddedUp(r, h) /\ Added(r) = h[s] BY <2>1, AddedIs
  <2>4. \A u \in SUBSET s : h[u] = AddedStep(r, h, u) BY <2>1, <2>3 DEF AddedUp
  <2> DEFINE F == {u \in SUBSET s : \A w \in SUBSET u : h[w] = g[w]}
             S == {n \in Nat : \A u \in SUBSET s : Cardinality(u) <= n => h[u] = g[u]}
  <2>5. \A u \in SUBSET s : u = {} => h[u] = g[u] BY <1>3, <2>4 DEF AddedStep
  <2>6. 0 \in S
    <3>1. ASSUME NEW u \in SUBSET s, Cardinality(u) <= 0 PROVE u = {}
      <4>1. IsFiniteSet(u) BY <2>1, FS_Subset
      <4>2. Cardinality(u) \in Nat BY <4>1, FS_CardinalityType
      <4> QED BY <3>1, <4>1, <4>2, FS_EmptySet
    <3> QED BY <2>5, <3>1
  <2>7. ASSUME NEW n \in Nat, n \in S PROVE n + 1 \in S
    <3>1. ASSUME NEW u \in SUBSET s, Cardinality(u) <= n + 1, u # {} PROVE h[u] = g[u]
      <4> DEFINE c == CHOOSE y \in u : TRUE
      <4>1. c \in u BY <3>1
      <4>2. g[u] = f[c] + g[u \ {c}] /\ h[u] = r[c] + h[u \ {c}] BY <1>3, <2>4, <3>1 DEF AddedStep
      <4> HIDE DEF c
      <4>3. u \ {c} \in SUBSET s /\ Cardinality(u \ {c}) <= n
        <5>1. /\ u \ {c} \in SUBSET s /\ Cardinality(u) \in Nat /\ Cardinality(u \ {c}) \in Nat
              /\ Cardinality(u \ {c}) = Cardinality(u) - 1
          BY <2>1, <4>1, OneTaken
        <5> QED BY <3>1, <5>1
      <4>4. h[u \ {c}] = g[u \ {c}] BY <2>7, <4>3
      <4> QED BY <2>2, <4>1, <4>2, <4>4
    <3> QED BY <2>5, <3>1
  <2>8. Cardinality(s) \in Nat BY <2>1, FS_CardinalityType
  <2>9. Cardinality(s) \in S
    <3> HIDE DEF S
    <3> QED BY <2>6, <2>7, <2>8, SetInduction
  <2> QED BY <2>3, <2>8, <2>9 DEF r
<1>5. g[{}] = 0 BY <1>3 DEF AddedStep
<1>6. Tabulates(D, f, g) BY <1>2, <1>4, <1>5 DEF Tabulates, AnyOrder
<1> QED BY <1>6

\* The sum of the whole, and of nothing.
LEMMA SumOfAll ==
  ASSUME NEW D, NEW f \in [D -> Int], NEW g, Tabulates(D, f, g)
  PROVE  Added(f) = g[D] /\ Added(f) \in Int
<1>1. [x \in D |-> f[x]] = f OBVIOUS
<1>2. D \in SUBSET D OBVIOUS
<1>3. Added([x \in D |-> f[x]]) = g[D] /\ g[D] \in Int BY <1>2 DEF Tabulates
<1> QED BY <1>1, <1>3

LEMMA SumOfZeros ==
  ASSUME NEW D, IsFiniteSet(D), NEW f \in [D -> Int], \A x \in D : f[x] = 0
  PROVE  Added(f) = 0
<1>1. PICK g : Tabulates(D, f, g) BY SumsAreTabulated
<1> DEFINE F == {s \in SUBSET D : g[s] = 0}
<1>2. {} \in F BY <1>1 DEF Tabulates
<1>3. ASSUME NEW s \in SUBSET D, NEW y \in D, s \in F PROVE s \cup {y} \in F
  <2>1. CASE y \in s
    <3>1. s \cup {y} = s BY <2>1
    <3> QED BY <1>3, <3>1
  <2>2. CASE y \notin s
    <3>1. (s \cup {y}) \ {y} = s /\ s \cup {y} \in SUBSET D BY <2>2
    <3>2. g[s \cup {y}] = f[y] + g[s] BY <1>1, <3>1 DEF Tabulates
    <3> QED BY <1>3, <3>1, <3>2
  <2> QED BY <2>1, <2>2
<1>4. D \in F
  <2> HIDE DEF F
  <2> QED BY <1>2, <1>3, FiniteInduction
<1> QED BY <1>1, <1>4, SumOfAll

\* One value changes the sum by as much as it changes.
LEMMA SumFollowsValue ==
  ASSUME NEW D, IsFiniteSet(D), NEW p \in [D -> Int], NEW k \in D, NEW d \in Int
  PROVE  Added([p EXCEPT ![k] = p[k] + d]) = Added(p) + d
<1> DEFINE q == [p EXCEPT ![k] = p[k] + d]
<1>a. q \in [D -> Int] /\ \A x \in D : q[x] = IF x = k THEN p[x] + d ELSE p[x] OBVIOUS
<1> HIDE DEF q
<1>1. PICK g : Tabulates(D, p, g) BY SumsAreTabulated
<1>2. PICK h : Tabulates(D, q, h) BY <1>a, SumsAreTabulated
<1> DEFINE r == D \ {k}
<1>3. r \in SUBSET D /\ D \in SUBSET D OBVIOUS
<1>4. g[D] = p[k] + g[r] /\ h[D] = q[k] + h[r] BY <1>1, <1>2, <1>3 DEF Tabulates
<1>5. [x \in r |-> p[x]] = [x \in r |-> q[x]] BY <1>a
<1>6. h[r] = g[r] /\ g[r] \in Int
  <2> HIDE DEF r
  <2>1. Added([x \in r |-> p[x]]) = g[r] /\ Added([x \in r |-> q[x]]) = h[r] /\ g[r] \in Int
    BY <1>1, <1>2, <1>3 DEF Tabulates
  <2> QED BY <1>5, <2>1
<1>7. Added(p) = g[D] /\ Added(q) = h[D] BY <1>a, <1>1, <1>2, SumOfAll
<1>8. q[k] = p[k] + d /\ p[k] \in Int BY <1>a
<1> HIDE DEF r
<1>9. Added(q) = Added(p) + d BY <1>4, <1>6, <1>7, <1>8
<1> QED BY <1>9 DEF q

\* A sum by parts: what falls under each key, and all keys together.
LEMMA SumByKeys ==
  ASSUME NEW D, IsFiniteSet(D), NEW f \in [D -> Int], NEW K, IsFiniteSet(K), NEW key \in [D -> K]
  PROVE  Added([k \in K |-> Added([x \in {y \in D : key[y] = k} |-> f[x]])]) = Added(f)
<1>1. PICK g : Tabulates(D, f, g) BY SumsAreTabulated
<1> DEFINE under(s, k) == {y \in s : key[y] = k}
           parts(s) == [k \in K |-> g[under(s, k)]]
           F == {s \in SUBSET D : Added(parts(s)) = g[s]}
<1>2. \A s \in SUBSET D : parts(s) \in [K -> Int] BY <1>1 DEF Tabulates
<1>3. {} \in F
  <2>1. \A k \in K : parts({})[k] = 0 BY <1>1 DEF Tabulates
  <2>2. parts({}) \in [K -> Int] BY <1>2
  <2> HIDE DEF parts
  <2> QED BY <1>1, <2>1, <2>2, SumOfZeros DEF Tabulates
<1>4. ASSUME NEW s \in SUBSET D, NEW y \in D, s \in F PROVE s \cup {y} \in F
  <2>1. CASE y \in s
    <3>1. s \cup {y} = s BY <2>1
    <3> QED BY <1>4, <3>1
  <2>2. CASE y \notin s
    <3> DEFINE t == s \cup {y}
               p == parts(s)
               q == parts(t)
    <3>1. t \ {y} = s /\ t \in SUBSET D /\ y \in t BY <2>2
    <3>2. g[t] = f[y] + g[s] /\ f[y] \in Int /\ g[s] \in Int BY <1>1, <3>1 DEF Tabulates
    <3>3. ASSUME NEW k \in K PROVE q[k] = IF k = key[y] THEN p[k] + f[y] ELSE p[k]
      <4>1. q[k] = g[under(t, k)] /\ p[k] = g[under(s, k)] OBVIOUS
      <4>2. CASE k = key[y]
        <5> DEFINE u == under(t, k)
        <5>1. y \in u /\ u \in SUBSET D /\ u \ {y} = under(s, k) BY <2>2, <4>2
        <5> HIDE DEF u, under
        <5>2. g[u] = f[y] + g[u \ {y}] /\ g[u \ {y}] \in Int
          <6>1. u \ {y} \in SUBSET D BY <5>1
          <6> QED BY <1>1, <5>1, <6>1 DEF Tabulates
        <5> DEFINE w == under(s, k)
        <5>3. g[u \ {y}] = g[w] BY <5>1
        <5> HIDE DEF w
        <5>4. g[w] \in Int /\ g[u] = f[y] + g[w] BY <5>2, <5>3
        <5>5. g[u] = g[w] + f[y] BY <3>2, <5>4
        <5> QED BY <4>1, <4>2, <5>5 DEF u, w
      <4>3. CASE k # key[y]
        <5>1. under(t, k) = under(s, k) BY <4>3
        <5> QED BY <4>1, <4>3, <5>1
      <4> QED BY <4>2, <4>3
    <3>4. p \in [K -> Int] /\ q \in [K -> Int] BY <1>2, <3>1
    <3>5. key[y] \in K OBVIOUS
    <3>6. Added(p) = g[s] BY <1>4
    <3> HIDE DEF p, q
    <3>7. Added(q) = Added(p) + f[y]
      <4> DEFINE k == key[y]
                 d == f[y]
      <4>1. k \in K /\ d \in Int BY <3>2, <3>5
      <4>2. q = [p EXCEPT ![k] = p[k] + d] BY <3>3, <3>4
      <4> HIDE DEF k, d
      <4>3. p \in [K -> Int] BY <3>4
      <4>4. Added([p EXCEPT ![k] = p[k] + d]) = Added(p) + d BY <4>1, <4>3, SumFollowsValue
      <4>5. Added(q) = Added(p) + d BY <4>2, <4>4
      <4> QED BY <4>5 DEF d
    <3>8. Added(q) = g[t] BY <3>2, <3>6, <3>7
    <3> QED BY <3>1, <3>8 DEF q
  <2> QED BY <2>1, <2>2
<1>5. D \in F
  <2> HIDE DEF F
  <2> QED BY <1>3, <1>4, FiniteInduction
<1>6. \A k \in K : Added([x \in under(D, k) |-> f[x]]) = g[under(D, k)] BY <1>1 DEF Tabulates
<1>7. parts(D) = [k \in K |-> Added([x \in under(D, k) |-> f[x]])] BY <1>6
<1>8. Added(f) = g[D] BY <1>1, SumOfAll
<1> QED BY <1>5, <1>7, <1>8

-----------------------------------------------------------------------------
(* WagerViews *)

(* The inductive invariant *)

AllLegs == UNION {UNION Slip[x] : x \in Bet}
ShownGrades  == {"none", "win", "loss", "push"}
Ended   == {"won", "lost", "refunded"}

Settlements == [outcome : Ended \cup {"reversal"}, profit : Int, of : Nat,
                by : {"system", "commissioner"}, seen : SUBSET Game]

\* What one settlement moves, and the rows of a ticket: a row names one before it, and
\* nothing but the last row can stand.
FloatOf(r, risk) ==
  CASE r.outcome = "won" -> r.profit [] r.outcome = "lost" -> -risk
    [] r.outcome \notin {"won", "lost"} -> 0

RowsAreLinked(rows) ==
  /\ rows \in Seq(Settlements)
  /\ \A k \in 1..Len(rows) : rows[k].of < k /\ (rows[k].outcome = "reversal" => rows[k].of > 0)

StandsAsLast(t) ==
  /\ Standing(t) \subseteq {Len(t.rows)}
  /\ FloatMoved(t) = IF Standing(t) = {} THEN 0 ELSE FloatOf(t.rows[Len(t.rows)], t.risk)
  /\ t.status = IF Standing(t) = {} THEN "open" ELSE t.rows[Len(t.rows)].outcome

LegsArePlaced(legs) == legs \subseteq AllLegs /\ IsFiniteSet(legs) /\ legs # {}

\* A grade is of a game that has started.
GradesAreOfStarted(grade, legs, now) ==
  /\ grade \in [legs -> ShownGrades]
  /\ \A l \in legs : grade[l] # "none" => Kickoff[l.game] <= now

TicketShape(t) == t = [owner |-> t.owner, legs |-> t.legs, risk |-> t.risk, status |-> t.status,
                       grade |-> t.grade, rows |-> t.rows]

TicketIsSound(t, now) ==
  /\ TicketShape(t) /\ t.owner \in Holder /\ t.risk = Stake
  /\ LegsArePlaced(t.legs) /\ GradesAreOfStarted(t.grade, t.legs, now)
  /\ RowsAreLinked(t.rows) /\ StandsAsLast(t)

ViewsInv ==
  /\ clock \in Nat
  /\ ticket = [x \in Bet |-> ticket[x]]
  /\ \A x \in Bet : ticket[x] = Blank \/ TicketIsSound(ticket[x], clock)

(* Lemmas: settlements *)

LEMMA TotalLonger ==
  ASSUME NEW n \in Nat, NEW f, NEW g, \A k \in 1..n : g[k] = f[k]
  PROVE  Total(g, n + 1) = Total(f, n) + g[n + 1]
<1> DEFINE r == RunningTotals(f, n)
           q == RunningTotals(g, n + 1)
           S == {k \in Nat : k <= n => q[k] = r[k]}
<1>1. r[0] = 0 /\ \A k \in 1..n : r[k] = r[k-1] + f[k] BY RunningTotalsStep
<1>2. q[0] = 0 /\ \A k \in 1..(n + 1) : q[k] = q[k-1] + g[k]
  <2>1. n + 1 \in Nat OBVIOUS
  <2> QED BY <2>1, RunningTotalsStep
<1> HIDE DEF r, q
<1>3. 0 \in S BY <1>1, <1>2
<1>4. ASSUME NEW k \in Nat, k \in S PROVE k + 1 \in S
  <2> SUFFICES ASSUME k + 1 <= n PROVE q[k+1] = r[k+1] OBVIOUS
  <2>1. k + 1 \in 1..n /\ k + 1 \in 1..(n + 1) /\ (k + 1) - 1 = k /\ q[k] = r[k] BY <1>4
  <2> QED BY <1>1, <1>2, <2>1
<1>5. n \in S
  <2> HIDE DEF S
  <2> QED BY <1>3, <1>4, SetInduction
<1>6. n + 1 \in 1..(n + 1) /\ (n + 1) - 1 = n OBVIOUS
<1>7. q[n + 1] = q[n] + g[n + 1] BY <1>2, <1>6
<1> QED BY <1>5, <1>7 DEF Total, r, q

\* What stands in a history, and what its rows move.
StandingIn(rows) ==
  {k \in 1..Len(rows) : rows[k].outcome # "reversal" /\ \A j \in 1..Len(rows) : rows[j].of # k}

RowMoves(rows, risk, k) ==
  IF rows[k].outcome = "reversal" THEN -FloatOf(rows[rows[k].of], risk) ELSE FloatOf(rows[k], risk)

MovedBy(rows, risk) == Total([k \in 1..Len(rows) |-> RowMoves(rows, risk, k)], Len(rows))

LEMMA HistoryTells == \A t : Standing(t) = StandingIn(t.rows) /\ FloatMoved(t) = MovedBy(t.rows, t.risk)
BY DEF Standing, StandingIn, FloatMoved, Sum, MovedBy, RowMoves, FloatOf

LEMMA RowAppended ==
  ASSUME NEW rows, RowsAreLinked(rows), NEW risk, NEW r \in Settlements, r.of <= Len(rows),
         r.outcome = "reversal" => r.of > 0
  PROVE  LET more == Append(rows, r)
         IN  /\ RowsAreLinked(more) /\ Len(more) = Len(rows) + 1 /\ more[Len(more)] = r
             /\ StandingIn(more) = (StandingIn(rows) \ {r.of})
                                     \cup (IF r.outcome = "reversal" THEN {} ELSE {Len(more)})
             /\ MovedBy(more, risk) = MovedBy(rows, risk)
                  + (IF r.outcome = "reversal" THEN -FloatOf(rows[r.of], risk) ELSE FloatOf(r, risk))
<1> DEFINE more == Append(rows, r)
           n == Len(rows)
<1>1. rows \in Seq(Settlements) /\ n \in Nat /\ Len(more) = n + 1 /\ more \in Seq(Settlements)
      /\ more[n + 1] = r /\ \A k \in 1..n : more[k] = rows[k]
  BY AppendProperties DEF RowsAreLinked
<1> HIDE DEF more
<1>2. \A k \in 1..n : /\ rows[k].of \in Nat /\ rows[k].of < k
                      /\ rows[k].outcome = "reversal" => rows[k].of > 0
  <2>1. \A k \in 1..n : rows[k] \in Settlements BY <1>1
  <2>2. \A k \in 1..n : rows[k].of \in Nat BY <2>1 DEF Settlements
  <2> QED BY <1>1, <2>2 DEF RowsAreLinked
<1>3. r.of \in Nat /\ r.of <= n BY <1>1 DEF Settlements
<1>4. RowsAreLinked(more)
  <2>1. ASSUME NEW k \in 1..Len(more)
        PROVE  more[k].of < k /\ (more[k].outcome = "reversal" => more[k].of > 0)
    <3>1. CASE k = n + 1 BY <1>1, <1>3, <3>1
    <3>2. CASE k # n + 1 BY <1>1, <1>2, <2>1, <3>2
    <3> QED BY <3>1, <3>2
  <2> QED BY <1>1, <2>1 DEF RowsAreLinked
<1>5. ASSUME NEW k \in Nat
      PROVE  k \in StandingIn(more) <=> \/ k \in StandingIn(rows) /\ k # r.of
                                        \/ k = n + 1 /\ r.outcome # "reversal"
  <2>1. CASE k \in 1..n
    <3>1. k \in 1..Len(more) /\ more[k] = rows[k] /\ k # n + 1 /\ n + 1 \in 1..Len(more) BY <1>1, <2>1
    <3>2. (\A j \in 1..Len(more) : more[j].of # k) <=> (\A j \in 1..n : rows[j].of # k) /\ r.of # k
      <4>1. \A j \in 1..Len(more) : j \in 1..n \/ j = n + 1 BY <1>1
      <4>2. \A j \in 1..n : j \in 1..Len(more) BY <1>1
      <4> QED BY <1>1, <3>1, <4>1, <4>2
    <3> QED BY <2>1, <3>1, <3>2 DEF StandingIn
  <2>2. CASE k = n + 1
    <3>1. k \in 1..Len(more) /\ k \notin StandingIn(rows) BY <1>1, <2>2 DEF StandingIn
    <3>2. \A j \in 1..Len(more) : more[j].of # k
      <4>1. \A j \in 1..Len(more) : j \in 1..n \/ j = n + 1 BY <1>1
      <4>2. \A j \in 1..n : more[j].of # k BY <1>1, <1>2, <2>2
      <4> QED BY <1>1, <1>3, <2>2, <4>1, <4>2
    <3> QED BY <1>1, <2>2, <3>1, <3>2 DEF StandingIn
  <2>3. CASE k \notin 1..n /\ k # n + 1
    <3>1. k \notin 1..Len(more) BY <1>1, <2>3
    <3> QED BY <2>3, <3>1 DEF StandingIn
  <2> QED BY <2>1, <2>2, <2>3
<1>6. StandingIn(more) = (StandingIn(rows) \ {r.of}) \cup (IF r.outcome = "reversal" THEN {} ELSE {n + 1})
  <2>1. StandingIn(more) \subseteq Nat /\ StandingIn(rows) \subseteq Nat /\ n + 1 \in Nat
    BY <1>1 DEF StandingIn
  <2> QED BY <1>5, <2>1
<1>7. MovedBy(more, risk) = MovedBy(rows, risk)
        + (IF r.outcome = "reversal" THEN -FloatOf(rows[r.of], risk) ELSE FloatOf(r, risk))
  <2> DEFINE f == [k \in 1..n |-> RowMoves(rows, risk, k)]
             g == [k \in 1..(n + 1) |-> RowMoves(more, risk, k)]
  <2>1. ASSUME NEW k \in 1..n PROVE RowMoves(more, risk, k) = RowMoves(rows, risk, k)
    <3>1. more[k] = rows[k] BY <1>1
    <3>2. rows[k].outcome = "reversal" => more[rows[k].of] = rows[rows[k].of]
      <4>1. rows[k].outcome = "reversal" => rows[k].of \in 1..n BY <1>1, <1>2
      <4> QED BY <1>1, <4>1
    <3> QED BY <3>1, <3>2 DEF RowMoves
  <2>2. \A k \in 1..n : g[k] = f[k] BY <1>1, <2>1
  <2>3. n + 1 \in 1..(n + 1) BY <1>1
  <2>4. RowMoves(more, risk, n + 1) =
          IF r.outcome = "reversal" THEN -FloatOf(rows[r.of], risk) ELSE FloatOf(r, risk)
    <3>1. r.outcome = "reversal" => r.of \in 1..n BY <1>1, <1>3
    <3> QED BY <1>1, <3>1 DEF RowMoves
  <2>5. g[n + 1] = RowMoves(more, risk, n + 1) BY <2>3
  <2>6. MovedBy(more, risk) = Total(g, n + 1) /\ MovedBy(rows, risk) = Total(f, n) BY <1>1 DEF MovedBy
  <2> HIDE DEF f, g
  <2>7. Total(g, n + 1) = Total(f, n) + g[n + 1] BY <1>1, <2>2, TotalLonger
  <2> QED BY <2>4, <2>5, <2>6, <2>7
<1> QED BY <1>1, <1>4, <1>6, <1>7 DEF more

LEMMA FloatType == ASSUME NEW r \in Settlements, NEW risk \in Int PROVE FloatOf(r, risk) \in Int
BY DEF FloatOf, Settlements

\* A history whose last row stands, or nothing does, and which has moved what stands.
HistoryStands(rows, risk) ==
  /\ StandingIn(rows) \subseteq {Len(rows)}
  /\ MovedBy(rows, risk) = IF StandingIn(rows) = {} THEN 0 ELSE FloatOf(rows[Len(rows)], risk)

LEMMA StandsIsHistory ==
  \A t : StandsAsLast(t) <=>
           /\ HistoryStands(t.rows, t.risk)
           /\ t.status = IF StandingIn(t.rows) = {} THEN "open" ELSE t.rows[Len(t.rows)].outcome
BY HistoryTells DEF StandsAsLast, HistoryStands

\* What stands is the last row, and no reversal; its reversal moves the float back.
LEMMA LastStands ==
  ASSUME NEW rows, RowsAreLinked(rows), NEW risk, HistoryStands(rows, risk), StandingIn(rows) # {}
  PROVE  /\ StandingIn(rows) = {Len(rows)} /\ Max(StandingIn(rows)) = Len(rows)
         /\ Len(rows) \in 1..Len(rows) /\ rows[Len(rows)] \in Settlements
         /\ rows[Len(rows)].outcome \in Ended
<1>1. StandingIn(rows) = {Len(rows)} BY DEF HistoryStands
<1>2. Len(rows) \in 1..Len(rows) /\ rows[Len(rows)].outcome # "reversal" BY <1>1 DEF StandingIn
<1>3. rows[Len(rows)] \in Settlements BY <1>2 DEF RowsAreLinked
<1>4. rows[Len(rows)].outcome \in Ended BY <1>2, <1>3 DEF Settlements
<1>5. Max({Len(rows)}) = Len(rows) BY <1>2 DEF Max
<1> QED BY <1>1, <1>2, <1>3, <1>4, <1>5

UndoesLast(r, rows) == r.outcome = "reversal" /\ r.of = Len(rows)

LEMMA Undoing ==
  ASSUME NEW rows, RowsAreLinked(rows), NEW risk \in Int, HistoryStands(rows, risk), StandingIn(rows) # {},
         NEW r \in Settlements, UndoesLast(r, rows)
  PROVE  LET more == Append(rows, r)
         IN  /\ RowsAreLinked(more) /\ Len(more) = Len(rows) + 1
             /\ StandingIn(more) = {} /\ MovedBy(more, risk) = 0
<1> DEFINE more == Append(rows, r)
<1>1. /\ StandingIn(rows) = {Len(rows)} /\ Len(rows) \in 1..Len(rows) /\ rows[Len(rows)] \in Settlements
  BY LastStands
<1>2. Len(rows) \in Nat /\ Len(rows) > 0 BY <1>1 DEF RowsAreLinked
<1>3. /\ RowsAreLinked(more) /\ Len(more) = Len(rows) + 1 /\ StandingIn(more) = StandingIn(rows) \ {Len(rows)}
      /\ MovedBy(more, risk) = MovedBy(rows, risk) + (-FloatOf(rows[Len(rows)], risk))
  <2>1. r.of <= Len(rows) /\ (r.outcome = "reversal" => r.of > 0) BY <1>2 DEF UndoesLast
  <2>2. /\ RowsAreLinked(more) /\ Len(more) = Len(rows) + 1
        /\ StandingIn(more) = (StandingIn(rows) \ {r.of})
                                \cup (IF r.outcome = "reversal" THEN {} ELSE {Len(more)})
        /\ MovedBy(more, risk) = MovedBy(rows, risk)
             + (IF r.outcome = "reversal" THEN -FloatOf(rows[r.of], risk) ELSE FloatOf(r, risk))
    BY <2>1, RowAppended
  <2> HIDE DEF more
  <2>3. r.outcome = "reversal" /\ r.of = Len(rows) BY DEF UndoesLast
  <2> QED BY <2>2, <2>3
<1>4. FloatOf(rows[Len(rows)], risk) \in Int BY <1>1, FloatType
<1>5. MovedBy(rows, risk) = FloatOf(rows[Len(rows)], risk) BY <1>1 DEF HistoryStands
<1> HIDE DEF more
<1>6. MovedBy(more, risk) = 0 BY <1>3, <1>4, <1>5
<1> QED BY <1>1, <1>3, <1>6 DEF more

LEMMA Applying ==
  ASSUME NEW rows, RowsAreLinked(rows), NEW risk \in Int, StandingIn(rows) = {}, MovedBy(rows, risk) = 0,
         NEW r \in Settlements, r.outcome \in Ended, r.of <= Len(rows)
  PROVE  LET more == Append(rows, r)
         IN  /\ RowsAreLinked(more) /\ HistoryStands(more, risk) /\ StandingIn(more) # {}
             /\ more[Len(more)] = r
<1> DEFINE more == Append(rows, r)
<1>1. r.outcome # "reversal" BY DEF Ended
<1>2. /\ RowsAreLinked(more) /\ more[Len(more)] = r /\ StandingIn(more) = {Len(more)}
      /\ MovedBy(more, risk) = 0 + FloatOf(r, risk)
  <2>1. /\ RowsAreLinked(more) /\ more[Len(more)] = r
        /\ StandingIn(more) = (StandingIn(rows) \ {r.of})
                                \cup (IF r.outcome = "reversal" THEN {} ELSE {Len(more)})
        /\ MovedBy(more, risk) = MovedBy(rows, risk)
             + (IF r.outcome = "reversal" THEN -FloatOf(rows[r.of], risk) ELSE FloatOf(r, risk))
    BY <1>1, RowAppended
  <2> HIDE DEF more
  <2> QED BY <1>1, <2>1
<1>3. FloatOf(r, risk) \in Int BY FloatType
<1> HIDE DEF more
<1>4. MovedBy(more, risk) = FloatOf(r, risk) BY <1>2, <1>3
<1>5. HistoryStands(more, risk) BY <1>2, <1>4 DEF HistoryStands
<1> QED BY <1>2, <1>5 DEF more

\* Settling again reverses what stands and applies the outcome, if there is one.
LEMMA ResettleKeeps ==
  ASSUME NEW t, TicketShape(t), t.risk \in Int, RowsAreLinked(t.rows), StandsAsLast(t),
         NEW outcome \in Ended \cup {"none"}, NEW profit \in Int,
         NEW by \in {"system", "commissioner"}, NEW seen \in SUBSET Game
  PROVE  LET s == Resettle(t, outcome, profit, by, seen)
         IN  /\ TicketShape(s) /\ s.owner = t.owner /\ s.legs = t.legs /\ s.risk = t.risk
             /\ s.grade = t.grade /\ RowsAreLinked(s.rows) /\ StandsAsLast(s)
<1> DEFINE rows     == t.rows
           prior    == IF Standing(t) = {} THEN 0 ELSE Max(Standing(t))
           reversal == IF prior = 0 THEN <<>> ELSE <<SettlementRow("reversal", 0, prior, by, seen)>>
           applied  == IF outcome = "none" THEN <<>> ELSE <<SettlementRow(outcome, profit, prior, by, seen)>>
           more     == rows \o reversal \o applied
           status   == IF outcome = "none" THEN "open" ELSE outcome
           s        == Resettle(t, outcome, profit, by, seen)
<1>1. s = [t EXCEPT !.rows = more, !.status = status] BY DEF Resettle
<1>2. HistoryStands(rows, t.risk) /\ Standing(t) = StandingIn(rows) BY StandsIsHistory, HistoryTells
<1>3. rows \in Seq(Settlements) /\ Len(rows) \in Nat BY DEF RowsAreLinked
<1> DEFINE undone == rows \o reversal
<1>4. /\ RowsAreLinked(undone) /\ StandingIn(undone) = {} /\ MovedBy(undone, t.risk) = 0
      /\ prior \in Nat /\ prior <= Len(undone)
  <2>1. CASE Standing(t) = {}
    <3>1. prior = 0 /\ undone = rows BY <1>3, <2>1, ConcatEmptySeq
    <3>2. StandingIn(rows) = {} /\ MovedBy(rows, t.risk) = 0 BY <1>2, <2>1 DEF HistoryStands
    <3> HIDE DEF prior, undone
    <3> QED BY <1>3, <3>1, <3>2
  <2>2. CASE Standing(t) # {}
    <3> DEFINE r == SettlementRow("reversal", 0, prior, by, seen)
    <3>1. prior = Len(rows) /\ Len(rows) > 0 BY <1>2, <1>3, <2>2, LastStands
    <3> HIDE DEF prior
    <3>a. prior # 0 BY <1>3, <3>1
    <3>b. reversal = <<r>> BY <3>a
    <3> HIDE DEF reversal
    <3>2. undone = rows \o <<r>> BY <3>b
    <3> HIDE DEF undone
    <3>3. r \in Settlements /\ UndoesLast(r, rows)
      BY <1>3, <3>1 DEF SettlementRow, Settlements, UndoesLast
    <3> HIDE DEF r
    <3>4. undone = Append(rows, r) BY <1>3, <3>2, <3>3, AppendIsConcat
    <3>5. /\ RowsAreLinked(undone) /\ Len(undone) = Len(rows) + 1
          /\ StandingIn(undone) = {} /\ MovedBy(undone, t.risk) = 0
      BY <1>2, <2>2, <3>3, <3>4, Undoing
    <3> QED BY <1>3, <3>1, <3>5
  <2> QED BY <2>1, <2>2
<1>5. undone \in Seq(Settlements) BY <1>4 DEF RowsAreLinked
<1>6. /\ RowsAreLinked(more) /\ HistoryStands(more, t.risk)
      /\ status = IF StandingIn(more) = {} THEN "open" ELSE more[Len(more)].outcome
  <2> HIDE DEF prior, undone
  <2>1. more = undone \o applied BY DEF undone
  <2> HIDE DEF more
  <2>2. CASE outcome = "none"
    <3>1. more = undone BY <1>5, <2>1, <2>2, ConcatEmptySeq
    <3> QED BY <1>4, <2>2, <3>1 DEF HistoryStands
  <2>3. CASE outcome # "none"
    <3> DEFINE r == SettlementRow(outcome, profit, prior, by, seen)
    <3>1. r \in Settlements /\ r.outcome = outcome /\ r.of <= Len(undone) /\ outcome \in Ended
      BY <1>4, <2>3 DEF SettlementRow, Settlements, Ended
    <3>2. more = undone \o <<r>> BY <2>1, <2>3
    <3> HIDE DEF r
    <3>3. more = Append(undone, r) BY <1>5, <3>1, <3>2, AppendIsConcat
    <3> QED BY <1>4, <2>3, <3>1, <3>3, Applying
  <2> QED BY <2>2, <2>3
<1> HIDE DEF more, status, s
<1>7. /\ s.owner = t.owner /\ s.legs = t.legs /\ s.risk = t.risk /\ s.grade = t.grade
      /\ s.rows = more /\ s.status = status /\ TicketShape(s)
  BY <1>1 DEF TicketShape
<1>8. StandsAsLast(s) BY <1>6, <1>7, StandsIsHistory
<1> QED BY <1>6, <1>7, <1>8 DEF s

\* New grades of the legs, of games that have started.
LEMMA GradedIsSound ==
  ASSUME NEW now, NEW t, TicketIsSound(t, now), NEW grade, GradesAreOfStarted(grade, t.legs, now)
  PROVE  LET g == [t EXCEPT !.grade = grade]
         IN  TicketIsSound(g, now) /\ g.grade = grade /\ g.legs = t.legs /\ g.rows = t.rows
<1> DEFINE g == [t EXCEPT !.grade = grade]
<1>1. /\ g.owner = t.owner /\ g.legs = t.legs /\ g.risk = t.risk /\ g.status = t.status
      /\ g.grade = grade /\ g.rows = t.rows /\ TicketShape(g)
  BY DEF TicketIsSound, TicketShape
<1> HIDE DEF g
<1>2. StandsAsLast(g)
  <2>1. StandsAsLast(t) BY DEF TicketIsSound
  <2>2. HistoryStands(t.rows, t.risk)
        /\ t.status = IF StandingIn(t.rows) = {} THEN "open" ELSE t.rows[Len(t.rows)].outcome
    BY <2>1, StandsIsHistory
  <2> QED BY <1>1, <2>2, StandsIsHistory
<1>3. TicketIsSound(g, now) BY <1>1, <1>2 DEF TicketIsSound
<1> QED BY <1>1, <1>3 DEF g

LEMMA ResettledIsSound ==
  ASSUME NEW now, NEW t, TicketIsSound(t, now),
         NEW outcome \in Ended \cup {"none"}, NEW profit \in Int,
         NEW by \in {"system", "commissioner"}, NEW seen \in SUBSET Game
  PROVE  TicketIsSound(Resettle(t, outcome, profit, by, seen), now)
<1> DEFINE s == Resettle(t, outcome, profit, by, seen)
<1>1. t.risk \in Int BY StandingsAssumption DEF TicketIsSound
<1>2. /\ TicketShape(s) /\ s.owner = t.owner /\ s.legs = t.legs /\ s.risk = t.risk
      /\ s.grade = t.grade /\ RowsAreLinked(s.rows) /\ StandsAsLast(s)
  BY <1>1, ResettleKeeps DEF TicketIsSound
<1> HIDE DEF s
<1>3. TicketIsSound(s, now) BY <1>2 DEF TicketIsSound
<1> QED BY <1>3 DEF s

LEMMA GradeTypes == \A l, result : GradeOf(l, result) \in ShownGrades \ {"none"}
BY DEF GradeOf, ShownGrades

LEMMA OutcomeTypes == \A grades : OutcomeOf(grades) \in Ended \cup {"none"}
BY DEF OutcomeOf, Ended

\* What a win pays is a number.
LEMMA ProfitIsInt ==
  ASSUME NEW legs, LegsArePlaced(legs), NEW won \in SUBSET legs
  PROVE  Yield * Cardinality(won) \in Int
<1>1. Cardinality(won) \in Nat BY FS_Subset, FS_CardinalityType DEF LegsArePlaced
<1> DEFINE c == Cardinality(won)
<1>2. c \in Nat BY <1>1
<1> HIDE DEF c
<1>3. Yield * c \in Int BY <1>2, StandingsAssumption
<1> QED BY <1>3 DEF c

LEMMA ObserveKeeps ==
  ASSUME NEW now, NEW t, TicketIsSound(t, now),
         NEW result, DOMAIN result \in SUBSET Game, \A g \in DOMAIN result : Kickoff[g] <= now
  PROVE  TicketIsSound(Observe(t, result), now)
<1> DEFINE seen    == [l \in t.legs |-> IF l.game \in DOMAIN result THEN GradeOf(l, result[l.game]) ELSE "none"]
           grade   == [l \in t.legs |-> IF seen[l] = "none" THEN t.grade[l] ELSE seen[l]]
           graded  == [t EXCEPT !.grade = grade]
           outcome == OutcomeOf({seen[l] : l \in t.legs})
           prior   == {t.rows[k] : k \in Standing(t)}
           won     == {l \in t.legs : seen[l] = "win"}
           profit  == Yield * Cardinality(won)
           paid    == IF outcome = "won" THEN profit ELSE 0
           settled == Resettle(graded, outcome, paid, "system", DOMAIN result)
           opened  == Resettle(graded, "none", 0, "system", DOMAIN result)
<1>1. Observe(t, result) \in {t, settled, opened, graded}
  <2>1. graded = [t EXCEPT !.grade = [l \in t.legs |-> IF seen[l] = "none" THEN @[l] ELSE seen[l]]]
    OBVIOUS
  <2>2. Observe(t, result) =
          IF \E r \in prior : r.by # "system" /\ "none" \in {seen[l] : l \in t.legs} THEN t
          ELSE IF outcome # "none" THEN settled
          ELSE IF \E r \in prior : r.outcome = "lost" /\ r.by = "system" /\ r.seen # GameSet(t.legs)
          THEN opened ELSE graded
    BY <2>1 DEF Observe
  <2> HIDE DEF settled, opened, graded, outcome, prior, seen
  <2> QED BY <2>2
<1>2. \A l \in t.legs : /\ seen[l] \in ShownGrades
                        /\ seen[l] # "none" => l.game \in DOMAIN result
  BY GradeTypes DEF ShownGrades
<1> HIDE DEF seen
<1>3. GradesAreOfStarted(grade, t.legs, now)
  BY <1>2 DEF TicketIsSound, GradesAreOfStarted
<1>4. outcome \in Ended \cup {"none"} BY OutcomeTypes
<1>5. paid \in Int
  <2>1. profit \in Int
    <3> HIDE DEF won
    <3>1. won \in SUBSET t.legs BY DEF won
    <3> QED BY <3>1, ProfitIsInt DEF TicketIsSound
  <2> HIDE DEF profit
  <2> QED BY <2>1
<1> HIDE DEF grade, outcome, paid
<1>6. TicketIsSound(graded, now) BY <1>3, GradedIsSound
<1> HIDE DEF graded
<1>7. "system" \in {"system", "commissioner"} /\ "none" \in Ended \cup {"none"} /\ 0 \in Int OBVIOUS
<1>8. TicketIsSound(settled, now)
  <2> DEFINE by == "system"
             games == DOMAIN result
  <2>1. by \in {"system", "commissioner"} /\ games \in SUBSET Game OBVIOUS
  <2> HIDE DEF by, games
  <2>2. TicketIsSound(Resettle(graded, outcome, paid, by, games), now)
    BY <1>4, <1>5, <1>6, <2>1, ResettledIsSound
  <2> QED BY <2>2 DEF by, games
<1>9. TicketIsSound(opened, now)
  <2> DEFINE by == "system"
             games == DOMAIN result
             none == "none"
             zero == 0
  <2>1. by \in {"system", "commissioner"} /\ games \in SUBSET Game /\ none \in Ended \cup {"none"}
        /\ zero \in Int
    OBVIOUS
  <2> HIDE DEF by, games, none, zero
  <2>2. TicketIsSound(Resettle(graded, none, zero, by, games), now) BY <1>6, <2>1, ResettledIsSound
  <2> QED BY <2>2 DEF by, games, none, zero
<1> HIDE DEF settled, opened
<1> QED BY <1>1, <1>6, <1>8, <1>9

\* A ticket stays sound as time passes.
LEMMA SoundLater ==
  ASSUME NEW now \in Nat, NEW later \in Nat, now <= later, NEW t, TicketIsSound(t, now)
  PROVE  TicketIsSound(t, later)
<1>1. \A l \in t.legs : Kickoff[l.game] \in Nat
  BY ViewsAssumption DEF TicketIsSound, LegsArePlaced, AllLegs
<1>2. GradesAreOfStarted(t.grade, t.legs, later) BY <1>1 DEF TicketIsSound, GradesAreOfStarted
<1> QED BY <1>2 DEF TicketIsSound

LEMMA LegsHaveGames ==
  ASSUME NEW legs, LegsArePlaced(legs)
  PROVE  /\ \A l \in legs : l.game \in Game /\ Kickoff[l.game] \in Nat
         /\ GameSet(legs) \in SUBSET Game
<1>1. \A l \in legs : l.game \in Game BY ViewsAssumption DEF LegsArePlaced, AllLegs
<1> QED BY <1>1, ViewsAssumption DEF GameSet

\* A ticket there is is not blank, and one whose status says none is.
LEMMA NoTicketWithoutStatus == \A t, now : TicketIsSound(t, now) => t.status # "none"
<1> SUFFICES ASSUME NEW t, NEW now, TicketIsSound(t, now) PROVE t.status # "none" OBVIOUS
<1>1. /\ HistoryStands(t.rows, t.risk)
      /\ t.status = IF StandingIn(t.rows) = {} THEN "open" ELSE t.rows[Len(t.rows)].outcome
  BY StandsIsHistory DEF TicketIsSound
<1>2. CASE StandingIn(t.rows) = {} BY <1>1, <1>2
<1>3. CASE StandingIn(t.rows) # {}
  <2>1. RowsAreLinked(t.rows) BY DEF TicketIsSound
  <2>2. t.rows[Len(t.rows)].outcome \in Ended BY <1>1, <1>3, <2>1, LastStands
  <2> QED BY <1>1, <1>3, <2>2 DEF Ended
<1> QED BY <1>2, <1>3

LEMMA ListedIsSound ==
  ASSUME ViewsInv, NEW x \in Listed
  PROVE  x \in Bet /\ TicketIsSound(ticket[x], clock)
BY DEF ViewsInv, Listed, Blank

LEMMA RewriteKeeps ==
  ASSUME ViewsInv, NEW x \in Bet, NEW t, TicketIsSound(t, clock), Rewrite(x, t)
  PROVE  ViewsInv'
<1>1. clock' = clock /\ ticket' = [ticket EXCEPT ![x] = t] BY DEF Rewrite
<1>2. \A y \in Bet : ticket'[y] = IF y = x THEN t ELSE ticket[y] BY <1>1 DEF ViewsInv
<1>3. ticket' = [y \in Bet |-> ticket'[y]] BY <1>1 DEF ViewsInv
<1> QED BY <1>1, <1>2, <1>3 DEF ViewsInv

LEMMA ResultsKeep ==
  ASSUME ViewsInv, NEW x \in Bet, ResultsArrive(x)
  PROVE  ViewsInv'
<1> DEFINE now == {g \in GameSet(ticket[x].legs) : Kickoff[g] <= clock}
<1>1. PICK games \in (SUBSET now) \ {{}} :
        \E result \in [games -> Ending] : Rewrite(x, Observe(ticket[x], result))
  BY DEF ResultsArrive
<1>2. PICK result \in [games -> Ending] : Rewrite(x, Observe(ticket[x], result)) BY <1>1
<1>3. ticket[x] # Blank
  <2> SUFFICES ASSUME ticket[x] = Blank PROVE FALSE OBVIOUS
  <2>1. GameSet({}) = {} BY DEF GameSet
  <2>2. ticket[x].legs = {} BY DEF Blank
  <2>3. now = {} BY <2>1, <2>2
  <2> QED BY <1>1, <2>3
<1>4. TicketIsSound(ticket[x], clock) BY <1>3 DEF ViewsInv
<1>5. GameSet(ticket[x].legs) \in SUBSET Game BY <1>4, LegsHaveGames DEF TicketIsSound
<1>6. DOMAIN result \in SUBSET Game /\ \A g \in DOMAIN result : Kickoff[g] <= clock
  BY <1>1, <1>5
<1> DEFINE t == Observe(ticket[x], result)
<1>7. TicketIsSound(t, clock) BY <1>4, <1>6, ObserveKeeps
<1>8. Rewrite(x, t) BY <1>2
<1> HIDE DEF t
<1> QED BY <1>7, <1>8, RewriteKeeps

LEMMA VoidKeeps ==
  ASSUME ViewsInv, NEW x \in Bet, VoidTicket(x)
  PROVE  ViewsInv'
<1> DEFINE outcome == "refunded"
           zero == 0
           by == "commissioner"
           games == {}
           t == Resettle(ticket[x], outcome, zero, by, games)
<1>1. outcome \in Ended \cup {"none"} /\ zero \in Int /\ by \in {"system", "commissioner"}
      /\ games \in SUBSET Game
  BY DEF Ended
<1>2. Rewrite(x, t) /\ TicketIsSound(ticket[x], clock) BY DEF VoidTicket, ViewsInv, Blank
<1> HIDE DEF outcome, zero, by, games
<1>3. TicketIsSound(t, clock) BY <1>1, <1>2, ResettledIsSound
<1> HIDE DEF t
<1> QED BY <1>2, <1>3, RewriteKeeps

\* What the server takes of a regrading is of games that have started.
LEMMA RegradeKeeps ==
  ASSUME ViewsInv, NEW h, NEW x \in Bet, RegradeTicket(h, x)
  PROVE  ViewsInv'
<1> DEFINE given == correctionEvents(Shown(Activity, h)[x], clock)
           grade(result)   == [l \in ticket[x].legs |-> GradeOf(l, result[l.game])]
           outcome(result) == OutcomeOf({grade(result)[l] : l \in ticket[x].legs})
           won(result)     == {l \in ticket[x].legs : grade(result)[l] = "win"}
           profit(result)  == Yield * Cardinality(won(result))
           paid(result)    == IF outcome(result) = "won" THEN profit(result) ELSE 0
           graded(result)  == [ticket[x] EXCEPT !.grade = grade(result)]
           by == "commissioner"
           games == {}
           t(result) == Resettle(graded(result), outcome(result), paid(result), by, games)
<1>1. x \in Listed /\ Corrects(ticket[x], given, clock)
      /\ \E result \in [GameSet(given) -> Ending] : Rewrite(x, t(result))
  BY DEF RegradeTicket
<1> HIDE DEF given
<1>2. PICK result : Rewrite(x, t(result)) BY <1>1
<1>3. TicketIsSound(ticket[x], clock) BY <1>1, ListedIsSound
<1>4. \A l \in ticket[x].legs : Kickoff[l.game] <= clock BY <1>1 DEF Corrects
<1> DEFINE grades == grade(result)
<1>5. \A l \in ticket[x].legs : grades[l] \in ShownGrades BY GradeTypes
<1>6. GradesAreOfStarted(grades, ticket[x].legs, clock)
  BY <1>4, <1>5 DEF GradesAreOfStarted
<1> DEFINE wins == won(result)
           ends == outcome(result)
           pays == paid(result)
           tick == graded(result)
           done == t(result)
<1>7. ends \in Ended \cup {"none"} BY OutcomeTypes
<1>8. pays \in Int
  <2>1. wins \in SUBSET ticket[x].legs OBVIOUS
  <2>2. pays = IF ends = "won" THEN Yield * Cardinality(wins) ELSE 0 OBVIOUS
  <2> HIDE DEF wins, ends, pays
  <2>3. Yield * Cardinality(wins) \in Int BY <1>3, <2>1, ProfitIsInt DEF TicketIsSound
  <2> QED BY <2>2, <2>3
<1>9. tick = [ticket[x] EXCEPT !.grade = grades] OBVIOUS
<1>10. by \in {"system", "commissioner"} /\ games \in SUBSET Game OBVIOUS
<1>11. done = Resettle(tick, ends, pays, by, games) /\ Rewrite(x, done) BY <1>2
<1> HIDE DEF grade, wins, ends, pays, tick, done, by, games
<1>12. TicketIsSound(tick, clock) BY <1>3, <1>6, <1>9, GradedIsSound
<1>13. TicketIsSound(done, clock) BY <1>7, <1>8, <1>10, <1>11, <1>12, ResettledIsSound
<1> QED BY <1>11, <1>13, RewriteKeeps

LEMMA PlaceKeeps ==
  ASSUME ViewsInv, NEW x \in Bet, NEW h \in Holder, NEW legs \in Slip[x], PlaceTicket(h, x, legs)
  PROVE  ViewsInv'
<1> DEFINE t == [owner |-> h, legs |-> legs, risk |-> Stake, status |-> "open",
                 grade |-> [l \in legs |-> "none"], rows |-> <<>>]
<1>1. clock' = clock /\ ticket' = [ticket EXCEPT ![x] = t] BY DEF PlaceTicket
<1>2. TicketIsSound(t, clock)
  <2>1. LegsArePlaced(legs) BY ViewsAssumption DEF LegsArePlaced, AllLegs
  <2>2. GradesAreOfStarted(t.grade, t.legs, clock) BY DEF GradesAreOfStarted, ShownGrades
  <2>3. t.rows = <<>> /\ t.status = "open" /\ TicketShape(t) /\ t.owner = h /\ t.legs = legs /\ t.risk = Stake
    BY DEF TicketShape
  <2> HIDE DEF t
  <2>4. RowsAreLinked(t.rows) BY <2>3 DEF RowsAreLinked
  <2>5. StandingIn(t.rows) = {} /\ MovedBy(t.rows, t.risk) = 0
    <3>1. Len(t.rows) = 0 BY <2>3
    <3> DEFINE f == [k \in 1..Len(t.rows) |-> RowMoves(t.rows, t.risk, k)]
    <3>2. MovedBy(t.rows, t.risk) = Total(f, 0) BY <3>1 DEF MovedBy
    <3> HIDE DEF f
    <3>3. Total(f, 0) = 0
      <4>1. RunningTotals(f, 0)[0] = 0 BY RunningTotalsStep
      <4> QED BY <4>1 DEF Total
    <3> QED BY <3>1, <3>2, <3>3 DEF StandingIn
  <2>6. StandsAsLast(t) BY <2>3, <2>5, StandsIsHistory DEF HistoryStands
  <2> QED BY <2>1, <2>2, <2>3, <2>4, <2>6 DEF TicketIsSound
<1> HIDE DEF t
<1>3. \A y \in Bet : ticket'[y] = IF y = x THEN t ELSE ticket[y] BY <1>1 DEF ViewsInv
<1>4. ticket' = [y \in Bet |-> ticket'[y]] BY <1>1 DEF ViewsInv
<1> QED BY <1>1, <1>2, <1>3, <1>4 DEF ViewsInv

LEMMA KickoffKeeps ==
  ASSUME ViewsInv, KickoffComes
  PROVE  ViewsInv'
<1> DEFINE T == {Kickoff[g] : g \in Game} \ 0..clock
<1>1. clock \in Nat /\ ticket' = ticket /\ clock' = Min(T) BY DEF KickoffComes, ViewsInv
<1>2. T \subseteq Nat /\ \A y \in T : y > clock BY <1>1, ViewsAssumption
<1>3. T # {}
  <2>1. PICK g \in Game : Kickoff[g] > clock BY DEF KickoffComes
  <2>2. Kickoff[g] \in T BY <1>1, <2>1, ViewsAssumption
  <2> QED BY <2>2
<1> HIDE DEF T
<1>4. \E y \in T : \A z \in T : y <= z BY <1>2, <1>3, LeastNatural
<1>5. Min(T) \in T BY <1>4 DEF Min
<1>6. clock' \in Nat /\ clock <= clock'
  <2>1. \A y \in T : y \in Nat /\ clock <= y BY <1>1, <1>2
  <2> QED BY <1>1, <1>5, <2>1
<1>7. \A x \in Bet : TicketIsSound(ticket[x], clock) => TicketIsSound(ticket[x], clock')
  BY <1>1, <1>6, SoundLater
<1> QED BY <1>1, <1>6, <1>7 DEF ViewsInv

LEMMA ViewsInvHolds == ViewsSpec => []ViewsInv
<1>1. ViewsInit => ViewsInv BY DEF ViewsInit, ViewsInv
<1>2. ViewsInv /\ [ViewsNext]_viewVars => ViewsInv'
  <2> SUFFICES ASSUME ViewsInv, [ViewsNext]_viewVars PROVE ViewsInv' OBVIOUS
  <2>1. CASE KickoffComes BY <2>1, KickoffKeeps
  <2>2. CASE \E x \in Bet, h \in Holder : \E legs \in Slip[x] : PlaceTicket(h, x, legs)
    BY <2>2, PlaceKeeps
  <2>3. CASE \E x \in Bet : ResultsArrive(x) BY <2>3, ResultsKeep
  <2>4. CASE \E x \in Bet : VoidTicket(x) BY <2>4, VoidKeeps
  <2>5. CASE \E x \in Bet, h \in Holder : RegradeTicket(h, x) BY <2>5, RegradeKeeps
  <2>6. CASE UNCHANGED viewVars
    <3>1. clock' = clock /\ ticket' = ticket BY <2>6 DEF viewVars
    <3> QED BY <3>1 DEF ViewsInv
  <2> QED BY <2>1, <2>2, <2>3, <2>4, <2>5, <2>6 DEF ViewsNext
<1> QED BY <1>1, <1>2, PTL DEF ViewsSpec

(* What is shown of a ticket *)

\* What stands of a sound ticket is its last row, of which its status and what it moved tell.
LEMMA FirstIsLast ==
  ASSUME NEW now, NEW t, TicketIsSound(t, now)
  PROVE  \/ /\ firstSettlement(t) = {} /\ Standing(t) = {}
            /\ t.status = "open" /\ FloatMoved(t) = 0
         \/ \E r \in Settlements :
              /\ firstSettlement(t) = {r} /\ r.outcome \in Ended /\ t.rows # <<>>
              /\ t.status = r.outcome /\ FloatMoved(t) = FloatOf(r, t.risk)
<1> DEFINE rows == t.rows
           last == rows[Len(rows)]
<1>1. /\ HistoryStands(rows, t.risk) /\ RowsAreLinked(rows) /\ Standing(t) = StandingIn(rows)
      /\ t.status = IF StandingIn(rows) = {} THEN "open" ELSE last.outcome
  BY StandsIsHistory, HistoryTells DEF TicketIsSound
<1>2. FloatMoved(t) = IF Standing(t) = {} THEN 0 ELSE FloatOf(last, t.risk)
  BY DEF TicketIsSound, StandsAsLast
<1>3. CASE Standing(t) = {} BY <1>1, <1>2, <1>3 DEF firstSettlement
<1>4. CASE Standing(t) # {}
  <2> HIDE DEF rows
  <2>1. /\ Max(StandingIn(rows)) = Len(rows) /\ Len(rows) \in 1..Len(rows) /\ last \in Settlements
        /\ last.outcome \in Ended
    BY <1>1, <1>4, LastStands
  <2>2. firstSettlement(t) = {last} BY <1>1, <1>4, <2>1 DEF firstSettlement, rows
  <2>3. rows # <<>> BY <2>1
  <2> QED BY <1>1, <1>2, <1>4, <2>1, <2>2, <2>3 DEF rows
<1> QED BY <1>3, <1>4

LEMMA PerformanceOfOne ==
  ASSUME NEW now, NEW t, TicketIsSound(t, now)
  PROVE  /\ performanceOf(t) = FloatMoved(t) /\ performanceOf(t) \in Int
         /\ {s.outcome : s \in firstSettlement(t)} = {t.status} \ {"open"}
         /\ t.status \in Ended \cup {"open"}
<1>a. t.risk \in Int BY StandingsAssumption DEF TicketIsSound
<1>1. CASE firstSettlement(t) = {} /\ t.status = "open" /\ FloatMoved(t) = 0
  <2>1. performanceOf(t) = 0 BY <1>1 DEF performanceOf
  <2>2. {s.outcome : s \in firstSettlement(t)} = {} BY <1>1
  <2> QED BY <1>1, <2>1, <2>2
<1>2. CASE \E r \in Settlements :
              /\ firstSettlement(t) = {r} /\ r.outcome \in Ended
              /\ t.status = r.outcome /\ FloatMoved(t) = FloatOf(r, t.risk)
  <2>1. PICK r \in Settlements :
              /\ firstSettlement(t) = {r} /\ r.outcome \in Ended
              /\ t.status = r.outcome /\ FloatMoved(t) = FloatOf(r, t.risk)
    BY <1>2
  <2>2. {s.outcome : s \in firstSettlement(t)} = {r.outcome} BY <2>1
  <2>3. performanceOf(t) = FloatOf(r, t.risk)
    <3>1. (CHOOSE s \in firstSettlement(t) : TRUE) = r BY <2>1
    <3>2. \A o : (\E s \in firstSettlement(t) : s.outcome = o) <=> r.outcome = o BY <2>1
    <3> QED BY <2>1, <3>1, <3>2 DEF performanceOf, FloatOf, Ended
  <2>4. FloatOf(r, t.risk) \in Int BY <1>a, FloatType
  <2> QED BY <2>1, <2>2, <2>3, <2>4 DEF Ended
<1> QED BY <1>1, <1>2, FirstIsLast

LEMMA PerformanceIsLedgers == ViewsInv => PerformanceIsTheLedgers
<1> SUFFICES ASSUME ViewsInv, NEW x \in Listed
             PROVE  /\ performanceOf(ticket[x]) = FloatMoved(ticket[x])
                    /\ {s.outcome : s \in firstSettlement(ticket[x])} = {ticket[x].status} \ {"open"}
  BY DEF PerformanceIsTheLedgers
<1>1. TicketIsSound(ticket[x], clock) BY ListedIsSound
<1> QED BY <1>1, PerformanceOfOne

\* One representative of each game: there are as many as games.
LEMMA OneOfEachGame ==
  ASSUME NEW legs, IsFiniteSet(legs)
  PROVE  LET given == {CHOOSE l \in legs : l.game = g : g \in GameSet(legs)}
         IN  /\ GameSet(given) = GameSet(legs)
             /\ Cardinality(GameSet(given)) = Cardinality(given)
             /\ legs # {} => given # {}
<1> DEFINE G == GameSet(legs)
           given == {CHOOSE l \in legs : l.game = g : g \in G}
           rep == [g \in G |-> CHOOSE l \in legs : l.game = g]
           of == [l \in legs |-> l.game]
<1>1. ASSUME NEW g \in G PROVE rep[g] \in legs /\ rep[g].game = g /\ rep[g] \in given
  <2>1. \E l \in legs : l.game = g BY DEF GameSet
  <2> QED BY <2>1
<1>2. given = {rep[g] : g \in G} OBVIOUS
<1>3. IsFiniteSet(G)
  <2>1. of \in Surjection(legs, G) BY DEF Surjection, GameSet
  <2> HIDE DEF of, G
  <2> QED BY <2>1, FS_Surjection
<1>4. rep = [g \in G |-> rep[g]] OBVIOUS
<1> HIDE DEF rep, given
<1>5. GameSet(given) = G BY <1>1, <1>2 DEF GameSet
<1>6. rep \in Bijection(G, given)
  <2>1. rep \in [G -> given] BY <1>1, <1>4
  <2>2. \A t \in given : \E g \in G : rep[g] = t BY <1>2
  <2>3. \A a, b \in G : rep[a] = rep[b] => a = b BY <1>1
  <2> HIDE DEF G
  <2> QED BY <2>1, <2>2, <2>3 DEF Bijection, Injection, Surjection, IsInjective
<1>7. Cardinality(given) = Cardinality(G)
  <2>1. ExistsBijection(G, given) BY <1>6 DEF ExistsBijection
  <2> HIDE DEF G
  <2> QED BY <1>3, <2>1, FS_Bijection
<1>8. legs # {} => given # {} BY <1>1, <1>2 DEF GameSet
<1> QED BY <1>5, <1>7, <1>8 DEF given

\* The legs shown to one who is not the owner, or to the owner who exports, are those
\* of started games.
StartedLegs(legs, now) == {l \in legs : Kickoff[l.game] <= now}

LEMMA ShownLegs ==
  \A policy, v, t, now :
    /\ revealed(policy, v, t, now)
         = IF t.owner = v /\ policy.owners THEN t.legs ELSE StartedLegs(t.legs, now)
    /\ DOMAIN shapeWagersWithPolicy(policy, v, t, now).legs = revealed(policy, v, t, now)
BY DEF revealed, StartedLegs, shapeWagersWithPolicy

\* Something is hidden of a ticket exactly when a game of it has not started.
LEMMA HiddenIsUnstarted ==
  ASSUME NEW now \in Nat, NEW legs, LegsArePlaced(legs)
  PROVE  Cardinality(legs \ StartedLegs(legs, now)) > 0 <=> \E l \in legs : Kickoff[l.game] > now
<1> DEFINE rest == legs \ StartedLegs(legs, now)
<1>1. IsFiniteSet(rest) BY FS_Subset DEF LegsArePlaced
<1>2. rest # {} <=> \E l \in legs : Kickoff[l.game] > now BY LegsHaveGames DEF StartedLegs
<1> HIDE DEF rest
<1>3. Cardinality(rest) \in Nat BY <1>1, FS_CardinalityType
<1>4. Cardinality(rest) > 0 <=> rest # {} BY <1>1, <1>3, FS_EmptySet
<1> QED BY <1>2, <1>4 DEF rest

LEMMA OfferIsAccepted == ViewsInv => OfferedIsAccepted
<1> SUFFICES ASSUME ViewsInv, NEW v \in Holder, NEW x \in Listed
             PROVE  LET given == correctionEvents(Shown(Activity, v)[x], clock)
                    IN  /\ given # {} <=> \A l \in ticket[x].legs : Kickoff[l.game] <= clock
                        /\ given # {} => Corrects(ticket[x], given, clock)
  BY DEF OfferedIsAccepted
<1> DEFINE t == ticket[x]
           shown == shapeWagersWithPolicy(Activity, v, t, clock)
           given == correctionEvents(shown, clock)
<1>1. Shown(Activity, v)[x] = shown BY DEF Shown
<1>2. clock \in Nat /\ LegsArePlaced(t.legs) BY ListedIsSound DEF TicketIsSound, ViewsInv
<1>3. \A l \in t.legs : Kickoff[l.game] \in Nat BY <1>2, LegsHaveGames
<1>4. DOMAIN shown.legs = IF t.owner = v THEN t.legs ELSE StartedLegs(t.legs, clock)
  BY ShownLegs DEF Activity
<1>5. shown.hidden = IF t.owner # v THEN Cardinality(t.legs \ StartedLegs(t.legs, clock)) ELSE 0
  BY ShownLegs DEF shapeWagersWithPolicy, Activity
<1> HIDE DEF shown, t
<1>6. (shown.hidden > 0 \/ \E l \in DOMAIN shown.legs : Kickoff[l.game] > clock)
        <=> \E l \in t.legs : Kickoff[l.game] > clock
  <2>1. CASE t.owner = v BY <1>4, <1>5, <2>1
  <2>2. CASE t.owner # v
    <3>1. ~ \E l \in DOMAIN shown.legs : Kickoff[l.game] > clock BY <1>2, <1>3, <1>4, <2>2 DEF StartedLegs
    <3>2. shown.hidden > 0 <=> \E l \in t.legs : Kickoff[l.game] > clock
      BY <1>2, <1>5, <2>2, HiddenIsUnstarted
    <3> QED BY <3>1, <3>2
  <2> QED BY <2>1, <2>2
<1>7. CASE \E l \in t.legs : Kickoff[l.game] > clock
  <2>1. given = {} BY <1>6, <1>7 DEF correctionEvents
  <2>2. ~ \A l \in t.legs : Kickoff[l.game] <= clock BY <1>2, <1>3, <1>7
  <2> HIDE DEF given
  <2>3. /\ given # {} <=> \A l \in t.legs : Kickoff[l.game] <= clock
        /\ given # {} => Corrects(t, given, clock)
    BY <2>1, <2>2
  <2> QED BY <1>1, <2>3 DEF given, t
<1>8. CASE ~ \E l \in t.legs : Kickoff[l.game] > clock
  <2>1. \A l \in t.legs : Kickoff[l.game] <= clock BY <1>2, <1>3, <1>8
  <2>2. DOMAIN shown.legs = t.legs BY <1>4, <2>1 DEF StartedLegs
  <2> DEFINE legs == t.legs
  <2>3. given = {CHOOSE l \in legs : l.game = g : g \in GameSet(legs)}
    BY <1>6, <1>8, <2>2 DEF correctionEvents
  <2>4. IsFiniteSet(legs) /\ legs # {} BY <1>2 DEF LegsArePlaced
  <2> HIDE DEF legs, given
  <2>5. /\ GameSet(given) = GameSet(legs) /\ Cardinality(GameSet(given)) = Cardinality(given)
        /\ given # {}
    BY <2>3, <2>4, OneOfEachGame
  <2>6. Corrects(t, given, clock) BY <2>1, <2>5 DEF Corrects, legs
  <2> QED BY <1>1, <2>1, <2>5, <2>6 DEF given, t
<1> QED BY <1>7, <1>8

(* What is not shown of a ticket *)

\* Two tickets that have started alike: same owner, week, number of legs and rows, same
\* legs of started games with the same grades, and the same risk unless no leg has
\* started and nothing is settled.
StartedAlike(t, u, now) ==
  /\ u.owner = t.owner /\ u.status = t.status /\ u.rows = t.rows
  /\ IsFiniteSet(t.legs) /\ IsFiniteSet(u.legs) /\ Cardinality(u.legs) = Cardinality(t.legs)
  /\ StartedLegs(u.legs, now) = StartedLegs(t.legs, now)
  /\ \A l \in StartedLegs(t.legs, now) : u.grade[l] = t.grade[l]
  /\ weekStartOf(Min({Kickoff[g] : g \in GameSet(u.legs)}))
       = weekStartOf(Min({Kickoff[g] : g \in GameSet(t.legs)}))
  /\ u.risk = t.risk \/ (t.rows = <<>> /\ StartedLegs(t.legs, now) = {})

LEMMA AlikeStartsAlike ==
  ASSUME NEW now \in Nat, NEW t, TicketIsSound(t, now), NEW u \in Alike(t, now)
  PROVE  StartedAlike(t, u, now)
<1>1. PICK legs \in OtherLegs(t, now), risk \in OtherRisks(t, now) : u = With(t, legs, risk)
  BY DEF Alike
<1>a. /\ legs \in UNION {Slip[x] : x \in Bet}
      /\ {l \in legs : Kickoff[l.game] <= now} = {l \in t.legs : Kickoff[l.game] <= now}
      /\ Cardinality(legs) = Cardinality(t.legs)
      /\ weekStartOf(Min({Kickoff[g] : g \in GameSet(legs)}))
           = weekStartOf(Min({Kickoff[g] : g \in GameSet(t.legs)}))
  BY DEF OtherLegs
<1> DEFINE grade == [l \in legs |-> IF l \in t.legs THEN t.grade[l] ELSE "none"]
<1>2. /\ u.owner = t.owner /\ u.status = t.status /\ u.rows = t.rows /\ u.legs = legs
      /\ u.risk = risk /\ u.grade = grade
  <2>1. TicketShape(t) BY DEF TicketIsSound
  <2>2. u = [t EXCEPT !.legs = legs, !.risk = risk, !.grade = grade] BY <1>1 DEF With
  <2> HIDE DEF grade
  <2> QED BY <2>1, <2>2 DEF TicketShape
<1>3. IsFiniteSet(t.legs) BY DEF TicketIsSound, LegsArePlaced
<1>4. IsFiniteSet(legs) BY <1>a, ViewsAssumption
<1>5. StartedLegs(legs, now) = StartedLegs(t.legs, now) BY <1>a DEF StartedLegs
<1>6. \A l \in StartedLegs(t.legs, now) : grade[l] = t.grade[l]
  <2>1. \A l \in StartedLegs(t.legs, now) : l \in legs /\ l \in t.legs BY <1>5 DEF StartedLegs
  <2> QED BY <2>1
<1>7. u.risk = t.risk \/ (t.rows = <<>> /\ StartedLegs(t.legs, now) = {})
  <2>1. CASE t.rows = <<>> /\ \A l \in t.legs : Kickoff[l.game] > now
    <3>1. \A l \in t.legs : Kickoff[l.game] \in Nat BY LegsHaveGames DEF TicketIsSound
    <3>2. StartedLegs(t.legs, now) = {} BY <2>1, <3>1 DEF StartedLegs
    <3> QED BY <2>1, <3>2
  <2>2. CASE ~ (t.rows = <<>> /\ \A l \in t.legs : Kickoff[l.game] > now)
    <3>1. risk = t.risk BY <1>1, <2>2 DEF OtherRisks
    <3> QED BY <1>2, <3>1
  <2> QED BY <2>1, <2>2
<1> HIDE DEF grade
<1> QED BY <1>a, <1>2, <1>3, <1>4, <1>5, <1>6, <1>7 DEF StartedAlike

\* As many legs of them are hidden.
LEMMA HiddenAlike ==
  ASSUME NEW now, NEW t, NEW u, StartedAlike(t, u, now)
  PROVE  Cardinality(u.legs \ StartedLegs(u.legs, now)) = Cardinality(t.legs \ StartedLegs(t.legs, now))
<1> DEFINE a == u.legs
           b == t.legs
           s == StartedLegs(t.legs, now)
<1>1. /\ IsFiniteSet(a) /\ IsFiniteSet(b) /\ Cardinality(a) = Cardinality(b)
      /\ StartedLegs(u.legs, now) = s
  BY DEF StartedAlike
<1>2. s \subseteq a /\ s \subseteq b BY <1>1 DEF StartedLegs
<1> HIDE DEF a, b, s
<1>3. Cardinality(a \ s) = Cardinality(a) - Cardinality(a \cap s) BY <1>1, FS_Difference
<1>4. Cardinality(b \ s) = Cardinality(b) - Cardinality(b \cap s) BY <1>1, FS_Difference
<1>5. a \cap s = s /\ b \cap s = s BY <1>2
<1>6. Cardinality(a \ s) = Cardinality(b \ s) BY <1>1, <1>3, <1>4, <1>5
<1> QED BY <1>1, <1>6 DEF a, b, s

LEMMA PerformanceAlike ==
  ASSUME NEW now, NEW t, NEW u, StartedAlike(t, u, now)
  PROVE  /\ Standing(u) = Standing(t) /\ firstSettlement(u) = firstSettlement(t)
         /\ performanceOf(u) = performanceOf(t)
         /\ firstSettlement(t) # {} => t.rows # <<>>
<1>1. u.rows = t.rows /\ (u.risk = t.risk \/ t.rows = <<>>) BY DEF StartedAlike
<1>2. Standing(u) = Standing(t) BY <1>1 DEF Standing
<1>3. firstSettlement(u) = firstSettlement(t) BY <1>1, <1>2 DEF firstSettlement
<1>4. t.rows = <<>> => firstSettlement(t) = {} BY DEF firstSettlement, Standing
<1>5. performanceOf(u) = performanceOf(t)
  <2>1. CASE u.risk = t.risk BY <1>3, <2>1 DEF performanceOf
  <2>2. CASE t.rows = <<>>
    <3>1. firstSettlement(t) = {} /\ firstSettlement(u) = {} BY <1>3, <1>4, <2>2
    <3>2. \A w : firstSettlement(w) = {} => performanceOf(w) = 0 BY DEF performanceOf
    <3> QED BY <3>1, <3>2
  <2> QED BY <1>1, <2>1, <2>2
<1> QED BY <1>2, <1>3, <1>4, <1>5

\* Who may not see unstarted legs cannot tell the two apart.
LEMMA ShownAlike ==
  ASSUME NEW now, NEW t, NEW u, StartedAlike(t, u, now), NEW v, NEW policy,
         ~ (t.owner = v /\ policy.owners),
         t.owner = v => u.risk = t.risk /\ ~ policy.counts
  PROVE  shapeWagersWithPolicy(policy, v, u, now) = shapeWagersWithPolicy(policy, v, t, now)
<1> DEFINE R == StartedLegs(t.legs, now)
           vis == termsAreVisible(policy, v, t, now)
<1>1. revealed(policy, v, t, now) = R /\ revealed(policy, v, u, now) = R
  BY ShownLegs DEF StartedAlike
<1>2. [l \in R |-> u.grade[l]] = [l \in R |-> t.grade[l]] BY DEF StartedAlike
<1>3. /\ firstSettlement(u) = firstSettlement(t) /\ performanceOf(u) = performanceOf(t)
      /\ firstSettlement(t) # {} => t.rows # <<>>
  BY PerformanceAlike
<1>4. u.owner = t.owner /\ u.status = t.status
      /\ (u.risk = t.risk \/ (t.rows = <<>> /\ R = {}))
      /\ weekStartOf(Min({Kickoff[g] : g \in GameSet(u.legs)}))
           = weekStartOf(Min({Kickoff[g] : g \in GameSet(t.legs)}))
  BY DEF StartedAlike
<1>5. Cardinality(u.legs \ R) = Cardinality(t.legs \ R) BY HiddenAlike DEF StartedAlike
<1>6. termsAreVisible(policy, v, u, now) <=> vis BY <1>1, <1>3, <1>4 DEF termsAreVisible
<1>7. (IF vis THEN {u.risk} ELSE {}) = (IF vis THEN {t.risk} ELSE {})
  <2>1. CASE u.risk = t.risk BY <2>1
  <2>2. CASE u.risk # t.risk
    <3>1. t.rows = <<>> /\ R = {} /\ t.owner # v BY <1>4, <2>2
    <3>2. firstSettlement(t) = {} BY <1>3, <3>1
    <3>3. ~ vis BY <1>1, <3>1, <3>2 DEF termsAreVisible
    <3> QED BY <3>3
  <2> QED BY <2>1, <2>2
<1>8. \A w : shapeWagersWithPolicy(policy, v, w, now) =
        [owner       |-> w.owner,
         status      |-> w.status,
         week        |-> weekStartOf(Min({Kickoff[g] : g \in GameSet(w.legs)})),
         performance |-> performanceOf(w),
         legs        |-> [l \in revealed(policy, v, w, now) |-> w.grade[l]],
         hidden      |-> IF policy.counts /\ w.owner # v
                         THEN Cardinality(w.legs \ revealed(policy, v, w, now)) ELSE 0,
         risk        |-> IF termsAreVisible(policy, v, w, now) THEN {w.risk} ELSE {},
         settlement  |-> IF w.owner = v THEN firstSettlement(w) ELSE {}]
  BY DEF shapeWagersWithPolicy
<1> HIDE DEF R, vis
<1>9. (IF termsAreVisible(policy, v, u, now) THEN {u.risk} ELSE {})
        = (IF termsAreVisible(policy, v, t, now) THEN {t.risk} ELSE {})
  BY <1>6, <1>7 DEF vis
<1> QED BY <1>1, <1>2, <1>3, <1>4, <1>5, <1>8, <1>9

LEMMA UnstartedIsHidden == ViewsInv => NothingUnstartedShows
<1> SUFFICES ASSUME ViewsInv, NEW x \in Listed, NEW u \in Alike(ticket[x], clock)
             PROVE  /\ \A v \in Holder \ {ticket[x].owner}, policy \in {Wagers, Activity, Export} :
                         shapeWagersWithPolicy(policy, v, u, clock)
                           = shapeWagersWithPolicy(policy, v, ticket[x], clock)
                    /\ \A v \in Holder : u.risk = ticket[x].risk =>
                         shapeWagersWithPolicy(Export, v, u, clock)
                           = shapeWagersWithPolicy(Export, v, ticket[x], clock)
  BY DEF NothingUnstartedShows
<1>1. TicketIsSound(ticket[x], clock) /\ clock \in Nat BY ListedIsSound DEF ViewsInv
<1>2. StartedAlike(ticket[x], u, clock) BY <1>1, AlikeStartsAlike
<1>3. Export.owners = FALSE /\ Export.counts = FALSE BY DEF Export
<1>4. ASSUME NEW v \in Holder \ {ticket[x].owner}, NEW policy
      PROVE  shapeWagersWithPolicy(policy, v, u, clock)
               = shapeWagersWithPolicy(policy, v, ticket[x], clock)
  BY <1>2, ShownAlike
<1>5. ASSUME NEW v \in Holder, u.risk = ticket[x].risk
      PROVE  shapeWagersWithPolicy(Export, v, u, clock)
               = shapeWagersWithPolicy(Export, v, ticket[x], clock)
  BY <1>2, <1>3, <1>5, ShownAlike
<1> QED BY <1>4, <1>5

(* What everybody is shown *)

\* The week, day and activity of a ticket, from its legs of started games.
WeekOfTicket(t) == weekStartOf(Min({Kickoff[g] : g \in GameSet(t.legs)}))

DayOfTicket(t, now) ==
  LET begun == StartedLegs(t.legs, now)
      lost  == {Kickoff[l.game] : l \in {k \in begun : t.grade[k] = "loss"}}
      times == {Kickoff[l.game] : l \in begun}
  IN  IF lost # {} THEN dayKey(Min(lost)) ELSE IF times # {} THEN dayKey(Max(times)) ELSE Upcoming

ActiveTicket(t, now) ==
  t.status # "lost" /\ \E l \in StartedLegs(t.legs, now) : t.grade[l] = "none"

ShownAs(s, t, now) ==
  /\ s.owner = t.owner /\ s.status = t.status /\ s.week = WeekOfTicket(t)
  /\ s.performance = performanceOf(t)
  /\ StartedIn(s, now) = StartedLegs(t.legs, now) /\ StartedIn(s, now) \subseteq DOMAIN s.legs
  /\ activityWagerDay(s, now) = DayOfTicket(t, now)
  /\ hasActiveActivityGame(s, now) <=> ActiveTicket(t, now)

LEMMA ActivityShows ==
  ASSUME NEW now \in Nat, NEW t, TicketIsSound(t, now), NEW v
  PROVE  ShownAs(shapeWagersWithPolicy(Activity, v, t, now), t, now)
<1> DEFINE s == shapeWagersWithPolicy(Activity, v, t, now)
           R == StartedLegs(t.legs, now)
           D == DOMAIN s.legs
<1>1. /\ s.owner = t.owner /\ s.status = t.status /\ s.week = WeekOfTicket(t)
      /\ s.performance = performanceOf(t)
  BY DEF shapeWagersWithPolicy, WeekOfTicket
<1>2. D = (IF t.owner = v THEN t.legs ELSE R) BY ShownLegs DEF Activity
<1>3. \A l \in D : s.legs[l] = t.grade[l]
  <2> DEFINE Q == revealed(Activity, v, t, now)
  <2>1. s.legs = [l \in Q |-> t.grade[l]] BY DEF shapeWagersWithPolicy
  <2> QED BY <2>1
<1>4. GradesAreOfStarted(t.grade, t.legs, now) BY DEF TicketIsSound
<1> HIDE DEF s
<1>5. R \subseteq D /\ {l \in D : Kickoff[l.game] <= now} = R BY <1>2 DEF StartedLegs
<1>6. StartedIn(s, now) = R BY <1>5 DEF StartedIn
<1>7. {k \in D : s.legs[k] = "loss"} = {k \in R : t.grade[k] = "loss"}
  <2>1. \A k \in D : k \in t.legs BY <1>2 DEF StartedLegs
  <2>2. \A k \in D : t.grade[k] = "loss" => k \in R
    BY <1>4, <2>1 DEF GradesAreOfStarted, StartedLegs
  <2> QED BY <1>3, <1>5, <2>2
<1>8. activityWagerDay(s, now) = DayOfTicket(t, now) BY <1>6, <1>7 DEF activityWagerDay, DayOfTicket
<1>9. hasActiveActivityGame(s, now) <=> ActiveTicket(t, now)
  BY <1>1, <1>3, <1>5, <1>6 DEF hasActiveActivityGame, ActiveTicket
<1>10. ShownAs(s, t, now) BY <1>1, <1>5, <1>6, <1>8, <1>9 DEF ShownAs
<1> QED BY <1>10 DEF s

\* Two lists of the same tickets, as everybody is shown them.
IsBook(a, D, now) == DOMAIN a = D /\ \A x \in D : ShownAs(a[x], ticket[x], now)

LEMMA ShownIsBook ==
  ASSUME ViewsInv, NEW v
  PROVE  IsBook(Shown(Activity, v), Listed, clock)
<1> DEFINE a == Shown(Activity, v)
<1>1. DOMAIN a = Listed BY DEF Shown
<1>2. ASSUME NEW x \in Listed PROVE ShownAs(a[x], ticket[x], clock)
  <2>1. a[x] = shapeWagersWithPolicy(Activity, v, ticket[x], clock) BY DEF Shown
  <2>2. TicketIsSound(ticket[x], clock) /\ clock \in Nat BY ListedIsSound DEF ViewsInv
  <2> HIDE DEF a
  <2> QED BY <2>1, <2>2, ActivityShows
<1> QED BY <1>1, <1>2 DEF IsBook

LEMMA SamePerformance ==
  ASSUME NEW now, NEW D, NEW a, NEW b, IsBook(a, D, now), IsBook(b, D, now), NEW S \in SUBSET D
  PROVE  Performance(a, S) = Performance(b, S)
<1>1. [x \in S |-> a[x].performance] = [x \in S |-> b[x].performance] BY DEF IsBook, ShownAs
<1> QED BY <1>1 DEF Performance

LEMMA SameMembers ==
  ASSUME NEW now, NEW D, NEW a, NEW b, IsBook(a, D, now), IsBook(b, D, now), NEW S \in SUBSET D
  PROVE  groupActivityMembers(a, S) = groupActivityMembers(b, S)
<1> DEFINE own(c, h) == {x \in S : c[x].owner = h}
           H(c) == {c[x].owner : x \in S}
<1>1. \A x \in S : a[x].owner = b[x].owner BY DEF IsBook, ShownAs
<1>2. H(a) = H(b) BY <1>1
<1>3. ASSUME NEW h PROVE own(a, h) = own(b, h) /\ Performance(a, own(a, h)) = Performance(b, own(b, h))
  <2> DEFINE o == own(a, h)
  <2>1. own(b, h) = o BY <1>1
  <2>2. o \in SUBSET D OBVIOUS
  <2> HIDE DEF o
  <2>3. Performance(a, o) = Performance(b, o) BY <2>2, SamePerformance
  <2> QED BY <2>1, <2>3 DEF o
<1>4. \A c : groupActivityMembers(c, S)
        = [h \in H(c) |-> [performance |-> Performance(c, own(c, h)), wagers |-> own(c, h)]]
  BY DEF groupActivityMembers
<1> HIDE DEF own, H
<1> QED BY <1>2, <1>3, <1>4

\* The days of a week, by ticket.
TicketsOfWeek(D, week)         == {x \in D : WeekOfTicket(ticket[x]) = week}
DaysOfWeek(D, week, now)       == {DayOfTicket(ticket[x], now) : x \in TicketsOfWeek(D, week)}
TicketsOfDay(D, week, now, k)  == {x \in TicketsOfWeek(D, week) : DayOfTicket(ticket[x], now) = k}

LEMMA DaysAre ==
  ASSUME NEW now, NEW D, NEW a, IsBook(a, D, now), NEW week
  PROVE  groupActivityDaysForWeek(a, week, now)
           = [k \in DaysOfWeek(D, week, now) |->
               [performance |-> Performance(a, TicketsOfDay(D, week, now, k)),
                members     |-> groupActivityMembers(a, TicketsOfDay(D, week, now, k))]]
<1> DEFINE S      == {x \in DOMAIN a : a[x].week = week}
           day(x) == activityWagerDay(a[x], now)
           rows(k) == {x \in S : day(x) = k}
           K == {day(x) : x \in S}
<1>1. S = TicketsOfWeek(D, week) BY DEF IsBook, ShownAs, TicketsOfWeek
<1>2. \A x \in S : day(x) = DayOfTicket(ticket[x], now) BY DEF IsBook, ShownAs
<1>3. K = DaysOfWeek(D, week, now) BY <1>1, <1>2 DEF DaysOfWeek
<1>4. \A k : rows(k) = TicketsOfDay(D, week, now, k) BY <1>1, <1>2 DEF TicketsOfDay
<1>5. groupActivityDaysForWeek(a, week, now)
        = [k \in K |-> [performance |-> Performance(a, rows(k)), members |-> groupActivityMembers(a, rows(k))]]
  BY DEF groupActivityDaysForWeek
<1> HIDE DEF K, rows
<1> QED BY <1>3, <1>4, <1>5

LEMMA SameDays ==
  ASSUME NEW now, NEW D, NEW a, NEW b, IsBook(a, D, now), IsBook(b, D, now), NEW week
  PROVE  groupActivityDaysForWeek(a, week, now) = groupActivityDaysForWeek(b, week, now)
<1> DEFINE T(k) == TicketsOfDay(D, week, now, k)
<1>1. \A k : T(k) \in SUBSET D BY DEF TicketsOfDay, TicketsOfWeek
<1> HIDE DEF T
<1>2. \A k : /\ Performance(a, T(k)) = Performance(b, T(k))
             /\ groupActivityMembers(a, T(k)) = groupActivityMembers(b, T(k))
  BY <1>1, SamePerformance, SameMembers
<1>3. groupActivityDaysForWeek(a, week, now)
        = [k \in DaysOfWeek(D, week, now) |->
            [performance |-> Performance(a, T(k)), members |-> groupActivityMembers(a, T(k))]]
  BY DaysAre DEF T
<1>4. groupActivityDaysForWeek(b, week, now)
        = [k \in DaysOfWeek(D, week, now) |->
            [performance |-> Performance(b, T(k)), members |-> groupActivityMembers(b, T(k))]]
  BY DaysAre DEF T
<1> QED BY <1>2, <1>3, <1>4

LEMMA SameSplit ==
  ASSUME NEW now, NEW D, NEW a, NEW b, IsBook(a, D, now), IsBook(b, D, now)
  PROVE  splitProfileWeekWagers(a, now) = splitProfileWeekWagers(b, now)
<1>1. \A x \in D : a[x].status = b[x].status /\ StartedIn(a[x], now) = StartedIn(b[x], now)
  BY DEF IsBook, ShownAs
<1>2. DOMAIN a = D /\ DOMAIN b = D BY DEF IsBook
<1> DEFINE open(c) == {x \in DOMAIN c : c[x].status = "open"}
           live(c) == {x \in open(c) : StartedIn(c[x], now) # {}}
<1>3. open(a) = open(b) BY <1>1, <1>2
<1>4. live(a) = live(b)
  <2>1. \A x \in open(a) : StartedIn(a[x], now) = StartedIn(b[x], now) BY <1>1, <1>2
  <2> HIDE DEF open
  <2> QED BY <1>3, <2>1
<1>5. \A c : splitProfileWeekWagers(c, now)
               = [inProcess |-> live(c), settled |-> DOMAIN c \ open(c), unstarted |-> open(c) \ live(c)]
  BY DEF splitProfileWeekWagers
<1> HIDE DEF open, live
<1> QED BY <1>2, <1>3, <1>4, <1>5

\* Once a game has started, everybody sees every leg on it.
LEMMA ExposureIsWhole ==
  ASSUME ViewsInv, NEW v, NEW g \in Game, Kickoff[g] <= clock
  PROVE  PoolExposure(Shown(Activity, v), g)
           = Added([x \in {y \in Listed : g \in GameSet(ticket[y].legs)} |-> FloatMoved(ticket[x])])
<1> DEFINE a == Shown(Activity, v)
           Q == {y \in Listed : g \in GameSet(ticket[y].legs)}
<1>1. DOMAIN a = Listed BY DEF Shown
<1>2. ASSUME NEW x \in Listed PROVE /\ a[x].performance = FloatMoved(ticket[x])
                                    /\ g \in GameSet(DOMAIN a[x].legs) <=> g \in GameSet(ticket[x].legs)
  <2>1. ShownAs(a[x], ticket[x], clock) BY ShownIsBook DEF IsBook
  <2>2. TicketIsSound(ticket[x], clock) BY ListedIsSound
  <2>3. a[x].performance = FloatMoved(ticket[x]) BY <2>1, <2>2, PerformanceOfOne DEF ShownAs
  <2>4. /\ StartedLegs(ticket[x].legs, clock) \subseteq DOMAIN a[x].legs
        /\ DOMAIN a[x].legs \subseteq ticket[x].legs
    <3>1. a[x] = shapeWagersWithPolicy(Activity, v, ticket[x], clock) BY DEF Shown
    <3> HIDE DEF a
    <3> QED BY <3>1, ShownLegs DEF StartedLegs
  <2> HIDE DEF a
  <2>5. g \in GameSet(DOMAIN a[x].legs) <=> g \in GameSet(ticket[x].legs)
    BY <2>4 DEF GameSet, StartedLegs
  <2> QED BY <2>3, <2>5
<1> HIDE DEF a
<1>3. exposedWagers(a, g) = Q BY <1>1, <1>2 DEF exposedWagers
<1>4. [x \in Q |-> a[x].performance] = [x \in Q |-> FloatMoved(ticket[x])] BY <1>2
<1> HIDE DEF Q
<1> QED BY <1>3, <1>4 DEF PoolExposure, Performance, a, Q

LEMMA EveryoneSees == ViewsInv => EveryoneSeesTheSameBook
<1> SUFFICES ASSUME ViewsInv, NEW v \in Holder
             PROVE  LET list == Shown(Activity, v)
                    IN  /\ \A w \in Holder \ {v} : LET theirs == Shown(Activity, w) IN
                             /\ \A week \in {list[x].week : x \in Listed} :
                                  groupActivityDaysForWeek(list, week, clock)
                                    = groupActivityDaysForWeek(theirs, week, clock)
                             /\ splitProfileWeekWagers(list, clock) = splitProfileWeekWagers(theirs, clock)
                             /\ \A x \in Listed : hasActiveActivityGame(list[x], clock)
                                                    <=> hasActiveActivityGame(theirs[x], clock)
                        /\ \A g \in Game : Kickoff[g] <= clock =>
                             PoolExposure(list, g) =
                               Added([x \in {y \in Listed : g \in GameSet(ticket[y].legs)} |->
                                       FloatMoved(ticket[x])])
  BY DEF EveryoneSeesTheSameBook
<1> DEFINE a == Shown(Activity, v)
<1>1. ASSUME NEW w \in Holder \ {v}
      PROVE  LET b == Shown(Activity, w) IN
             /\ \A week \in {a[x].week : x \in Listed} :
                  groupActivityDaysForWeek(a, week, clock) = groupActivityDaysForWeek(b, week, clock)
             /\ splitProfileWeekWagers(a, clock) = splitProfileWeekWagers(b, clock)
             /\ \A x \in Listed : hasActiveActivityGame(a[x], clock) <=> hasActiveActivityGame(b[x], clock)
  <2> DEFINE b == Shown(Activity, w)
  <2>1. IsBook(a, Listed, clock) /\ IsBook(b, Listed, clock) BY ShownIsBook
  <2> HIDE DEF a, b
  <2>2. \A week : groupActivityDaysForWeek(a, week, clock) = groupActivityDaysForWeek(b, week, clock)
    BY <2>1, SameDays
  <2>3. splitProfileWeekWagers(a, clock) = splitProfileWeekWagers(b, clock) BY <2>1, SameSplit
  <2>4. \A x \in Listed : hasActiveActivityGame(a[x], clock) <=> hasActiveActivityGame(b[x], clock)
    BY <2>1 DEF IsBook, ShownAs
  <2> QED BY <2>2, <2>3, <2>4 DEF b
<1>2. \A g \in Game : Kickoff[g] <= clock =>
        PoolExposure(a, g)
          = Added([x \in {y \in Listed : g \in GameSet(ticket[y].legs)} |-> FloatMoved(ticket[x])])
  BY ExposureIsWhole
<1> HIDE DEF a
<1> QED BY <1>1, <1>2 DEF a

(* Sums *)

\* The values of a function on a finite set are finitely many.
LEMMA FiniteImage ==
  ASSUME NEW f, IsFiniteSet(DOMAIN f)
  PROVE  IsFiniteSet({f[x] : x \in DOMAIN f})
<1> DEFINE r == [x \in DOMAIN f |-> f[x]]
           T == {f[x] : x \in DOMAIN f}
<1>1. r \in Surjection(DOMAIN f, T) BY DEF Surjection
<1> HIDE DEF r, T
<1>2. IsFiniteSet(T) BY <1>1, FS_Surjection
<1> QED BY <1>2 DEF T

\* What is won and lost in a week is what its days add up to.
LEMMA WeekIsItsDays ==
  ASSUME NEW now, NEW D, IsFiniteSet(D), NEW a, IsBook(a, D, now),
         \A x \in D : a[x].performance \in Int, NEW week
  PROVE  LET days == groupActivityDaysForWeek(a, week, now)
         IN  Added([k \in DOMAIN days |-> days[k].performance]) = Performance(a, TicketsOfWeek(D, week))
<1> DEFINE days == groupActivityDaysForWeek(a, week, now)
           S == TicketsOfWeek(D, week)
           K == DaysOfWeek(D, week, now)
           T(k) == TicketsOfDay(D, week, now, k)
           key == [x \in S |-> DayOfTicket(ticket[x], now)]
           f == [x \in S |-> a[x].performance]
<1>1. /\ DOMAIN days = K
      /\ \A k \in K : days[k].performance = Performance(a, T(k))
  <2>1. days = [k \in K |-> [performance |-> Performance(a, T(k)),
                             members |-> groupActivityMembers(a, T(k))]]
    BY DaysAre
  <2> HIDE DEF days, K, T
  <2> QED BY <2>1
<1>2. IsFiniteSet(S) /\ S \subseteq D BY FS_Subset DEF TicketsOfWeek
<1>3. DOMAIN key = S /\ K = {key[x] : x \in S} BY DEF DaysOfWeek
<1>4. \A k : T(k) = {y \in S : key[y] = k} BY DEF TicketsOfDay
<1>5. DOMAIN f = S /\ \A x \in S : f[x] = a[x].performance OBVIOUS
<1>6. f \in [S -> Int] BY <1>2
<1>a. key = [x \in S |-> key[x]] OBVIOUS
<1> HIDE DEF key, f, S, K, T, days
<1>7. IsFiniteSet(K) BY <1>2, <1>3, FiniteImage
<1>8. key \in [S -> K] BY <1>3, <1>a
<1>9. Added([k \in K |-> Added([x \in {y \in S : key[y] = k} |-> f[x]])]) = Added(f)
  BY <1>2, <1>6, <1>7, <1>8, SumByKeys
<1>10. ASSUME NEW k \in K
       PROVE  days[k].performance = Added([x \in {y \in S : key[y] = k} |-> f[x]])
  <2> DEFINE Q == {y \in S : key[y] = k}
  <2>1. T(k) = Q BY <1>4
  <2>2. [x \in Q |-> a[x].performance] = [x \in Q |-> f[x]] BY <1>5
  <2>3. Performance(a, Q) = Added([x \in Q |-> f[x]])
    <3> HIDE DEF Q
    <3> QED BY <2>2 DEF Performance
  <2> QED BY <1>1, <2>1, <2>3
<1>11. [k \in DOMAIN days |-> days[k].performance]
         = [k \in K |-> Added([x \in {y \in S : key[y] = k} |-> f[x]])]
  BY <1>1, <1>10
<1>12. Added(f) = Performance(a, S) BY DEF Performance, f
<1> QED BY <1>9, <1>11, <1>12 DEF days, S

\* And the season is what any finitely many weeks add up to that each ticket is in one of.
LEMMA SeasonIsItsWeeks ==
  ASSUME NEW now, NEW D, IsFiniteSet(D), NEW a, IsBook(a, D, now),
         \A x \in D : a[x].performance \in Int,
         NEW weeks, IsFiniteSet(weeks), \A x \in D : WeekOfTicket(ticket[x]) \in weeks
  PROVE  Performance(a, D) = Added([week \in weeks |-> Performance(a, TicketsOfWeek(D, week))])
<1> DEFINE key == [x \in D |-> WeekOfTicket(ticket[x])]
           f == [x \in D |-> a[x].performance]
<1>1. key \in [D -> weeks] /\ f \in [D -> Int] /\ \A x \in D : f[x] = a[x].performance OBVIOUS
<1>2. \A week : TicketsOfWeek(D, week) = {y \in D : key[y] = week} BY DEF TicketsOfWeek
<1>3. Performance(a, D) = Added(f) BY DEF Performance
<1> HIDE DEF key, f
<1>4. Added([k \in weeks |-> Added([x \in {y \in D : key[y] = k} |-> f[x]])]) = Added(f)
  BY <1>1, SumByKeys
<1>5. ASSUME NEW k \in weeks
      PROVE  Performance(a, TicketsOfWeek(D, k)) = Added([x \in {y \in D : key[y] = k} |-> f[x]])
  <2> DEFINE Q == {y \in D : key[y] = k}
  <2>1. TicketsOfWeek(D, k) = Q BY <1>2
  <2>2. [x \in Q |-> a[x].performance] = [x \in Q |-> f[x]] BY <1>1
  <2>3. Performance(a, Q) = Added([x \in Q |-> f[x]])
    <3> HIDE DEF Q
    <3> QED BY <2>2 DEF Performance
  <2> QED BY <2>1, <2>3
<1>6. [week \in weeks |-> Performance(a, TicketsOfWeek(D, week))]
        = [k \in weeks |-> Added([x \in {y \in D : key[y] = k} |-> f[x]])]
  BY <1>5
<1> QED BY <1>3, <1>4, <1>6

\* A profile offers finitely many weeks, those of the bets among them.
LEMMA OptionsAreFinite ==
  ASSUME NEW bets, IsFiniteSet(bets), NEW now
  PROVE  IsFiniteSet(profileWeekOptions(bets, now)) /\ bets \subseteq profileWeekOptions(bets, now)
<1>1. PICK week : profileWeekOptions(bets, now)
                    = bets \cup {w \in {week[k] : k \in 0..WeekCap - 1} : w <= weekStartOf(now)}
                        \cup {weekStartOf(now)}
  BY DEF profileWeekOptions
<1> DEFINE r == [k \in 0..WeekCap - 1 |-> week[k]]
           V == {week[k] : k \in 0..WeekCap - 1}
           U == {w \in V : w <= weekStartOf(now)}
<1>2. DOMAIN r = 0..WeekCap - 1 /\ {r[k] : k \in DOMAIN r} = V OBVIOUS
<1>3. IsFiniteSet(0..WeekCap - 1) BY ViewsAssumption, FS_Interval
<1> HIDE DEF r, V
<1>4. IsFiniteSet(V) BY <1>2, <1>3, FiniteImage
<1>5. IsFiniteSet(U) BY <1>4, FS_Subset
<1>6. IsFiniteSet({weekStartOf(now)}) BY FS_Singleton
<1> DEFINE c == {weekStartOf(now)}
           both == bets \cup U
<1>7. profileWeekOptions(bets, now) = both \cup c BY <1>1 DEF V
<1>8. IsFiniteSet(c) BY <1>6
<1> HIDE DEF U, c
<1>9. IsFiniteSet(both) BY <1>5, FS_Union
<1> HIDE DEF both
<1>10. IsFiniteSet(both \cup c) BY <1>8, <1>9, FS_Union
<1> QED BY <1>7, <1>10 DEF both

\* Filtering the rows of the days changes no sum.
LEMMA FilterKeepsSums ==
  ASSUME NEW list, NEW days, NEW now,
         \A k \in DOMAIN days :
           days[k] = [performance |-> days[k].performance, members |-> days[k].members],
         \A k \in DOMAIN days : \A h \in DOMAIN days[k].members :
           days[k].members[h] = [performance |-> days[k].members[h].performance,
                                 wagers |-> days[k].members[h].wagers]
  PROVE  LET kept == filterActivityDaysForActiveGames(list, days, now)
         IN  \A k \in DOMAIN kept :
               /\ kept[k].performance = days[k].performance
               /\ \A h \in DOMAIN kept[k].members :
                    kept[k].members[h].performance = days[k].members[h].performance
<1> DEFINE some(k, h) == {x \in days[k].members[h].wagers : hasActiveActivityGame(list[x], now)}
           members(k) == {h \in DOMAIN days[k].members : some(k, h) # {}}
           K == {d \in DOMAIN days : members(d) # {}}
           less(k) == [h \in members(k) |-> [days[k].members[h] EXCEPT !.wagers = some(k, h)]]
           kept == filterActivityDaysForActiveGames(list, days, now)
<1>1. kept = [k \in K |-> [days[k] EXCEPT !.members = less(k)]]
  BY DEF filterActivityDaysForActiveGames
<1>2. \A k \in K : k \in DOMAIN days OBVIOUS
<1>3. ASSUME NEW k \in K, NEW h \in members(k)
      PROVE  less(k)[h].performance = days[k].members[h].performance
  <2> DEFINE m == days[k].members[h]
             s == some(k, h)
  <2>1. h \in DOMAIN days[k].members /\ k \in DOMAIN days OBVIOUS
  <2>2. m = [performance |-> m.performance, wagers |-> m.wagers] BY <2>1
  <2>3. less(k)[h] = [m EXCEPT !.wagers = s] OBVIOUS
  <2> HIDE DEF m, s, less, members, K
  <2>4. [m EXCEPT !.wagers = s].performance = m.performance BY <2>2
  <2> QED BY <2>3, <2>4 DEF m
<1>4. \A k : DOMAIN less(k) = members(k) OBVIOUS
<1> HIDE DEF K, less, members, kept
<1>5. ASSUME NEW k \in K
      PROVE  kept[k].performance = days[k].performance /\ kept[k].members = less(k)
  <2> DEFINE d == days[k]
  <2>1. d = [performance |-> d.performance, members |-> d.members] BY <1>2
  <2>2. kept[k] = [d EXCEPT !.members = less(k)] BY <1>1
  <2> HIDE DEF d
  <2> QED BY <2>1, <2>2 DEF d
<1>6. DOMAIN kept = K BY <1>1
<1>7. \A k \in DOMAIN kept :
        /\ kept[k].performance = days[k].performance
        /\ \A h \in DOMAIN kept[k].members :
             kept[k].members[h].performance = days[k].members[h].performance
  BY <1>3, <1>4, <1>5, <1>6
<1> QED BY <1>7 DEF kept

LEMMA DaysAreRecords ==
  ASSUME NEW now, NEW D, NEW a, IsBook(a, D, now), NEW week
  PROVE  LET days == groupActivityDaysForWeek(a, week, now)
         IN  /\ \A k \in DOMAIN days :
                  days[k] = [performance |-> days[k].performance, members |-> days[k].members]
             /\ \A k \in DOMAIN days : \A h \in DOMAIN days[k].members :
                  days[k].members[h] = [performance |-> days[k].members[h].performance,
                                        wagers |-> days[k].members[h].wagers]
<1> DEFINE days == groupActivityDaysForWeek(a, week, now)
           T(k) == TicketsOfDay(D, week, now, k)
<1>1. days = [k \in DaysOfWeek(D, week, now) |->
               [performance |-> Performance(a, T(k)), members |-> groupActivityMembers(a, T(k))]]
  BY DaysAre
<1>2. \A S : \A h \in DOMAIN groupActivityMembers(a, S) :
        groupActivityMembers(a, S)[h]
          = [performance |-> groupActivityMembers(a, S)[h].performance,
             wagers |-> groupActivityMembers(a, S)[h].wagers]
  BY DEF groupActivityMembers
<1> HIDE DEF days, T
<1>3. \A k \in DOMAIN days :
        /\ days[k] = [performance |-> days[k].performance, members |-> days[k].members]
        /\ days[k].members = groupActivityMembers(a, T(k))
  BY <1>1
<1>4. \A k \in DOMAIN days : \A h \in DOMAIN days[k].members :
        days[k].members[h] = [performance |-> days[k].members[h].performance,
                              wagers |-> days[k].members[h].wagers]
  BY <1>2, <1>3
<1> QED BY <1>3, <1>4 DEF days

LEMMA SumsAlwaysAgree == ViewsInv => SumsAgree
<1> SUFFICES ASSUME ViewsInv, NEW v \in Holder
             PROVE  LET list  == Shown(Activity, v)
                        weeks == profileWeekOptions({list[x].week : x \in Listed}, clock)
                        inDays(days) == Added([k \in DOMAIN days |-> days[k].performance])
                    IN  /\ Performance(list, Listed)
                             = Added([week \in weeks |-> inDays(groupActivityDaysForWeek(list, week, clock))])
                        /\ \A week \in weeks :
                             LET days == groupActivityDaysForWeek(list, week, clock)
                                 kept == filterActivityDaysForActiveGames(list, days, clock)
                             IN  \A k \in DOMAIN kept :
                                   LET before == days[k] after == kept[k]
                                   IN  /\ after.performance = before.performance
                                       /\ \A h \in DOMAIN after.members :
                                            after.members[h].performance = before.members[h].performance
                        /\ UNION {pickRecord(list)[o] : o \in {"won", "lost", "refunded"}}
                             = {x \in Listed : ticket[x].status # "open"}
  BY DEF SumsAgree
<1> DEFINE a == Shown(Activity, v)
           bets == {a[x].week : x \in Listed}
           weeks == profileWeekOptions(bets, clock)
           days(week) == groupActivityDaysForWeek(a, week, clock)
           inDays(week) == Added([k \in DOMAIN days(week) |-> days(week)[k].performance])
<1>1. IsBook(a, Listed, clock) BY ShownIsBook
<1>2. IsFiniteSet(Listed) BY FS_Subset, ViewsAssumption DEF Listed
<1>3. DOMAIN a = Listed BY DEF Shown
<1>4. \A x \in Listed : /\ a[x].performance \in Int /\ a[x].week = WeekOfTicket(ticket[x])
                        /\ a[x].status = ticket[x].status
                        /\ ticket[x].status \in Ended \cup {"open"}
  <2> SUFFICES ASSUME NEW x \in Listed
               PROVE  /\ a[x].performance \in Int /\ a[x].week = WeekOfTicket(ticket[x])
                      /\ a[x].status = ticket[x].status
                      /\ ticket[x].status \in Ended \cup {"open"}
    OBVIOUS
  <2>1. TicketIsSound(ticket[x], clock) BY ListedIsSound
  <2>2. ShownAs(a[x], ticket[x], clock) BY <1>1 DEF IsBook
  <2> HIDE DEF a
  <2> QED BY <2>1, <2>2, PerformanceOfOne DEF ShownAs
<1> HIDE DEF a
<1>5. IsFiniteSet(weeks) /\ bets \subseteq weeks
  <2> DEFINE r == [x \in Listed |-> a[x].week]
  <2>1. DOMAIN r = Listed /\ {r[x] : x \in DOMAIN r} = bets OBVIOUS
  <2> HIDE DEF r, bets
  <2>2. IsFiniteSet(bets) BY <1>2, <2>1, FiniteImage
  <2> QED BY <2>2, OptionsAreFinite
<1>6. \A x \in Listed : WeekOfTicket(ticket[x]) \in weeks
  <2> HIDE DEF weeks
  <2> QED BY <1>4, <1>5
<1>7. Performance(a, Listed) = Added([week \in weeks |-> inDays(week)])
  <2> HIDE DEF weeks, bets
  <2>1. Performance(a, Listed)
          = Added([week \in weeks |-> Performance(a, TicketsOfWeek(Listed, week))])
    BY <1>1, <1>2, <1>4, <1>5, <1>6, SeasonIsItsWeeks
  <2>2. \A week : inDays(week) = Performance(a, TicketsOfWeek(Listed, week))
    BY <1>1, <1>2, <1>4, WeekIsItsDays
  <2> HIDE DEF inDays
  <2>3. [week \in weeks |-> inDays(week)]
          = [week \in weeks |-> Performance(a, TicketsOfWeek(Listed, week))]
    BY <2>2
  <2> QED BY <2>1, <2>3
<1>8. ASSUME NEW week
      PROVE  LET kept == filterActivityDaysForActiveGames(a, days(week), clock)
             IN  \A k \in DOMAIN kept :
                   /\ kept[k].performance = days(week)[k].performance
                   /\ \A h \in DOMAIN kept[k].members :
                        kept[k].members[h].performance = days(week)[k].members[h].performance
  <2> DEFINE d == days(week)
  <2>1. /\ \A k \in DOMAIN d : d[k] = [performance |-> d[k].performance, members |-> d[k].members]
        /\ \A k \in DOMAIN d : \A h \in DOMAIN d[k].members :
             d[k].members[h] = [performance |-> d[k].members[h].performance,
                                wagers |-> d[k].members[h].wagers]
    BY <1>1, DaysAreRecords
  <2> HIDE DEF d
  <2>2. LET kept == filterActivityDaysForActiveGames(a, d, clock)
        IN  \A k \in DOMAIN kept :
              /\ kept[k].performance = d[k].performance
              /\ \A h \in DOMAIN kept[k].members :
                   kept[k].members[h].performance = d[k].members[h].performance
    BY <2>1, FilterKeepsSums
  <2> QED BY <2>2 DEF d
<1>9. UNION {pickRecord(a)[o] : o \in {"won", "lost", "refunded"}}
        = {x \in Listed : ticket[x].status # "open"}
  <2> DEFINE O == {"won", "lost", "refunded"}
             P == pickRecord(a)
  <2>1. \A o \in O : P[o] = {x \in Listed : ticket[x].status = o} BY <1>3, <1>4 DEF pickRecord
  <2> HIDE DEF P
  <2>2. UNION {P[o] : o \in O} = {x \in Listed : ticket[x].status # "open"}
    BY <1>4, <2>1 DEF Ended
  <2> QED BY <2>2 DEF P
<1> QED BY <1>7, <1>8, <1>9 DEF a

-----------------------------------------------------------------------------
\* What a member is shown of the wagers of a pool is right at every moment: nothing of
\* another's unstarted legs shows (revealed and termsAreVisible of the projection), what a
\* ticket won or lost is what its settlements moved, everybody is shown the same days and
\* exposures, days and weeks add up to the season, and the commissioner is offered a
\* correction exactly when the server takes it.
THEOREM ViewsAreAlwaysTrue ==
  ViewsSpec => [](/\ NothingUnstartedShows /\ PerformanceIsTheLedgers /\ EveryoneSeesTheSameBook
                  /\ SumsAgree /\ OfferedIsAccepted)
<1>1. ViewsInv => /\ NothingUnstartedShows /\ PerformanceIsTheLedgers /\ EveryoneSeesTheSameBook
                  /\ SumsAgree /\ OfferedIsAccepted
  BY UnstartedIsHidden, PerformanceIsLedgers, EveryoneSees, SumsAlwaysAgree, OfferIsAccepted
<1> QED BY <1>1, ViewsInvHolds, PTL

-----------------------------------------------------------------------------
(***************************************************************************)
(* Standings: every balance is what the rows of the ledger come to, and a  *)
(* refunded wager's come to nothing, so the changes of the weeks, rebuilt  *)
(* without the refunded, add up to the present.  A step only adds rows of  *)
(* its own hour, so it leaves alone what was before.  A column is what a   *)
(* member holds, the float, or the notional value.                         *)
(***************************************************************************)

(* The weekly standings: the rows of a season *)

\* The columns that are added up: what a member holds, the float, the notional value.
Column == {"held", "float", "notional"}

In(r, c, h) ==
  CASE c = "float"    -> r.float
    [] c = "notional" -> r.notional
    [] c = "held"     -> IF r.holder = h THEN r.available + r.locked ELSE 0

\* The sum of a column over all rows, and over the rows of the bets of a set.
AllIn(rows, c, h) == Total([k \in 1..Len(rows) |-> In(rows[k], c, h)], Len(rows))

OfBets == {"wager_lock", "settlement", "settlement_reversal"}

BetsIn(rows, X, c, h) ==
  Total([k \in 1..Len(rows) |->
          IF rows[k].kind \in OfBets /\ rows[k].cause \in X THEN In(rows[k], c, h) ELSE 0], Len(rows))

BalanceIn(b, c, h) ==
  CASE c = "float"    -> b.float
    [] c = "notional" -> b.notional
    [] c = "held"     -> b.account[h].available + b.account[h].locked

\* What the rows of a bet come to.
NetOf(status) == CASE status = "won" -> Yield [] status = "lost" -> -Stake [] status \notin {"won", "lost"} -> 0

NetIn(w, c, h) == IF c = "float" \/ (c = "held" /\ w.owner = h) THEN NetOf(w.status) ELSE 0

AnyRow ==
  [at : Nat, holder : Holder, kind : OfBets \cup {"share_order"}, cause : Nat, available : Int,
   locked : Int, float : Int, notional : Int]

PostedRow == {r \in AnyRow : r.kind \in OfBets => r.cause \in Bet}

PostedOrder == [at : Nat, holder : Holder, value : Int]

BetRow == [owner : Holder \cup {Nobody}, status : {"none", "open", "won", "lost", "refunded"}, at : Nat]

\* The shape of a season's book; what its rows come to; and when they were posted.
BookShape(b) ==
  /\ b = [posted |-> b.posted, orders |-> b.orders, bets |-> b.bets, account |-> b.account,
          float |-> b.float, notional |-> b.notional, opened |-> b.opened]
  /\ b.posted \in Seq(PostedRow) /\ b.orders \in Seq(PostedOrder) /\ b.bets \in [Bet -> BetRow]
  /\ b.account \in [Holder -> [available : Int, locked : Int]]
  /\ b.float \in Int /\ b.notional \in Int /\ b.opened \in Nat

BookAddsUp(b) ==
  \A c \in Column, h \in Holder :
    /\ BalanceIn(b, c, h) = AllIn(b.posted, c, h)
    /\ \A x \in Bet : BetsIn(b.posted, {x}, c, h) = NetIn(b.bets[x], c, h)

BookIsTimely(b, now) ==
  /\ b.opened <= now
  /\ \A k \in 1..Len(b.posted) : b.opened <= b.posted[k].at /\ b.posted[k].at <= now
  /\ \A k \in 1..Len(b.orders) : b.opened <= b.orders[k].at /\ b.orders[k].at <= now
  /\ \A x \in Bet : /\ b.bets[x].status # "none" => b.opened <= b.bets[x].at /\ b.bets[x].at <= now
                    /\ b.bets[x].status # "none" => b.bets[x].owner \in Holder

BookIsSound(b, now) == BookShape(b) /\ BookAddsUp(b) /\ BookIsTimely(b, now)

StandingsInv == hour \in Nat /\ BookIsSound(book, hour)

LEMMA InIsInt ==
  ASSUME NEW r \in PostedRow, NEW c \in Column, NEW h
  PROVE  In(r, c, h) \in Int
BY DEF In, Column, PostedRow, AnyRow

\* One row more adds its own amount.
LEMMA RowAdds ==
  ASSUME NEW rows \in Seq(PostedRow), NEW r \in PostedRow, NEW c \in Column, NEW h, NEW X
  PROVE  LET more == Append(rows, r)
         IN  /\ more \in Seq(PostedRow)
             /\ AllIn(more, c, h) = AllIn(rows, c, h) + In(r, c, h)
             /\ BetsIn(more, X, c, h) = BetsIn(rows, X, c, h)
                  + (IF r.kind \in OfBets /\ r.cause \in X THEN In(r, c, h) ELSE 0)
<1> DEFINE more == Append(rows, r)
           n == Len(rows)
<1>1. /\ n \in Nat /\ Len(more) = n + 1 /\ more \in Seq(PostedRow)
      /\ more[n + 1] = r /\ \A k \in 1..n : more[k] = rows[k]
  BY AppendProperties
<1> HIDE DEF more
<1> DEFINE f == [k \in 1..n |-> In(rows[k], c, h)]
           g == [k \in 1..(n + 1) |-> In(more[k], c, h)]
           p == [k \in 1..n |->
                  IF rows[k].kind \in OfBets /\ rows[k].cause \in X THEN In(rows[k], c, h) ELSE 0]
           q == [k \in 1..(n + 1) |->
                  IF more[k].kind \in OfBets /\ more[k].cause \in X THEN In(more[k], c, h) ELSE 0]
<1>2. AllIn(rows, c, h) = Total(f, n) /\ AllIn(more, c, h) = Total(g, n + 1) BY <1>1 DEF AllIn
<1>3. BetsIn(rows, X, c, h) = Total(p, n) /\ BetsIn(more, X, c, h) = Total(q, n + 1)
  BY <1>1 DEF BetsIn
<1>4. (\A k \in 1..n : g[k] = f[k]) /\ g[n + 1] = In(r, c, h) BY <1>1
<1>5. /\ \A k \in 1..n : q[k] = p[k]
      /\ q[n + 1] = IF r.kind \in OfBets /\ r.cause \in X THEN In(r, c, h) ELSE 0
  BY <1>1
<1> HIDE DEF f, g, p, q, n
<1>6. Total(g, n + 1) = Total(f, n) + g[n + 1] BY <1>1, <1>4, TotalLonger
<1>7. Total(q, n + 1) = Total(p, n) + q[n + 1] BY <1>1, <1>5, TotalLonger
<1> QED BY <1>1, <1>2, <1>3, <1>4, <1>5, <1>6, <1>7 DEF more

LEMMA RowAddsToAll ==
  ASSUME NEW rows \in Seq(PostedRow), NEW r \in PostedRow, NEW c \in Column, NEW h
  PROVE  AllIn(Append(rows, r), c, h) = AllIn(rows, c, h) + In(r, c, h)
<1> DEFINE X == Bet
<1> HIDE DEF X
<1>1. AllIn(Append(rows, r), c, h) = AllIn(rows, c, h) + In(r, c, h)
        /\ BetsIn(Append(rows, r), X, c, h) = BetsIn(rows, X, c, h)
             + (IF r.kind \in OfBets /\ r.cause \in X THEN In(r, c, h) ELSE 0)
  BY RowAdds
<1> QED BY <1>1

\* Sums of one and of two.
LEMMA TotalOfOne == \A f : f[1] \in Int => Total(f, 1) = f[1]
<1> SUFFICES ASSUME NEW f, f[1] \in Int PROVE Total(f, 1) = f[1] OBVIOUS
<1>1. Total(f, 0) = 0
  <2>1. \A i \in 1..0 : f[i] = 0 OBVIOUS
  <2> QED BY <2>1, TotalOfZeros
<1>2. Total(f, 0 + 1) = Total(f, 0) + f[0 + 1] BY TotalLonger
<1> QED BY <1>1, <1>2

LEMMA TotalOfTwo == \A f : f[1] \in Int /\ f[2] \in Int => Total(f, 2) = f[1] + f[2]
<1> SUFFICES ASSUME NEW f, f[1] \in Int, f[2] \in Int PROVE Total(f, 2) = f[1] + f[2] OBVIOUS
<1>1. Total(f, 1) = f[1] BY TotalOfOne
<1>2. Total(f, 1 + 1) = Total(f, 1) + f[1 + 1] BY TotalLonger
<1> QED BY <1>1, <1>2

\* The amounts of one row and of two.
LEMMA AmountsOfOne ==
  ASSUME NEW r \in PostedRow
  PROVE  /\ \A h : /\ SumOf(h, <<r>>, LAMBDA y : y.available) = (IF r.holder = h THEN r.available ELSE 0)
                    /\ SumOf(h, <<r>>, LAMBDA y : y.locked) = (IF r.holder = h THEN r.locked ELSE 0)
         /\ Sum(<<r>>, LAMBDA y : y.float) = r.float
         /\ Sum(<<r>>, LAMBDA y : y.notional) = r.notional
<1> DEFINE rows == <<r>>
<1>0. Len(rows) = 1 /\ rows[1] = r OBVIOUS
<1> HIDE DEF rows
<1>1. ASSUME NEW h
      PROVE  /\ SumOf(h, rows, LAMBDA y : y.available) = (IF r.holder = h THEN r.available ELSE 0)
             /\ SumOf(h, rows, LAMBDA y : y.locked) = (IF r.holder = h THEN r.locked ELSE 0)
  <2> DEFINE f == [k \in 1..1 |-> IF rows[k].holder = h THEN rows[k].available ELSE 0]
             g == [k \in 1..1 |-> IF rows[k].holder = h THEN rows[k].locked ELSE 0]
  <2>1. /\ f[1] = (IF r.holder = h THEN r.available ELSE 0) /\ g[1] = (IF r.holder = h THEN r.locked ELSE 0)
    BY <1>0
  <2>2. f[1] \in Int /\ g[1] \in Int BY <2>1 DEF PostedRow, AnyRow
  <2>3. SumOf(h, rows, LAMBDA y : y.available) = Total(f, 1) /\ SumOf(h, rows, LAMBDA y : y.locked) = Total(g, 1)
    BY <1>0 DEF SumOf, Sum
  <2> HIDE DEF f, g
  <2> QED BY <2>1, <2>2, <2>3, TotalOfOne
<1>2. /\ Sum(rows, LAMBDA y : y.float) = r.float
      /\ Sum(rows, LAMBDA y : y.notional) = r.notional
  <2> DEFINE f == [k \in 1..1 |-> rows[k].float]
             g == [k \in 1..1 |-> rows[k].notional]
  <2>1. /\ f[1] = r.float /\ g[1] = r.notional
    BY <1>0
  <2>2. f[1] \in Int /\ g[1] \in Int BY <2>1 DEF PostedRow, AnyRow
  <2>3. Sum(rows, LAMBDA y : y.float) = Total(f, 1) /\ Sum(rows, LAMBDA y : y.notional) = Total(g, 1)
    BY <1>0 DEF SumOf, Sum
  <2> HIDE DEF f, g
  <2> QED BY <2>1, <2>2, <2>3, TotalOfOne
<1> QED BY <1>1, <1>2 DEF rows

LEMMA AmountsOfTwo ==
  ASSUME NEW r \in PostedRow, NEW s \in PostedRow
  PROVE  /\ \A h : /\ SumOf(h, <<r, s>>, LAMBDA y : y.available) = (IF r.holder = h THEN r.available ELSE 0) + (IF s.holder = h THEN s.available ELSE 0)
                    /\ SumOf(h, <<r, s>>, LAMBDA y : y.locked) = (IF r.holder = h THEN r.locked ELSE 0) + (IF s.holder = h THEN s.locked ELSE 0)
         /\ Sum(<<r, s>>, LAMBDA y : y.float) = r.float + s.float
         /\ Sum(<<r, s>>, LAMBDA y : y.notional) = r.notional + s.notional
<1> DEFINE rows == <<r, s>>
<1>0. Len(rows) = 2 /\ rows[1] = r /\ rows[2] = s OBVIOUS
<1> HIDE DEF rows
<1>1. ASSUME NEW h
      PROVE  /\ SumOf(h, rows, LAMBDA y : y.available) = (IF r.holder = h THEN r.available ELSE 0) + (IF s.holder = h THEN s.available ELSE 0)
             /\ SumOf(h, rows, LAMBDA y : y.locked) = (IF r.holder = h THEN r.locked ELSE 0) + (IF s.holder = h THEN s.locked ELSE 0)
  <2> DEFINE f == [k \in 1..2 |-> IF rows[k].holder = h THEN rows[k].available ELSE 0]
             g == [k \in 1..2 |-> IF rows[k].holder = h THEN rows[k].locked ELSE 0]
  <2>1. /\ f[1] = (IF r.holder = h THEN r.available ELSE 0) /\ g[1] = (IF r.holder = h THEN r.locked ELSE 0)
        /\ f[2] = (IF s.holder = h THEN s.available ELSE 0) /\ g[2] = (IF s.holder = h THEN s.locked ELSE 0)
    BY <1>0
  <2>2. f[1] \in Int /\ f[2] \in Int /\ g[1] \in Int /\ g[2] \in Int BY <2>1 DEF PostedRow, AnyRow
  <2>3. SumOf(h, rows, LAMBDA y : y.available) = Total(f, 2) /\ SumOf(h, rows, LAMBDA y : y.locked) = Total(g, 2)
    BY <1>0 DEF SumOf, Sum
  <2> HIDE DEF f, g
  <2> QED BY <2>1, <2>2, <2>3, TotalOfTwo
<1>2. /\ Sum(rows, LAMBDA y : y.float) = r.float + s.float
      /\ Sum(rows, LAMBDA y : y.notional) = r.notional + s.notional
  <2> DEFINE f == [k \in 1..2 |-> rows[k].float]
             g == [k \in 1..2 |-> rows[k].notional]
  <2>1. /\ f[1] = r.float /\ g[1] = r.notional
        /\ f[2] = s.float /\ g[2] = s.notional
    BY <1>0
  <2>2. f[1] \in Int /\ f[2] \in Int /\ g[1] \in Int /\ g[2] \in Int BY <2>1 DEF PostedRow, AnyRow
  <2>3. Sum(rows, LAMBDA y : y.float) = Total(f, 2) /\ Sum(rows, LAMBDA y : y.notional) = Total(g, 2)
    BY <1>0 DEF SumOf, Sum
  <2> HIDE DEF f, g
  <2> QED BY <2>1, <2>2, <2>3, TotalOfTwo
<1> QED BY <1>1, <1>2 DEF rows

\* One row, or two, written with the balances they move.
LEMMA PostingOfOne ==
  ASSUME NEW b, BookShape(b), NEW r \in PostedRow
  PROVE  LET d == Posting(b, <<r>>)
         IN  /\ BookShape(d) /\ d.orders = b.orders /\ d.bets = b.bets /\ d.opened = b.opened
             /\ d.posted = Append(b.posted, r)
             /\ \A c \in Column, h \in Holder :
                  BalanceIn(d, c, h) = BalanceIn(b, c, h) + In(r, c, h)
<1> DEFINE d == Posting(b, <<r>>)
           av(h) == SumOf(h, <<r>>, LAMBDA y : y.available)
           lk(h) == SumOf(h, <<r>>, LAMBDA y : y.locked)
           fl == Sum(<<r>>, LAMBDA y : y.float)
           nt == Sum(<<r>>, LAMBDA y : y.notional)
           acc == [h \in Holder |-> [available |-> b.account[h].available + av(h),
                                     locked    |-> b.account[h].locked + lk(h)]]
           more == b.posted \o <<r>>
           F == b.float + fl
           N == b.notional + nt
<1>0. d = [b EXCEPT !.posted = more, !.account = acc, !.float = F, !.notional = N] BY DEF Posting
<1>1. d = [posted |-> more, orders |-> b.orders, bets |-> b.bets, account |-> acc,
           float |-> F, notional |-> N, opened |-> b.opened]
  <2> HIDE DEF d, more, acc, F, N
  <2> QED BY <1>0 DEF BookShape
<1>2. /\ \A h : /\ av(h) = (IF r.holder = h THEN r.available ELSE 0)
                /\ lk(h) = (IF r.holder = h THEN r.locked ELSE 0)
      /\ fl = r.float /\ nt = r.notional
  BY AmountsOfOne
<1>3. b.posted \o <<r>> = Append(b.posted, r) /\ Append(b.posted, r) \in Seq(PostedRow)
  BY AppendIsConcat, AppendProperties DEF BookShape
<1> HIDE DEF av, lk, fl, nt, d
<1>4. \A h : av(h) \in Int /\ lk(h) \in Int BY <1>2 DEF PostedRow, AnyRow
<1>5. fl \in Int /\ nt \in Int BY <1>2 DEF PostedRow, AnyRow
<1>6. \A h \in Holder : b.account[h].available \in Int /\ b.account[h].locked \in Int BY DEF BookShape
<1>7. acc \in [Holder -> [available : Int, locked : Int]] BY <1>4, <1>6
<1>8. BookShape(d)
  <2> HIDE DEF acc
  <2> QED BY <1>1, <1>3, <1>5, <1>7 DEF BookShape
<1>9. ASSUME NEW c \in Column, NEW h \in Holder PROVE BalanceIn(d, c, h) = BalanceIn(b, c, h) + In(r, c, h)
  <2>1. /\ acc[h].available = b.account[h].available + av(h)
        /\ acc[h].locked = b.account[h].locked + lk(h)
    OBVIOUS
  <2> HIDE DEF acc
  <2>2. CASE c = "float" BY <1>1, <1>2, <2>2 DEF BalanceIn, In
  <2>3. CASE c = "notional" BY <1>1, <1>2, <2>3 DEF BalanceIn, In
  <2>4. CASE c = "held"
    <3>1. BalanceIn(d, c, h) = (b.account[h].available + av(h)) + (b.account[h].locked + lk(h))
      BY <1>1, <2>1, <2>4 DEF BalanceIn
    <3>2. BalanceIn(b, c, h) = b.account[h].available + b.account[h].locked BY <2>4 DEF BalanceIn
    <3>3. av(h) + lk(h) = In(r, c, h) BY <1>2, <2>4 DEF In, PostedRow, AnyRow
    <3>4. /\ av(h) \in Int /\ lk(h) \in Int /\ b.account[h].available \in Int
          /\ b.account[h].locked \in Int
      BY <1>4, <1>6
    <3> QED BY <3>1, <3>2, <3>3, <3>4
  <2> QED BY <2>2, <2>3, <2>4 DEF Column
<1>10. /\ d.orders = b.orders /\ d.bets = b.bets /\ d.opened = b.opened
       /\ d.posted = Append(b.posted, r)
  BY <1>1, <1>3
<1> QED BY <1>8, <1>9, <1>10 DEF d

LEMMA PostingOfTwo ==
  ASSUME NEW b, BookShape(b), NEW r \in PostedRow, NEW s \in PostedRow
  PROVE  LET d == Posting(b, <<r, s>>)
         IN  /\ BookShape(d) /\ d.orders = b.orders /\ d.bets = b.bets /\ d.opened = b.opened
             /\ d.posted = Append(Append(b.posted, r), s)
             /\ \A c \in Column, h \in Holder :
                  BalanceIn(d, c, h) = BalanceIn(b, c, h) + In(r, c, h) + In(s, c, h)
<1> DEFINE d == Posting(b, <<r, s>>)
           av(h) == SumOf(h, <<r, s>>, LAMBDA y : y.available)
           lk(h) == SumOf(h, <<r, s>>, LAMBDA y : y.locked)
           fl == Sum(<<r, s>>, LAMBDA y : y.float)
           nt == Sum(<<r, s>>, LAMBDA y : y.notional)
           acc == [h \in Holder |-> [available |-> b.account[h].available + av(h),
                                     locked    |-> b.account[h].locked + lk(h)]]
           more == b.posted \o <<r, s>>
           F == b.float + fl
           N == b.notional + nt
<1>0. d = [b EXCEPT !.posted = more, !.account = acc, !.float = F, !.notional = N] BY DEF Posting
<1>1. d = [posted |-> more, orders |-> b.orders, bets |-> b.bets, account |-> acc,
           float |-> F, notional |-> N, opened |-> b.opened]
  <2> HIDE DEF d, more, acc, F, N
  <2> QED BY <1>0 DEF BookShape
<1>2. /\ \A h : /\ av(h) = (IF r.holder = h THEN r.available ELSE 0) + (IF s.holder = h THEN s.available ELSE 0)
                /\ lk(h) = (IF r.holder = h THEN r.locked ELSE 0) + (IF s.holder = h THEN s.locked ELSE 0)
      /\ fl = r.float + s.float /\ nt = r.notional + s.notional
  BY AmountsOfTwo
<1>3. b.posted \o <<r, s>> = Append(Append(b.posted, r), s) /\ Append(Append(b.posted, r), s) \in Seq(PostedRow)
  BY AppendIsConcat, AppendProperties DEF BookShape
<1> HIDE DEF av, lk, fl, nt, d
<1>4. \A h : av(h) \in Int /\ lk(h) \in Int BY <1>2 DEF PostedRow, AnyRow
<1>5. fl \in Int /\ nt \in Int BY <1>2 DEF PostedRow, AnyRow
<1>6. \A h \in Holder : b.account[h].available \in Int /\ b.account[h].locked \in Int BY DEF BookShape
<1>7. acc \in [Holder -> [available : Int, locked : Int]] BY <1>4, <1>6
<1>8. BookShape(d)
  <2> HIDE DEF acc
  <2> QED BY <1>1, <1>3, <1>5, <1>7 DEF BookShape
<1>9. ASSUME NEW c \in Column, NEW h \in Holder PROVE BalanceIn(d, c, h) = BalanceIn(b, c, h) + In(r, c, h) + In(s, c, h)
  <2>1. /\ acc[h].available = b.account[h].available + av(h)
        /\ acc[h].locked = b.account[h].locked + lk(h)
    OBVIOUS
  <2> HIDE DEF acc
  <2>2. CASE c = "float" BY <1>1, <1>2, <2>2 DEF BalanceIn, In, PostedRow, AnyRow, BookShape
  <2>3. CASE c = "notional" BY <1>1, <1>2, <2>3 DEF BalanceIn, In, PostedRow, AnyRow, BookShape
  <2>4. CASE c = "held"
    <3>1. BalanceIn(d, c, h) = (b.account[h].available + av(h)) + (b.account[h].locked + lk(h))
      BY <1>1, <2>1, <2>4 DEF BalanceIn
    <3>2. BalanceIn(b, c, h) = b.account[h].available + b.account[h].locked BY <2>4 DEF BalanceIn
    <3>3. av(h) + lk(h) = In(r, c, h) + In(s, c, h) BY <1>2, <2>4 DEF In, PostedRow, AnyRow
    <3>4. /\ av(h) \in Int /\ lk(h) \in Int /\ b.account[h].available \in Int
          /\ b.account[h].locked \in Int
      BY <1>4, <1>6
    <3>5. In(r, c, h) \in Int /\ In(s, c, h) \in Int BY InIsInt
    <3> QED BY <3>1, <3>2, <3>3, <3>4, <3>5
  <2> QED BY <2>2, <2>3, <2>4 DEF Column
<1>10. /\ d.orders = b.orders /\ d.bets = b.bets /\ d.opened = b.opened
       /\ d.posted = Append(Append(b.posted, r), s)
  BY <1>1, <1>3
<1> QED BY <1>8, <1>9, <1>10 DEF d

(* The weekly standings: what is posted *)

\* Rounding keeps the integers, whatever their signs.
LEMMA RoundedIsInt ==
  ASSUME NEW n \in Int, NEW d \in Int, d # 0
  PROVE  DivideRoundHalfEven(n, d) \in Int
<1>1. Magnitude(n) \in Nat /\ Magnitude(d) \in Nat \ {0} BY DEF Magnitude
<1> DEFINE m == Magnitude(n)
           e == Magnitude(d)
<1> HIDE DEF m, e
<1>2. m \div e \in Int /\ m % e \in Int BY <1>1 DEF m, e
<1>3. DivideRoundHalfEven(n, d) =
        LET up == 2 * (m % e) > e \/ (2 * (m % e) = e /\ (m \div e) % 2 # 0)
            q == IF up THEN m \div e + 1 ELSE m \div e
        IN  IF (n < 0) # (d < 0) THEN -q ELSE q
  BY DEF DivideRoundHalfEven, m, e
<1> QED BY <1>2, <1>3

LEMMA PriceIsInt ==
  ASSUME NEW float \in Int, NEW notional \in Int
  PROVE  SharePrice(float, notional) \in Int
<1>1. CASE float = 0 BY <1>1, UnitAssumption DEF SharePrice
<1>2. CASE float # 0
  <2>1. notional * Unit \in Int BY UnitAssumption
  <2>2. DivideRoundHalfEven(notional * Unit, float) \in Int
    <3> DEFINE n == notional * Unit
    <3>1. n \in Int BY <2>1
    <3> HIDE DEF n
    <3> QED BY <1>2, <3>1, RoundedIsInt DEF n
  <2> QED BY <1>2, <2>2 DEF SharePrice
<1> QED BY <1>1, <1>2

LEMMA WorthIsInt ==
  ASSUME NEW holdings \in Int, NEW price \in Int
  PROVE  Worth(holdings, price) \in Int
<1> DEFINE n == holdings * price
<1>1. n \in Int OBVIOUS
<1> HIDE DEF n
<1>2. DivideRoundHalfEven(n, Unit) \in Int BY <1>1, UnitAssumption, RoundedIsInt
<1> QED BY <1>2 DEF Worth, n

\* A settlement row carries what the wager comes to, and its reversal takes it back.
LEMMA SettledCarries ==
  ASSUME BookShape(book), hour \in Nat,
         NEW x \in Bet, book.bets[x].owner \in Holder, NEW status \in {"won", "lost", "refunded"}
  PROVE  LET r == Settled(x, status)
             w == [book.bets[x] EXCEPT !.status = status]
         IN  /\ r \in PostedRow /\ r.kind = "settlement" /\ r.cause = x /\ r.at = hour
             /\ w \in BetRow
             /\ \A c \in Column, h \in Holder : In(r, c, h) = NetIn(w, c, h)
<1> DEFINE r == Settled(x, status)
           w == [book.bets[x] EXCEPT !.status = status]
           av == CASE status = "won" -> Stake + Yield [] status = "lost" -> 0 [] status = "refunded" -> Stake
           fl == CASE status = "won" -> Yield [] status = "lost" -> -Stake [] status = "refunded" -> 0
<1>0. book.bets[x] \in BetRow BY DEF BookShape
<1>1. r = [at |-> hour, holder |-> book.bets[x].owner, kind |-> "settlement", cause |-> x,
           available |-> av, locked |-> -Stake, float |-> fl, notional |-> 0]
  BY DEF Settled, Entry
<1>2. w \in BetRow /\ w.status = status /\ w.owner = book.bets[x].owner BY <1>0 DEF BetRow
<1>3. Stake \in Nat /\ Yield \in Nat /\ x \in Nat BY StandingsAssumption
<1>4. /\ av \in Int /\ fl \in Int /\ fl = NetOf(status) /\ av + (-Stake) = NetOf(status)
  BY <1>3 DEF NetOf
<1> HIDE DEF r, w, av, fl
<1>5. r \in PostedRow BY <1>1, <1>3, <1>4 DEF PostedRow, AnyRow, OfBets
<1>6. ASSUME NEW c \in Column, NEW h \in Holder PROVE In(r, c, h) = NetIn(w, c, h)
  BY <1>1, <1>2, <1>4, <1>6 DEF In, NetIn, Column
<1> QED BY <1>1, <1>2, <1>5, <1>6 DEF r, w

LEMMA UndoneTakesBack ==
  ASSUME BookShape(book), hour \in Nat,
         NEW x \in Bet, book.bets[x].owner \in Holder, book.bets[x].status \in {"won", "lost", "refunded"}
  PROVE  LET r == Undone(x)
         IN  /\ r \in PostedRow /\ r.kind = "settlement_reversal" /\ r.cause = x /\ r.at = hour
             /\ \A c \in Column, h \in Holder : In(r, c, h) = -NetIn(book.bets[x], c, h)
<1> DEFINE status == book.bets[x].status
           s == Settled(x, status)
           r == Undone(x)
           w == [book.bets[x] EXCEPT !.status = status]
<1>1. w = book.bets[x] /\ status \in {"won", "lost", "refunded"} BY DEF BookShape, BetRow
<1>3. r = [s EXCEPT !.kind = "settlement_reversal", !.available = -@, !.locked = -@, !.float = -@]
  BY DEF Undone
<1>4. s.notional = 0 BY DEF Settled, Entry
<1> HIDE DEF status
<1>2. /\ s \in PostedRow /\ s.cause = x /\ s.at = hour
      /\ \A c \in Column, h \in Holder : In(s, c, h) = NetIn(w, c, h)
  BY <1>1, SettledCarries
<1> HIDE DEF r, s, w
<1>a. /\ s.available \in Int /\ s.locked \in Int /\ s.float \in Int
      /\ s = [at |-> s.at, holder |-> s.holder, kind |-> s.kind, cause |-> s.cause,
              available |-> s.available, locked |-> s.locked, float |-> s.float, notional |-> s.notional]
      /\ s.at \in Nat /\ s.holder \in Holder /\ s.cause \in Nat /\ s.notional \in Int
  BY <1>2 DEF PostedRow, AnyRow
<1>b. r = [at |-> s.at, holder |-> s.holder, kind |-> "settlement_reversal", cause |-> s.cause,
           available |-> -s.available, locked |-> -s.locked, float |-> -s.float, notional |-> s.notional]
  BY <1>3, <1>a
<1>5. /\ r.kind = "settlement_reversal" /\ r.cause = s.cause /\ r.at = s.at /\ r.holder = s.holder
      /\ r.available = -s.available /\ r.locked = -s.locked /\ r.float = -s.float
      /\ r.notional = s.notional /\ r \in PostedRow
  BY <1>2, <1>a, <1>b DEF PostedRow, AnyRow, OfBets
<1>6. ASSUME NEW c \in Column, NEW h \in Holder PROVE In(r, c, h) = -In(s, c, h)
  BY <1>a, <1>4, <1>5, <1>6 DEF In, Column
<1> QED BY <1>1, <1>2, <1>5, <1>6 DEF r

\* A wager's row rewritten.
BetRewritten(e, x, w) == [e EXCEPT !.bets[x] = w]

LEMMA RewrittenIs ==
  ASSUME NEW e, BookShape(e), NEW x \in Bet, NEW w \in BetRow
  PROVE  LET d == BetRewritten(e, x, w)
         IN  /\ BookShape(d) /\ d.posted = e.posted /\ d.orders = e.orders /\ d.opened = e.opened
             /\ \A y \in Bet : d.bets[y] = IF y = x THEN w ELSE e.bets[y]
             /\ \A c \in Column, h \in Holder : BalanceIn(d, c, h) = BalanceIn(e, c, h)
<1> DEFINE d == BetRewritten(e, x, w)
           bets == [e.bets EXCEPT ![x] = w]
<1>0. d = [e EXCEPT !.bets = bets] BY DEF BetRewritten
<1>1. bets \in [Bet -> BetRow] /\ \A y \in Bet : bets[y] = IF y = x THEN w ELSE e.bets[y]
  BY DEF BookShape
<1> HIDE DEF d, bets
<1>2. d = [posted |-> e.posted, orders |-> e.orders, bets |-> bets, account |-> e.account,
           float |-> e.float, notional |-> e.notional, opened |-> e.opened]
  BY <1>0 DEF BookShape
<1>3. BookShape(d) BY <1>1, <1>2 DEF BookShape
<1>4. \A c \in Column, h \in Holder : BalanceIn(d, c, h) = BalanceIn(e, c, h)
  BY <1>2 DEF BalanceIn, Column
<1> QED BY <1>1, <1>2, <1>3, <1>4 DEF d

\* A row of a wager, or two, with the wager rewritten to match.
OneRowMatches(r, old, w) ==
  \A c \in Column, h \in Holder : In(r, c, h) = NetIn(w, c, h) - NetIn(old, c, h)

TwoRowsMatch(r, s, old, w) ==
  \A c \in Column, h \in Holder : In(r, c, h) + In(s, c, h) = NetIn(w, c, h) - NetIn(old, c, h)

IsRowOf(r, x, now) == r \in PostedRow /\ r.kind \in OfBets /\ r.cause = x /\ r.at = now

IsBetSince(w, b, now) ==
  w \in BetRow /\ w.status # "none" /\ w.owner \in Holder /\ b.opened <= w.at /\ w.at <= now

LEMMA NetIsInt ==
  ASSUME NEW w, NEW c, NEW h
  PROVE  NetIn(w, c, h) \in Int
BY StandingsAssumption DEF NetIn, NetOf

LEMMA LaterRow ==
  ASSUME NEW b, NEW now \in Nat, BookShape(b), BookIsTimely(b, now), NEW r \in PostedRow, r.at = now
  PROVE  \A k \in 1..Len(Append(b.posted, r)) :
           b.opened <= Append(b.posted, r)[k].at /\ Append(b.posted, r)[k].at <= now
<1> DEFINE more == Append(b.posted, r)
           n == Len(b.posted)
<1>1. /\ n \in Nat /\ Len(more) = n + 1
      /\ more[n + 1] = r /\ \A k \in 1..n : more[k] = b.posted[k]
  BY AppendProperties DEF BookShape
<1>2. b.opened <= now BY DEF BookIsTimely
<1>3. \A k \in 1..n : b.opened <= b.posted[k].at /\ b.posted[k].at <= now BY DEF BookIsTimely
<1> HIDE DEF more, n
<1>4. \A k \in 1..Len(more) : k \in 1..n \/ k = n + 1 BY <1>1
<1>5. \A k \in 1..Len(more) : b.opened <= more[k].at /\ more[k].at <= now BY <1>1, <1>2, <1>3, <1>4
<1> QED BY <1>5 DEF more

\* A later book has the rows of an earlier one, and then its own; a wager keeps its
\* owner and its hour.
Grows(s, t, now) ==
  /\ Len(s) \in Nat /\ Len(t) \in Nat /\ Len(s) <= Len(t)
  /\ \A k \in 1..Len(s) : t[k] = s[k]
  /\ \A k \in Len(s) + 1..Len(t) : t[k].at = now

KeepsBet(old, w, now) ==
  \/ w = old
  \/ old.status = "none" /\ w.at = now
  \/ old.status # "none" /\ w.status # "none" /\ w.owner = old.owner /\ w.at = old.at

Continues(b, d, now) ==
  /\ d.opened = b.opened
  /\ Grows(b.posted, d.posted, now) /\ Grows(b.orders, d.orders, now)
  /\ \A x \in Bet : KeepsBet(b.bets[x], d.bets[x], now)

LEMMA GrowsByNone ==
  ASSUME NEW S, NEW s \in Seq(S), NEW now
  PROVE  Grows(s, s, now)
<1>1. Len(s) \in Nat OBVIOUS
<1> QED BY <1>1 DEF Grows

LEMMA GrowsByOne ==
  ASSUME NEW S, NEW s \in Seq(S), NEW r \in S, NEW now, r.at = now
  PROVE  Append(s, r) \in Seq(S) /\ Grows(s, Append(s, r), now)
<1> DEFINE t == Append(s, r)
           n == Len(s)
<1>1. /\ t \in Seq(S) /\ n \in Nat /\ Len(t) = n + 1 /\ t[n + 1] = r
      /\ \A k \in 1..n : t[k] = s[k]
  BY AppendProperties
<1> HIDE DEF t, n
<1>2. n + 1 \in Nat /\ n <= n + 1 /\ \A k \in n + 1..n + 1 : k = n + 1 BY <1>1
<1>3. /\ Len(t) \in Nat /\ n <= Len(t) /\ \A k \in n + 1..Len(t) : t[k].at = now
  BY <1>1, <1>2
<1> QED BY <1>1, <1>3 DEF Grows, t, n

LEMMA GrowsTwice ==
  ASSUME NEW s, NEW t, NEW u, NEW now, Grows(s, t, now), Grows(t, u, now)
  PROVE  Grows(s, u, now)
<1>1. /\ Len(s) \in Nat /\ Len(t) \in Nat /\ Len(u) \in Nat /\ Len(s) <= Len(t) /\ Len(t) <= Len(u)
      /\ \A k \in 1..Len(s) : t[k] = s[k]
      /\ \A k \in 1..Len(t) : u[k] = t[k]
      /\ \A k \in Len(s) + 1..Len(t) : t[k].at = now
      /\ \A k \in Len(t) + 1..Len(u) : u[k].at = now
  BY DEF Grows
<1>2. ASSUME NEW k \in 1..Len(s) PROVE u[k] = s[k]
  <2>1. k \in 1..Len(t) BY <1>1
  <2> QED BY <1>1, <2>1
<1>3. ASSUME NEW k \in Len(s) + 1..Len(u) PROVE u[k].at = now
  <2>1. k \in Len(t) + 1..Len(u) \/ (k \in Len(s) + 1..Len(t) /\ k \in 1..Len(t)) BY <1>1
  <2> QED BY <1>1, <2>1
<1>4. Len(s) <= Len(u) BY <1>1
<1> QED BY <1>1, <1>2, <1>3, <1>4 DEF Grows

LEMMA Unchanged ==
  ASSUME NEW b, BookShape(b), NEW now
  PROVE  Continues(b, b, now)
<1>1. b.posted \in Seq(PostedRow) /\ b.orders \in Seq(PostedOrder) BY DEF BookShape
<1>2. Grows(b.posted, b.posted, now) /\ Grows(b.orders, b.orders, now) BY <1>1, GrowsByNone
<1> QED BY <1>2 DEF Continues, KeepsBet

LEMMA OneRowKeeps ==
  ASSUME NEW b, NEW now \in Nat, BookIsSound(b, now), NEW x \in Bet,
         NEW r, IsRowOf(r, x, now), NEW w, IsBetSince(w, b, now), OneRowMatches(r, b.bets[x], w),
         KeepsBet(b.bets[x], w, now)
  PROVE  /\ BookIsSound(BetRewritten(Posting(b, <<r>>), x, w), now)
         /\ Continues(b, BetRewritten(Posting(b, <<r>>), x, w), now)
<1> DEFINE e == Posting(b, <<r>>)
           d == BetRewritten(e, x, w)
           more == Append(b.posted, r)
<1>0. BookShape(b) /\ r \in PostedRow /\ w \in BetRow BY DEF BookIsSound, IsRowOf, IsBetSince
<1>1. /\ BookShape(e) /\ e.orders = b.orders /\ e.bets = b.bets /\ e.opened = b.opened /\ e.posted = more
      /\ \A c \in Column, h \in Holder : BalanceIn(e, c, h) = BalanceIn(b, c, h) + In(r, c, h)
  BY <1>0, PostingOfOne
<1> HIDE DEF e
<1>2. /\ BookShape(d) /\ d.posted = e.posted /\ d.orders = e.orders /\ d.opened = e.opened
      /\ \A y \in Bet : d.bets[y] = IF y = x THEN w ELSE e.bets[y]
      /\ \A c \in Column, h \in Holder : BalanceIn(d, c, h) = BalanceIn(e, c, h)
  BY <1>0, <1>1, RewrittenIs
<1> HIDE DEF d
<1>3. ASSUME NEW c \in Column, NEW h \in Holder
      PROVE  /\ BalanceIn(d, c, h) = AllIn(d.posted, c, h)
             /\ \A y \in Bet : BetsIn(d.posted, {y}, c, h) = NetIn(d.bets[y], c, h)
  <2>1. b.posted \in Seq(PostedRow) BY <1>0 DEF BookShape
  <2>2. AllIn(more, c, h) = AllIn(b.posted, c, h) + In(r, c, h) BY <1>0, <2>1, RowAddsToAll
  <2>3. BalanceIn(b, c, h) = AllIn(b.posted, c, h) BY DEF BookIsSound, BookAddsUp
  <2>4. ASSUME NEW y \in Bet PROVE BetsIn(more, {y}, c, h) = NetIn(d.bets[y], c, h)
    <3> DEFINE X == {y}
    <3>1. BetsIn(b.posted, X, c, h) = NetIn(b.bets[y], c, h) BY DEF BookIsSound, BookAddsUp
    <3>2. x \in X <=> x = y OBVIOUS
    <3> HIDE DEF X
    <3>3. BetsIn(more, X, c, h) = BetsIn(b.posted, X, c, h)
            + (IF r.kind \in OfBets /\ r.cause \in X THEN In(r, c, h) ELSE 0)
      BY <1>0, <2>1, RowAdds
    <3>4. r.kind \in OfBets /\ r.cause = x BY DEF IsRowOf
    <3>5. NetIn(b.bets[y], c, h) \in Int /\ NetIn(w, c, h) \in Int BY NetIsInt
    <3>6. CASE y = x
      <4>1. BetsIn(more, X, c, h) = NetIn(b.bets[y], c, h) + In(r, c, h) BY <3>1, <3>2, <3>3, <3>4, <3>6
      <4>2. In(r, c, h) = NetIn(w, c, h) - NetIn(b.bets[y], c, h) BY <3>6 DEF OneRowMatches
      <4>3. d.bets[y] = w BY <1>2, <3>6
      <4> QED BY <3>5, <4>1, <4>2, <4>3 DEF X
    <3>7. CASE y # x
      <4>1. BetsIn(more, X, c, h) = NetIn(b.bets[y], c, h) BY <3>1, <3>2, <3>3, <3>4, <3>5, <3>7
      <4>2. d.bets[y] = b.bets[y] BY <1>1, <1>2, <3>7
      <4> QED BY <4>1, <4>2 DEF X
    <3> QED BY <3>6, <3>7
  <2> QED BY <1>1, <1>2, <2>2, <2>3, <2>4
<1>4. BookAddsUp(d) BY <1>3 DEF BookAddsUp
<1>5. BookIsTimely(d, now)
  <2>1. BookIsTimely(b, now) /\ r.at = now BY DEF BookIsSound, IsRowOf
  <2>2. \A k \in 1..Len(more) : b.opened <= more[k].at /\ more[k].at <= now BY <1>0, <2>1, LaterRow
  <2> HIDE DEF more
  <2>3. ASSUME NEW y \in Bet, d.bets[y].status # "none"
        PROVE  b.opened <= d.bets[y].at /\ d.bets[y].at <= now /\ d.bets[y].owner \in Holder
    BY <1>1, <1>2, <2>1, <2>3 DEF BookIsTimely, IsBetSince
  <2> QED BY <1>1, <1>2, <2>1, <2>2, <2>3 DEF BookIsTimely
<1>6. Continues(b, d, now)
  <2>1. b.posted \in Seq(PostedRow) /\ b.orders \in Seq(PostedOrder) /\ r.at = now
    BY <1>0 DEF BookShape, IsRowOf
  <2>2. Grows(b.posted, more, now) BY <1>0, <2>1, GrowsByOne
  <2>3. Grows(b.orders, b.orders, now) BY <2>1, GrowsByNone
  <2> HIDE DEF more
  <2>4. \A y \in Bet : KeepsBet(b.bets[y], d.bets[y], now)
    <3>1. \A y \in Bet : d.bets[y] = IF y = x THEN w ELSE b.bets[y] BY <1>1, <1>2
    <3> QED BY <3>1 DEF KeepsBet
  <2> QED BY <1>1, <1>2, <2>2, <2>3, <2>4 DEF Continues
<1> QED BY <1>2, <1>4, <1>5, <1>6 DEF BookIsSound, d, e

LEMMA TwoRowsKeep ==
  ASSUME NEW b, NEW now \in Nat, BookIsSound(b, now), NEW x \in Bet,
         NEW r, IsRowOf(r, x, now), NEW s, IsRowOf(s, x, now),
         NEW w, IsBetSince(w, b, now), TwoRowsMatch(r, s, b.bets[x], w), KeepsBet(b.bets[x], w, now)
  PROVE  /\ BookIsSound(BetRewritten(Posting(b, <<r, s>>), x, w), now)
         /\ Continues(b, BetRewritten(Posting(b, <<r, s>>), x, w), now)
<1> DEFINE e == Posting(b, <<r, s>>)
           d == BetRewritten(e, x, w)
           one == Append(b.posted, r)
           more == Append(one, s)
<1>0. /\ BookShape(b) /\ r \in PostedRow /\ s \in PostedRow /\ w \in BetRow
      /\ b.posted \in Seq(PostedRow)
  BY DEF BookIsSound, IsRowOf, IsBetSince, BookShape
<1>1. /\ BookShape(e) /\ e.orders = b.orders /\ e.bets = b.bets /\ e.opened = b.opened /\ e.posted = more
      /\ \A c \in Column, h \in Holder :
           BalanceIn(e, c, h) = BalanceIn(b, c, h) + In(r, c, h) + In(s, c, h)
  BY <1>0, PostingOfTwo
<1> HIDE DEF e
<1>2. /\ BookShape(d) /\ d.posted = e.posted /\ d.orders = e.orders /\ d.opened = e.opened
      /\ \A y \in Bet : d.bets[y] = IF y = x THEN w ELSE e.bets[y]
      /\ \A c \in Column, h \in Holder : BalanceIn(d, c, h) = BalanceIn(e, c, h)
  BY <1>0, <1>1, RewrittenIs
<1> HIDE DEF d
<1>a. one \in Seq(PostedRow) BY <1>0, RowAdds
<1> HIDE DEF one
<1>3. ASSUME NEW c \in Column, NEW h \in Holder
      PROVE  /\ BalanceIn(d, c, h) = AllIn(d.posted, c, h)
             /\ \A y \in Bet : BetsIn(d.posted, {y}, c, h) = NetIn(d.bets[y], c, h)
  <2>0. In(r, c, h) \in Int /\ In(s, c, h) \in Int BY <1>0, InIsInt
  <2>1. AllIn(one, c, h) = AllIn(b.posted, c, h) + In(r, c, h) BY <1>0, RowAddsToAll DEF one
  <2>2. AllIn(more, c, h) = AllIn(one, c, h) + In(s, c, h) BY <1>0, <1>a, RowAddsToAll
  <2>3. BalanceIn(b, c, h) = AllIn(b.posted, c, h) BY DEF BookIsSound, BookAddsUp
  <2>4. ASSUME NEW y \in Bet PROVE BetsIn(more, {y}, c, h) = NetIn(d.bets[y], c, h)
    <3> DEFINE X == {y}
    <3>1. BetsIn(b.posted, X, c, h) = NetIn(b.bets[y], c, h) BY DEF BookIsSound, BookAddsUp
    <3>2. x \in X <=> x = y OBVIOUS
    <3> HIDE DEF X
    <3>3. BetsIn(one, X, c, h) = BetsIn(b.posted, X, c, h)
            + (IF r.kind \in OfBets /\ r.cause \in X THEN In(r, c, h) ELSE 0)
      BY <1>0, RowAdds DEF one
    <3>a. BetsIn(more, X, c, h) = BetsIn(one, X, c, h)
            + (IF s.kind \in OfBets /\ s.cause \in X THEN In(s, c, h) ELSE 0)
      BY <1>0, <1>a, RowAdds
    <3>4. r.kind \in OfBets /\ r.cause = x /\ s.kind \in OfBets /\ s.cause = x BY DEF IsRowOf
    <3>5. NetIn(b.bets[y], c, h) \in Int /\ NetIn(w, c, h) \in Int BY NetIsInt
    <3>6. CASE y = x
      <4>1. BetsIn(one, X, c, h) = NetIn(b.bets[y], c, h) + In(r, c, h) BY <3>1, <3>2, <3>3, <3>4, <3>6
      <4>a. BetsIn(more, X, c, h) = BetsIn(one, X, c, h) + In(s, c, h) BY <3>2, <3>a, <3>4, <3>6
      <4>2. In(r, c, h) + In(s, c, h) = NetIn(w, c, h) - NetIn(b.bets[y], c, h) BY <3>6 DEF TwoRowsMatch
      <4>3. d.bets[y] = w BY <1>2, <3>6
      <4> QED BY <2>0, <3>5, <4>1, <4>a, <4>2, <4>3 DEF X
    <3>7. CASE y # x
      <4>1. BetsIn(more, X, c, h) = NetIn(b.bets[y], c, h) BY <3>1, <3>2, <3>3, <3>a, <3>4, <3>5, <3>7
      <4>2. d.bets[y] = b.bets[y] BY <1>1, <1>2, <3>7
      <4> QED BY <4>1, <4>2 DEF X
    <3> QED BY <3>6, <3>7
  <2> QED BY <1>1, <1>2, <2>1, <2>2, <2>3, <2>4
<1>4. BookAddsUp(d) BY <1>3 DEF BookAddsUp
<1>5. BookIsTimely(d, now)
  <2>1. BookIsTimely(b, now) /\ r.at = now /\ s.at = now BY DEF BookIsSound, IsRowOf
  <2>2. \A k \in 1..Len(more) : b.opened <= more[k].at /\ more[k].at <= now
    <3> DEFINE p == [posted |-> one, orders |-> b.orders, bets |-> b.bets, account |-> b.account,
                     float |-> b.float, notional |-> b.notional, opened |-> b.opened]
    <3>1. p = [posted |-> one, orders |-> b.orders, bets |-> b.bets, account |-> b.account,
               float |-> b.float, notional |-> b.notional, opened |-> b.opened]
      OBVIOUS
    <3>2. \A k \in 1..Len(one) : b.opened <= one[k].at /\ one[k].at <= now
      BY <1>0, <2>1, LaterRow DEF one
    <3> HIDE DEF p
    <3>3. BookShape(p) /\ BookIsTimely(p, now) BY <1>0, <1>a, <2>1, <3>1, <3>2 DEF BookShape, BookIsTimely
    <3>4. p.posted = one /\ p.opened = b.opened BY <3>1
    <3>5. \A k \in 1..Len(Append(p.posted, s)) :
            p.opened <= Append(p.posted, s)[k].at /\ Append(p.posted, s)[k].at <= now
      BY <1>0, <2>1, <3>3, LaterRow
    <3> QED BY <3>4, <3>5
  <2> HIDE DEF more
  <2>3. ASSUME NEW y \in Bet, d.bets[y].status # "none"
        PROVE  b.opened <= d.bets[y].at /\ d.bets[y].at <= now /\ d.bets[y].owner \in Holder
    BY <1>1, <1>2, <2>1, <2>3 DEF BookIsTimely, IsBetSince
  <2> QED BY <1>1, <1>2, <2>1, <2>2, <2>3 DEF BookIsTimely
<1>6. Continues(b, d, now)
  <2>1. b.orders \in Seq(PostedOrder) /\ r.at = now /\ s.at = now BY <1>0 DEF BookShape, IsRowOf
  <2>2. one \in Seq(PostedRow) /\ Grows(b.posted, one, now) BY <1>0, <2>1, GrowsByOne DEF one
  <2> HIDE DEF one
  <2>3. Grows(one, more, now) BY <1>0, <2>1, <2>2, GrowsByOne
  <2> HIDE DEF more
  <2>4. Grows(b.posted, more, now) BY <2>2, <2>3, GrowsTwice
  <2>5. Grows(b.orders, b.orders, now) BY <2>1, GrowsByNone
  <2>6. \A y \in Bet : KeepsBet(b.bets[y], d.bets[y], now)
    <3>1. \A y \in Bet : d.bets[y] = IF y = x THEN w ELSE b.bets[y] BY <1>1, <1>2
    <3> QED BY <3>1 DEF KeepsBet
  <2> QED BY <1>1, <1>2, <2>4, <2>5, <2>6 DEF Continues
<1> QED BY <1>2, <1>4, <1>5, <1>6 DEF BookIsSound, d, e

LEMMA FirstIs ==
  ASSUME NEW S, S \subseteq Nat, S # {}
  PROVE  First(S) \in S /\ \A y \in S : First(S) <= y
<1>1. \E x \in S : \A y \in S : x <= y BY LeastNatural
<1> QED BY <1>1 DEF First

LEMMA StandingsStart == StandingsInit => StandingsInv
<1> SUFFICES ASSUME StandingsInit PROVE StandingsInv OBVIOUS
<1>1. hour \in Nat
  <2>1. Instant \subseteq Nat /\ Instant # {} BY StandingsAssumption
  <2> QED BY <2>1, FirstIs DEF StandingsInit
<1>2. /\ book.posted = <<>> /\ book.orders = <<>> /\ book.bets = [x \in Bet |-> NoBet]
      /\ book.account = [h \in Holder |-> [available |-> 0, locked |-> 0]]
      /\ book.float = 0 /\ book.notional = 0 /\ book.opened = hour
      /\ book = [posted |-> book.posted, orders |-> book.orders, bets |-> book.bets,
                 account |-> book.account, float |-> book.float, notional |-> book.notional,
                 opened |-> book.opened]
  BY DEF StandingsInit
<1>3. BookShape(book)
  <2>1. <<>> \in Seq(PostedRow) /\ <<>> \in Seq(PostedOrder) OBVIOUS
  <2>2. [x \in Bet |-> NoBet] \in [Bet -> BetRow] BY DEF NoBet, BetRow
  <2> QED BY <1>1, <1>2, <2>1, <2>2 DEF BookShape
<1>4. BookAddsUp(book)
  <2>1. ASSUME NEW c \in Column, NEW h \in Holder, NEW x \in Bet
        PROVE  BalanceIn(book, c, h) = 0 /\ NetIn(book.bets[x], c, h) = 0
    <3>1. book.bets[x].status = "none" /\ book.account[h].available = 0 /\ book.account[h].locked = 0
      BY <1>2 DEF NoBet
    <3> QED BY <1>2, <3>1 DEF BalanceIn, Column, NetIn, NetOf
  <2>2. ASSUME NEW c \in Column, NEW h \in Holder PROVE BalanceIn(book, c, h) = 0
    BY <1>2 DEF BalanceIn, Column
  <2>3. ASSUME NEW c, NEW h, NEW X
        PROVE  AllIn(book.posted, c, h) = 0 /\ BetsIn(book.posted, X, c, h) = 0
    <3>1. Len(book.posted) = 0 BY <1>2
    <3> DEFINE f == [k \in 1..Len(book.posted) |-> In(book.posted[k], c, h)]
               g == [k \in 1..Len(book.posted) |->
                      IF book.posted[k].kind \in OfBets /\ book.posted[k].cause \in X
                      THEN In(book.posted[k], c, h) ELSE 0]
    <3>2. AllIn(book.posted, c, h) = Total(f, 0) /\ BetsIn(book.posted, X, c, h) = Total(g, 0)
      BY <3>1 DEF AllIn, BetsIn
    <3> HIDE DEF f, g
    <3>3. (\A i \in 1..0 : f[i] = 0) /\ (\A i \in 1..0 : g[i] = 0) OBVIOUS
    <3> QED BY <3>2, <3>3, TotalOfZeros
  <2> QED BY <2>1, <2>2, <2>3 DEF BookAddsUp
<1>5. BookIsTimely(book, hour)
  <2>1. Len(book.posted) = 0 /\ Len(book.orders) = 0 BY <1>2
  <2>2. \A x \in Bet : book.bets[x].status = "none" BY <1>2 DEF NoBet
  <2> QED BY <1>1, <1>2, <2>1, <2>2 DEF BookIsTimely
<1> QED BY <1>1, <1>3, <1>4, <1>5 DEF StandingsInv, BookIsSound

\* Time passes over a book that stays.
LEMMA LaterIsSound ==
  ASSUME NEW b, NEW now \in Nat, NEW later \in Nat, now <= later, BookIsSound(b, now)
  PROVE  BookIsSound(b, later)
<1>0. b.posted \in Seq(PostedRow) /\ b.orders \in Seq(PostedOrder) BY DEF BookIsSound, BookShape
<1>a. /\ \A k \in 1..Len(b.posted) : b.posted[k] \in PostedRow
      /\ \A k \in 1..Len(b.orders) : b.orders[k] \in PostedOrder
  BY <1>0
<1>1. \A k \in 1..Len(b.posted) : b.posted[k].at \in Nat BY <1>a DEF PostedRow, AnyRow
<1>2. \A k \in 1..Len(b.orders) : b.orders[k].at \in Nat BY <1>a DEF PostedOrder
<1>3. \A x \in Bet : b.bets[x].at \in Nat BY DEF BookIsSound, BookShape, BetRow
<1>4. b.opened \in Nat BY DEF BookIsSound, BookShape
<1>5. BookIsTimely(b, later) BY <1>1, <1>2, <1>3, <1>4 DEF BookIsSound, BookIsTimely
<1> QED BY <1>5 DEF BookIsSound

LEMMA ClockMovesOn ==
  ASSUME StandingsInv, ClockMoves
  PROVE  hour' \in Nat /\ hour < hour' /\ book' = book
<1>1. Instant \subseteq Nat BY StandingsAssumption
<1> DEFINE S == {t \in Instant : t > hour}
<1>2. S \subseteq Nat /\ S # {} /\ hour' = First(S) /\ book' = book BY <1>1 DEF ClockMoves
<1>3. \A t \in S : t > hour OBVIOUS
<1> HIDE DEF S
<1> QED BY <1>2, <1>3, FirstIs DEF StandingsInv

LEMMA OrderKeeps ==
  ASSUME StandingsInv, NEW h \in Holder, NEW value \in Purchase, PostOrder(h, value)
  PROVE  StandingsInv' /\ hour' = hour /\ Continues(book, book', hour)
<1> DEFINE price  == SharePrice(book.float, book.notional)
           shares == OrderShares("value", value, price)
           r      == Entry(h, "share_order", Len(book.orders) + 1, shares, 0, shares, value)
           e      == Posting(book, <<r>>)
           o      == [at |-> hour, holder |-> h, value |-> value]
           orders == Append(book.orders, o)
           d      == [e EXCEPT !.orders = Append(e.orders, o)]
<1>0. BookIsSound(book, hour) /\ BookShape(book) /\ hour \in Nat BY DEF StandingsInv, BookIsSound
<1>1. price > 0 /\ book' = d /\ hour' = hour BY DEF PostOrder, Write
<1>2. price \in Int BY <1>0, PriceIsInt DEF BookShape
<1>3. value \in Int BY StandingsAssumption
<1>4. shares \in Int
  <2> DEFINE n == value * Unit
  <2>1. n \in Int BY <1>3, UnitAssumption
  <2>2. shares = DivideRoundHalfEven(n, price) BY DEF OrderShares
  <2> HIDE DEF n, price, shares
  <2> QED BY <1>1, <1>2, <2>1, <2>2, RoundedIsInt
<1> HIDE DEF price, shares
<1>5. /\ r = [at |-> hour, holder |-> h, kind |-> "share_order", cause |-> Len(book.orders) + 1,
              available |-> shares, locked |-> 0, float |-> shares, notional |-> value]
      /\ Len(book.orders) + 1 \in Nat
  BY <1>0 DEF Entry, BookShape
<1> HIDE DEF r
<1>6. r \in PostedRow /\ r.kind \notin OfBets /\ r.at = hour BY <1>0, <1>3, <1>4, <1>5 DEF PostedRow, AnyRow, OfBets
<1> HIDE DEF e
<1>7. /\ BookShape(e) /\ e.orders = book.orders /\ e.bets = book.bets /\ e.opened = book.opened
      /\ e.posted = Append(book.posted, r)
      /\ \A c \in Column, m \in Holder : BalanceIn(e, c, m) = BalanceIn(book, c, m) + In(r, c, m)
  BY <1>0, <1>6, PostingOfOne DEF e
<1>8. /\ orders \in Seq(PostedOrder) /\ Len(orders) = Len(book.orders) + 1 /\ Len(book.orders) \in Nat
      /\ orders[Len(book.orders) + 1] = o /\ \A k \in 1..Len(book.orders) : orders[k] = book.orders[k]
  <2>1. o \in PostedOrder /\ book.orders \in Seq(PostedOrder) BY <1>0, <1>3 DEF PostedOrder, BookShape
  <2> HIDE DEF o
  <2> QED BY <2>1, AppendProperties
<1>a. d = [e EXCEPT !.orders = orders] BY <1>7
<1> HIDE DEF orders, d
<1>9. d = [posted |-> e.posted, orders |-> orders, bets |-> e.bets, account |-> e.account,
           float |-> e.float, notional |-> e.notional, opened |-> e.opened]
  BY <1>7, <1>a DEF BookShape
<1>10. BookShape(d) BY <1>7, <1>8, <1>9 DEF BookShape
<1>11. BookAddsUp(d)
  <2>1. book.posted \in Seq(PostedRow) BY <1>0 DEF BookShape
  <2>2. ASSUME NEW c \in Column, NEW m \in Holder
        PROVE  /\ BalanceIn(d, c, m) = AllIn(d.posted, c, m)
               /\ \A x \in Bet : BetsIn(d.posted, {x}, c, m) = NetIn(d.bets[x], c, m)
    <3>1. AllIn(d.posted, c, m) = AllIn(book.posted, c, m) + In(r, c, m)
      BY <1>6, <1>7, <1>9, <2>1, RowAddsToAll
    <3>2. BalanceIn(d, c, m) = BalanceIn(e, c, m) BY <1>9 DEF BalanceIn, Column
    <3>3. BalanceIn(book, c, m) = AllIn(book.posted, c, m) BY <1>0 DEF BookIsSound, BookAddsUp
    <3>4. ASSUME NEW x \in Bet PROVE BetsIn(d.posted, {x}, c, m) = NetIn(d.bets[x], c, m)
      <4> DEFINE X == {x}
      <4>1. BetsIn(book.posted, X, c, m) = NetIn(book.bets[x], c, m) BY <1>0 DEF BookIsSound, BookAddsUp
      <4> HIDE DEF X
      <4>2. BetsIn(d.posted, X, c, m) = BetsIn(book.posted, X, c, m)
              + (IF r.kind \in OfBets /\ r.cause \in X THEN In(r, c, m) ELSE 0)
        BY <1>6, <1>7, <1>9, <2>1, RowAdds
      <4>3. NetIn(book.bets[x], c, m) \in Int BY NetIsInt
      <4>4. d.bets[x] = book.bets[x] BY <1>7, <1>9
      <4>5. BetsIn(d.posted, X, c, m) = NetIn(d.bets[x], c, m) BY <1>6, <4>1, <4>2, <4>3, <4>4
      <4> QED BY <4>5 DEF X
    <3> QED BY <1>7, <3>1, <3>2, <3>3, <3>4
  <2> QED BY <2>2 DEF BookAddsUp
<1>12. BookIsTimely(d, hour)
  <2>1. BookIsTimely(book, hour) BY <1>0 DEF BookIsSound
  <2>2. \A k \in 1..Len(d.posted) : d.opened <= d.posted[k].at /\ d.posted[k].at <= hour
    BY <1>0, <1>6, <1>7, <1>9, <2>1, LaterRow
  <2>3. ASSUME NEW k \in 1..Len(d.orders) PROVE d.opened <= d.orders[k].at /\ d.orders[k].at <= hour
    <3>1. k \in 1..Len(book.orders) \/ k = Len(book.orders) + 1 BY <1>8, <1>9, <2>3
    <3>2. book.opened \in Nat /\ book.opened <= hour BY <1>0, <2>1 DEF BookShape, BookIsTimely
    <3> QED BY <1>0, <1>7, <1>8, <1>9, <2>1, <3>1, <3>2 DEF BookIsTimely
  <2> QED BY <1>7, <1>9, <2>1, <2>2, <2>3 DEF BookIsTimely
<1>13. Continues(book, d, hour)
  <2>1. /\ book.posted \in Seq(PostedRow) /\ book.orders \in Seq(PostedOrder)
        /\ o \in PostedOrder /\ o.at = hour
    BY <1>0, <1>3 DEF PostedOrder, BookShape
  <2> HIDE DEF o
  <2>2. Grows(book.posted, Append(book.posted, r), hour) BY <1>6, <2>1, GrowsByOne
  <2>3. Grows(book.orders, orders, hour) BY <2>1, GrowsByOne DEF orders
  <2>4. d.posted = Append(book.posted, r) /\ d.orders = orders BY <1>7, <1>9
  <2>5. d.opened = book.opened /\ d.bets = book.bets BY <1>7, <1>9
  <2> QED BY <2>2, <2>3, <2>4, <2>5 DEF Continues, KeepsBet
<1> QED BY <1>0, <1>1, <1>10, <1>11, <1>12, <1>13 DEF StandingsInv, BookIsSound

LEMMA LockKeeps ==
  ASSUME StandingsInv, NEW h \in Holder, NEW x \in Bet, PostLock(h, x)
  PROVE  StandingsInv' /\ hour' = hour /\ Continues(book, book', hour)
<1> DEFINE r == Entry(h, "wager_lock", x, -Stake, Stake, 0, 0)
           w == [owner |-> h, status |-> "open", at |-> hour]
<1>0. BookIsSound(book, hour) /\ hour \in Nat BY DEF StandingsInv
<1>1. book' = BetRewritten(Posting(book, <<r>>), x, w) /\ hour' = hour /\ book.bets[x].status = "none"
  BY DEF PostLock, Write, BetRewritten
<1>2. Stake \in Nat /\ x \in Nat BY StandingsAssumption
<1>3. r = [at |-> hour, holder |-> h, kind |-> "wager_lock", cause |-> x, available |-> -Stake,
           locked |-> Stake, float |-> 0, notional |-> 0]
  BY DEF Entry
<1> HIDE DEF r
<1>4. IsRowOf(r, x, hour) BY <1>0, <1>2, <1>3 DEF IsRowOf, PostedRow, AnyRow, OfBets
<1>5. w.status = "open" /\ IsBetSince(w, book, hour)
  BY <1>0 DEF IsBetSince, BetRow, BookIsSound, BookIsTimely
<1>a. KeepsBet(book.bets[x], w, hour) BY <1>1 DEF KeepsBet
<1> HIDE DEF w
<1>6. \A c \in Column, m \in Holder : In(r, c, m) = 0 /\ NetIn(w, c, m) = 0 /\ NetIn(book.bets[x], c, m) = 0
  BY <1>1, <1>2, <1>3, <1>5 DEF In, Column, NetIn, NetOf
<1>7. OneRowMatches(r, book.bets[x], w) BY <1>6 DEF OneRowMatches
<1>8. /\ BookIsSound(BetRewritten(Posting(book, <<r>>), x, w), hour)
      /\ Continues(book, BetRewritten(Posting(book, <<r>>), x, w), hour)
  BY <1>0, <1>4, <1>5, <1>7, <1>a, OneRowKeeps
<1> QED BY <1>0, <1>1, <1>8 DEF StandingsInv

LEMMA PairIsConcat ==
  ASSUME NEW S, NEW a \in S, NEW b \in S
  PROVE  <<a>> \o <<b>> = <<a, b>>
<1> DEFINE p == <<a>> \o <<b>>
           q == <<a, b>>
<1>1. <<a>> \in Seq(S) /\ <<b>> \in Seq(S) /\ q \in Seq(S) /\ Len(<<a>>) = 1 /\ Len(<<b>>) = 1 OBVIOUS
<1>2. p \in Seq(S) /\ Len(p) = 2 /\ p[1] = a /\ p[2] = b BY <1>1, ConcatProperties
<1>3. Len(q) = 2 /\ q[1] = a /\ q[2] = b OBVIOUS
<1> HIDE DEF p, q
<1>4. \A i \in 1..Len(p) : p[i] = q[i]
  <2>1. \A i \in 1..2 : i = 1 \/ i = 2 OBVIOUS
  <2> QED BY <1>2, <1>3, <2>1
<1>5. p = q BY <1>1, <1>2, <1>3, <1>4, SeqEqual
<1> QED BY <1>5 DEF p, q

LEMMA SettlementKeeps ==
  ASSUME StandingsInv, NEW x \in Bet, NEW status \in {"won", "lost", "refunded"}, PostSettlement(x, status)
  PROVE  StandingsInv' /\ hour' = hour /\ Continues(book, book', hour)
<1> DEFINE s == Settled(x, status)
           r == Undone(x)
           w == [book.bets[x] EXCEPT !.status = status]
<1>0. BookIsSound(book, hour) /\ BookShape(book) /\ hour \in Nat BY DEF StandingsInv, BookIsSound
<1>1. book.bets[x] \in BetRow /\ book.bets[x].status \in {"open", "won", "lost", "refunded"}
  BY <1>0 DEF PostSettlement, BookShape, BetRow
<1>2. book.bets[x].owner \in Holder /\ book.opened <= book.bets[x].at /\ book.bets[x].at <= hour
  BY <1>0, <1>1 DEF BookIsSound, BookIsTimely
<1>3. /\ s \in PostedRow /\ s.kind = "settlement" /\ s.cause = x /\ s.at = hour /\ w \in BetRow
      /\ \A c \in Column, h \in Holder : In(s, c, h) = NetIn(w, c, h)
  BY <1>0, <1>2, SettledCarries
<1>4. IsBetSince(w, book, hour) BY <1>1, <1>2, <1>3 DEF IsBetSince, BetRow
<1>a. KeepsBet(book.bets[x], w, hour) BY <1>1 DEF KeepsBet, BetRow
<1>5. IsRowOf(s, x, hour) BY <1>3 DEF IsRowOf, OfBets
<1>6. hour' = hour BY DEF PostSettlement, Write
<1>7. CASE book.bets[x].status = "open"
  <2>1. book' = [Posting(book, <<>> \o <<s>>) EXCEPT !.bets[x].status = status]
    BY <1>7 DEF PostSettlement, Write
  <2>2. <<>> \o <<s>> = <<s>> OBVIOUS
  <2> DEFINE e == Posting(book, <<s>>)
  <2>3. BookShape(e) /\ e.bets = book.bets BY <1>0, <1>3, PostingOfOne
  <2>4. book' = [e EXCEPT !.bets[x].status = status] BY <2>1, <2>2
  <2> HIDE DEF e, s
  <2>5. book' = BetRewritten(e, x, w) BY <2>3, <2>4 DEF BetRewritten
  <2> HIDE DEF w
  <2>6. \A c \in Column, h \in Holder : NetIn(book.bets[x], c, h) = 0 /\ NetIn(w, c, h) \in Int
    BY <1>7, NetIsInt DEF NetIn, NetOf
  <2>7. OneRowMatches(s, book.bets[x], w) BY <1>3, <2>6 DEF OneRowMatches
  <2>8. /\ BookIsSound(BetRewritten(Posting(book, <<s>>), x, w), hour)
        /\ Continues(book, BetRewritten(Posting(book, <<s>>), x, w), hour)
    BY <1>0, <1>4, <1>5, <1>a, <2>7, OneRowKeeps
  <2> QED BY <1>0, <1>6, <2>5, <2>8 DEF StandingsInv, e
<1>8. CASE book.bets[x].status # "open"
  <2>1. book' = [Posting(book, <<r>> \o <<s>>) EXCEPT !.bets[x].status = status]
    BY <1>8 DEF PostSettlement, Write
  <2>a. book.bets[x].status \in {"won", "lost", "refunded"} BY <1>1, <1>8
  <2>b. /\ r \in PostedRow /\ r.kind = "settlement_reversal" /\ r.cause = x /\ r.at = hour
        /\ \A c \in Column, h \in Holder : In(r, c, h) = -NetIn(book.bets[x], c, h)
    BY <1>0, <1>2, <2>a, UndoneTakesBack
  <2>2. <<r>> \o <<s>> = <<r, s>>
    <3> HIDE DEF r, s
    <3> QED BY <1>3, <2>b, PairIsConcat
  <2> DEFINE e == Posting(book, <<r, s>>)
  <2> HIDE DEF r, s
  <2>3. BookShape(e) /\ e.bets = book.bets BY <1>0, <1>3, <2>b, PostingOfTwo
  <2>4. book' = [e EXCEPT !.bets[x].status = status] BY <2>1, <2>2
  <2> HIDE DEF e
  <2>5. book' = BetRewritten(e, x, w) BY <2>3, <2>4 DEF BetRewritten
  <2> HIDE DEF w
  <2>6. \A c \in Column, h \in Holder : NetIn(book.bets[x], c, h) \in Int /\ NetIn(w, c, h) \in Int
    BY NetIsInt
  <2>7. TwoRowsMatch(r, s, book.bets[x], w) BY <1>3, <2>b, <2>6 DEF TwoRowsMatch
  <2>c. IsRowOf(r, x, hour) BY <2>b DEF IsRowOf, OfBets
  <2>8. /\ BookIsSound(BetRewritten(Posting(book, <<r, s>>), x, w), hour)
        /\ Continues(book, BetRewritten(Posting(book, <<r, s>>), x, w), hour)
    BY <1>0, <1>4, <1>5, <1>a, <2>c, <2>7, TwoRowsKeep
  <2> QED BY <1>0, <1>6, <2>5, <2>8 DEF StandingsInv, e
<1> QED BY <1>7, <1>8

LEMMA ReopenKeeps ==
  ASSUME StandingsInv, NEW x \in Bet, PostReopen(x)
  PROVE  StandingsInv' /\ hour' = hour /\ Continues(book, book', hour)
<1> DEFINE r == Undone(x)
           w == [book.bets[x] EXCEPT !.status = "open"]
           e == Posting(book, <<r>>)
<1>0. BookIsSound(book, hour) /\ BookShape(book) /\ hour \in Nat BY DEF StandingsInv, BookIsSound
<1>1. book.bets[x] \in BetRow /\ book.bets[x].status = "lost" BY <1>0 DEF PostReopen, BookShape
<1>2. book.bets[x].owner \in Holder /\ book.opened <= book.bets[x].at /\ book.bets[x].at <= hour
  BY <1>0, <1>1 DEF BookIsSound, BookIsTimely
<1>3. /\ r \in PostedRow /\ r.kind = "settlement_reversal" /\ r.cause = x /\ r.at = hour
      /\ \A c \in Column, h \in Holder : In(r, c, h) = -NetIn(book.bets[x], c, h)
  BY <1>0, <1>1, <1>2, UndoneTakesBack
<1>4. w.status = "open" /\ IsBetSince(w, book, hour) BY <1>1, <1>2 DEF IsBetSince, BetRow
<1>a. KeepsBet(book.bets[x], w, hour) BY <1>1 DEF KeepsBet, BetRow
<1>5. IsRowOf(r, x, hour) BY <1>3 DEF IsRowOf, OfBets
<1>6. hour' = hour /\ book' = [e EXCEPT !.bets[x].status = "open"] BY DEF PostReopen, Write
<1> HIDE DEF r
<1>7. BookShape(e) /\ e.bets = book.bets BY <1>0, <1>3, PostingOfOne
<1> HIDE DEF e
<1>8. book' = BetRewritten(e, x, w) BY <1>6, <1>7 DEF BetRewritten
<1> HIDE DEF w
<1>9. \A c \in Column, h \in Holder : NetIn(book.bets[x], c, h) \in Int /\ NetIn(w, c, h) = 0
  BY <1>4, NetIsInt DEF NetIn, NetOf
<1>10. OneRowMatches(r, book.bets[x], w) BY <1>3, <1>9 DEF OneRowMatches
<1>11. /\ BookIsSound(BetRewritten(Posting(book, <<r>>), x, w), hour)
       /\ Continues(book, BetRewritten(Posting(book, <<r>>), x, w), hour)
  BY <1>0, <1>4, <1>5, <1>a, <1>10, OneRowKeeps
<1> QED BY <1>0, <1>6, <1>8, <1>11 DEF StandingsInv, e

LEMMA StandingsSteps ==
  StandingsInv /\ [StandingsNext]_standingsVars =>
    StandingsInv' /\ hour <= hour' /\ Continues(book, book', hour)
<1> SUFFICES ASSUME StandingsInv, [StandingsNext]_standingsVars
             PROVE  StandingsInv' /\ hour <= hour' /\ Continues(book, book', hour)
  OBVIOUS
<1>0. hour \in Nat /\ BookShape(book) BY DEF StandingsInv, BookIsSound
<1>a. Continues(book, book, hour) BY <1>0, Unchanged
<1>1. CASE ClockMoves
  <2>1. hour \in Nat /\ hour' \in Nat /\ hour < hour' /\ book' = book BY <1>1, ClockMovesOn DEF StandingsInv
  <2>2. StandingsInv' BY <2>1, LaterIsSound DEF StandingsInv
  <2> QED BY <1>a, <2>1, <2>2
<1>2. CASE \E h \in Holder, value \in Purchase : PostOrder(h, value) BY <1>0, <1>2, OrderKeeps
<1>3. CASE \E h \in Holder, x \in Bet : PostLock(h, x) BY <1>0, <1>3, LockKeeps
<1>4. CASE \E x \in Bet, status \in {"won", "lost", "refunded"} : PostSettlement(x, status)
  BY <1>0, <1>4, SettlementKeeps
<1>5. CASE \E x \in Bet : PostReopen(x) BY <1>0, <1>5, ReopenKeeps
<1>6. CASE UNCHANGED standingsVars BY <1>0, <1>6, <1>a DEF standingsVars, StandingsInv
<1> QED BY <1>1, <1>2, <1>3, <1>4, <1>5, <1>6 DEF StandingsNext

(* The weekly standings: what the rows before a moment come to *)

\* Sums add up term by term, and end where the zeros begin.
LEMMA TotalOfSums ==
  ASSUME NEW n \in Nat, NEW f \in [1..n -> Int], NEW g \in [1..n -> Int],
         NEW s, \A k \in 1..n : s[k] = f[k] + g[k]
  PROVE  Total(f, n) \in Int /\ Total(g, n) \in Int /\ Total(s, n) = Total(f, n) + Total(g, n)
<1> DEFINE r == RunningTotals(f, n)
           q == RunningTotals(g, n)
           t == RunningTotals(s, n)
           S == {k \in Nat : k <= n => r[k] \in Int /\ q[k] \in Int /\ t[k] = r[k] + q[k]}
<1>1. /\ r[0] = 0 /\ \A k \in 1..n : r[k] = r[k-1] + f[k]
      /\ q[0] = 0 /\ \A k \in 1..n : q[k] = q[k-1] + g[k]
      /\ t[0] = 0 /\ \A k \in 1..n : t[k] = t[k-1] + s[k]
  BY RunningTotalsStep
<1> HIDE DEF r, q, t
<1>2. 0 \in S BY <1>1
<1>3. ASSUME NEW k \in Nat, k \in S PROVE k + 1 \in S
  <2> SUFFICES ASSUME k + 1 <= n
               PROVE  r[k+1] \in Int /\ q[k+1] \in Int /\ t[k+1] = r[k+1] + q[k+1]
    OBVIOUS
  <2>1. k + 1 \in 1..n /\ (k + 1) - 1 = k OBVIOUS
  <2>2. r[k] \in Int /\ q[k] \in Int /\ t[k] = r[k] + q[k] BY <1>3
  <2>3. f[k+1] \in Int /\ g[k+1] \in Int /\ s[k+1] = f[k+1] + g[k+1] BY <2>1
  <2>4. r[k+1] = r[k] + f[k+1] /\ q[k+1] = q[k] + g[k+1] /\ t[k+1] = t[k] + s[k+1] BY <1>1, <2>1
  <2> QED BY <2>2, <2>3, <2>4
<1>4. n \in S
  <2> HIDE DEF S
  <2> QED BY <1>2, <1>3, SetInduction
<1> QED BY <1>4 DEF r, q, t, Total

ZeroAfter(f, n, g, m) ==
  /\ n \in Nat /\ m \in Nat /\ m <= n /\ g \in [1..m -> Int]
  /\ \A k \in 1..m : f[k] = g[k]
  /\ \A k \in m + 1..n : f[k] = 0

LEMMA TotalOfZeroTail ==
  ASSUME NEW n, NEW m, NEW f, NEW g, ZeroAfter(f, n, g, m)
  PROVE  Total(f, n) = Total(g, m)
<1>x. /\ n \in Nat /\ m \in Nat /\ m <= n /\ g \in [1..m -> Int]
      /\ \A k \in 1..m : f[k] = g[k]
      /\ \A k \in m + 1..n : f[k] = 0
  BY DEF ZeroAfter
<1> USE <1>x
<1> DEFINE r == RunningTotals(f, n)
           q == RunningTotals(g, m)
           S == {k \in Nat : k <= n => IF k <= m THEN r[k] \in Int /\ q[k] = r[k] ELSE r[k] = r[m]}
<1>1. /\ r[0] = 0 /\ \A k \in 1..n : r[k] = r[k-1] + f[k]
      /\ q[0] = 0 /\ \A k \in 1..m : q[k] = q[k-1] + g[k]
  BY RunningTotalsStep
<1> HIDE DEF r, q
<1>2. 0 \in S BY <1>1
<1>a. ASSUME NEW k \in Nat, k \in S, k < m PROVE k + 1 \in S
  <2>1. k + 1 \in 1..n /\ k + 1 \in 1..m /\ (k + 1) - 1 = k BY <1>a
  <2>2. r[k] \in Int /\ q[k] = r[k] BY <1>a
  <2>3. r[k+1] = r[k] + f[k+1] /\ q[k+1] = q[k] + g[k+1] /\ f[k+1] = g[k+1] /\ g[k+1] \in Int
    BY <1>1, <2>1
  <2> QED BY <2>1, <2>2, <2>3
<1>3. m \in S
  <2> DEFINE T == {k \in Nat : k <= m => k \in S}
  <2>1. 0 \in T BY <1>2
  <2>2. \A k \in Nat : k \in T => k + 1 \in T
    <3> HIDE DEF S
    <3> QED BY <1>a
  <2> HIDE DEF T
  <2>3. m \in T BY <2>1, <2>2, SetInduction
  <2> QED BY <2>3 DEF T
<1>4. r[m] \in Int /\ q[m] = r[m] BY <1>3
<1> DEFINE V == {k \in Nat : m + k <= n => r[m + k] = r[m]}
<1>5. 0 \in V OBVIOUS
<1>6. ASSUME NEW k \in Nat, k \in V PROVE k + 1 \in V
  <2> DEFINE i == m + k
  <2>1. i \in Nat /\ m <= i /\ m + (k + 1) = i + 1 OBVIOUS
  <2>2. i <= n => r[i] = r[m] BY <1>6
  <2> HIDE DEF i
  <2>3. ASSUME i + 1 <= n PROVE r[i + 1] = r[m]
    <3>1. i + 1 \in 1..n /\ i + 1 \in m + 1..n /\ (i + 1) - 1 = i /\ i <= n BY <2>1, <2>3
    <3>2. r[i + 1] = r[i] + f[i + 1] /\ f[i + 1] = 0 BY <1>1, <3>1
    <3> QED BY <1>4, <2>2, <3>1, <3>2
  <2> QED BY <2>1, <2>3
<1>7. n - m \in V
  <2>1. n - m \in Nat OBVIOUS
  <2> HIDE DEF V
  <2> QED BY <1>5, <1>6, <2>1, SetInduction
<1>8. r[n] = r[m]
  <2>1. m + (n - m) = n OBVIOUS
  <2> QED BY <1>7, <2>1
<1> QED BY <1>4, <1>8 DEF Total, r, q

\* A wager that is refunded comes to nothing, and so do all that are.
RefundedOf(b) == {x \in Bet : b.bets[x].status = "refunded"}

LEMMA RefundedIsNothing ==
  ASSUME NEW b, BookShape(b), BookAddsUp(b), NEW c \in Column, NEW h \in Holder
  PROVE  BetsIn(b.posted, RefundedOf(b), c, h) = 0
<1> DEFINE D == RefundedOf(b)
           n == Len(b.posted)
           in(X) == [k \in 1..n |->
                      IF b.posted[k].kind \in OfBets /\ b.posted[k].cause \in X
                      THEN In(b.posted[k], c, h) ELSE 0]
           F == {X \in SUBSET D : Total(in(X), n) = 0}
<1>0. n \in Nat /\ \A k \in 1..n : In(b.posted[k], c, h) \in Int
  <2>1. b.posted \in Seq(PostedRow) BY DEF BookShape
  <2>2. n \in Nat /\ \A k \in 1..n : b.posted[k] \in PostedRow BY <2>1
  <2> QED BY <2>2, InIsInt
<1>a. \A X : BetsIn(b.posted, X, c, h) = Total(in(X), n) BY DEF BetsIn
<1>b. \A X : \A k \in 1..n : in(X)[k] = IF b.posted[k].kind \in OfBets /\ b.posted[k].cause \in X
                                         THEN In(b.posted[k], c, h) ELSE 0
  OBVIOUS
<1>c. \A X : in(X) \in [1..n -> Int] BY <1>0
<1>d. D \subseteq Bet /\ IsFiniteSet(D)
  <2>1. IsFiniteSet(Bet) BY ViewsAssumption
  <2>2. D \subseteq Bet BY DEF RefundedOf
  <2> QED BY <2>1, <2>2, FS_Subset
<1> HIDE DEF in, n
<1>1. Total(in({}), n) = 0
  <2> DEFINE f == in({})
  <2>1. \A k \in 1..n : f[k] = 0 BY <1>b
  <2> HIDE DEF f
  <2> QED BY <1>0, <2>1, TotalOfZeros DEF f
<1>2. ASSUME NEW X \in SUBSET D, NEW y \in D, Total(in(X), n) = 0 PROVE Total(in(X \cup {y}), n) = 0
  <2>1. CASE y \in X
    <3>1. X \cup {y} = X BY <2>1
    <3> QED BY <1>2, <3>1
  <2>2. CASE y \notin X
    <3>1. Total(in({y}), n) = 0
      <4>1. y \in Bet /\ b.bets[y].status = "refunded" BY DEF RefundedOf
      <4>2. BetsIn(b.posted, {y}, c, h) = NetIn(b.bets[y], c, h) BY <4>1 DEF BookAddsUp
      <4>3. NetIn(b.bets[y], c, h) = 0 BY <4>1 DEF NetIn, NetOf
      <4> QED BY <1>a, <4>2, <4>3
    <3> DEFINE f == in(X)
               g == in({y})
               s == in(X \cup {y})
    <3>2. \A k \in 1..n : s[k] = f[k] + g[k]
      <4> SUFFICES ASSUME NEW k \in 1..n PROVE s[k] = f[k] + g[k] OBVIOUS
      <4> DEFINE v == In(b.posted[k], c, h)
                 bet == b.posted[k].kind \in OfBets
                 x == b.posted[k].cause
      <4>1. /\ v \in Int
            /\ s[k] = (IF bet /\ (x \in X \/ x = y) THEN v ELSE 0)
            /\ f[k] = (IF bet /\ x \in X THEN v ELSE 0) /\ g[k] = (IF bet /\ x = y THEN v ELSE 0)
        BY <1>0, <1>b
      <4>2. ~ (x \in X /\ x = y) BY <2>2
      <4> HIDE DEF v, bet, x, s, f, g
      <4> QED BY <4>1, <4>2
    <3>3. f \in [1..n -> Int] /\ g \in [1..n -> Int] BY <1>c
    <3>4. Total(f, n) = 0 /\ Total(g, n) = 0 BY <1>2, <3>1
    <3> HIDE DEF f, g, s
    <3>5. Total(s, n) = Total(f, n) + Total(g, n) BY <1>0, <3>2, <3>3, TotalOfSums
    <3> QED BY <3>4, <3>5 DEF s
  <2> QED BY <2>1, <2>2
<1>3. D \in F
  <2>1. {} \in F BY <1>1
  <2>2. \A X \in SUBSET D, y \in D : X \in F => X \cup {y} \in F BY <1>2
  <2> HIDE DEF F, D
  <2> QED BY <1>d, <2>1, <2>2, FiniteInduction
<1> QED BY <1>3, <1>a

\* The sum of a column over the rows before a cutoff, refunded wagers aside.
BeforeIn(b, cutoff, c, h) ==
  Total([k \in 1..Len(b.posted) |-> IF b.posted[k].at < cutoff /\ ~Excluded(b, b.posted[k])
                                    THEN In(b.posted[k], c, h) ELSE 0], Len(b.posted))

LEMMA BeforeIs ==
  ASSUME NEW b, NEW h, NEW cutoff
  PROVE  /\ HoldingsBefore(b, h, cutoff) = BeforeIn(b, cutoff, "held", h)
         /\ SumBefore(b, cutoff, LAMBDA r : r.float) = BeforeIn(b, cutoff, "float", h)
         /\ SumBefore(b, cutoff, LAMBDA r : r.notional) = BeforeIn(b, cutoff, "notional", h)
<1>1. \A r : /\ In(r, "held", h) = (IF r.holder = h THEN r.available + r.locked ELSE 0)
             /\ In(r, "float", h) = r.float /\ In(r, "notional", h) = r.notional
  BY DEF In
<1> QED BY <1>1 DEF HoldingsBefore, SumBefore, Sum, BeforeIn

LEMMA BeforeIsInt ==
  ASSUME NEW b, BookShape(b), NEW c \in Column, NEW h, NEW cutoff
  PROVE  BeforeIn(b, cutoff, c, h) \in Int
<1> DEFINE n == Len(b.posted)
           f == [k \in 1..n |-> IF b.posted[k].at < cutoff /\ ~Excluded(b, b.posted[k])
                                THEN In(b.posted[k], c, h) ELSE 0]
<1>1. b.posted \in Seq(PostedRow) BY DEF BookShape
<1>2. n \in Nat /\ \A k \in 1..n : b.posted[k] \in PostedRow BY <1>1
<1>3. \A k \in 1..n : In(b.posted[k], c, h) \in Int BY <1>2, InIsInt
<1>4. f \in [1..n -> Int] BY <1>3
<1>5. BeforeIn(b, cutoff, c, h) = Total(f, n) BY DEF BeforeIn
<1> HIDE DEF f, n
<1> QED BY <1>2, <1>4, <1>5, TotalType

\* Everything has been posted by now, so what is not refunded comes to the balance.
LEMMA ByNowIsTheBalance ==
  ASSUME NEW b, NEW now \in Nat, BookIsSound(b, now), NEW c \in Column, NEW h \in Holder
  PROVE  BeforeIn(b, now + 1, c, h) = BalanceIn(b, c, h)
<1> DEFINE n == Len(b.posted)
           f == [k \in 1..n |-> IF b.posted[k].at < now + 1 /\ ~Excluded(b, b.posted[k])
                                THEN In(b.posted[k], c, h) ELSE 0]
           g == [k \in 1..n |-> IF b.posted[k].kind \in OfBets /\ b.posted[k].cause \in RefundedOf(b)
                                THEN In(b.posted[k], c, h) ELSE 0]
           s == [k \in 1..n |-> In(b.posted[k], c, h)]
<1>0. BookShape(b) /\ BookAddsUp(b) /\ BookIsTimely(b, now) BY DEF BookIsSound
<1>1. b.posted \in Seq(PostedRow) BY <1>0 DEF BookShape
<1>2. n \in Nat /\ \A k \in 1..n : b.posted[k] \in PostedRow BY <1>1
<1>3. \A k \in 1..n : In(b.posted[k], c, h) \in Int BY <1>2, InIsInt
<1>4. f \in [1..n -> Int] /\ g \in [1..n -> Int] BY <1>3
<1>5. /\ BeforeIn(b, now + 1, c, h) = Total(f, n) /\ AllIn(b.posted, c, h) = Total(s, n)
      /\ BetsIn(b.posted, RefundedOf(b), c, h) = Total(g, n)
  BY DEF BeforeIn, AllIn, BetsIn
<1>6. \A k \in 1..n : s[k] = f[k] + g[k]
  <2> SUFFICES ASSUME NEW k \in 1..n PROVE s[k] = f[k] + g[k] OBVIOUS
  <2> DEFINE r == b.posted[k]
  <2>1. r \in PostedRow /\ r.at <= now BY <1>0, <1>2 DEF BookIsTimely
  <2>2. r.at \in Nat /\ (r.kind \in OfBets => r.cause \in Bet) BY <2>1 DEF PostedRow, AnyRow
  <2>3. r.at < now + 1 BY <2>1, <2>2
  <2>4. Excluded(b, r) <=> r.kind \in OfBets /\ r.cause \in RefundedOf(b)
    BY <2>2 DEF Excluded, OfBets, RefundedOf
  <2> DEFINE v == In(b.posted[k], c, h)
  <2>5. /\ v \in Int /\ s[k] = v /\ f[k] = (IF ~Excluded(b, r) THEN v ELSE 0)
        /\ g[k] = (IF r.kind \in OfBets /\ r.cause \in RefundedOf(b) THEN v ELSE 0)
    BY <1>3, <2>3
  <2> HIDE DEF v, r, s, f, g
  <2> QED BY <2>4, <2>5
<1>7. BetsIn(b.posted, RefundedOf(b), c, h) = 0 BY <1>0, RefundedIsNothing
<1>8. BalanceIn(b, c, h) = AllIn(b.posted, c, h) BY <1>0 DEF BookAddsUp
<1> HIDE DEF f, g, s, n
<1>9. Total(f, n) \in Int /\ Total(s, n) = Total(f, n) + Total(g, n) BY <1>2, <1>4, <1>6, TotalOfSums
<1>10. Total(g, n) = 0 BY <1>5, <1>7
<1>11. Total(s, n) = Total(f, n) BY <1>9, <1>10
<1>12. AllIn(b.posted, c, h) = Total(s, n) /\ BeforeIn(b, now + 1, c, h) = Total(f, n) BY <1>5
<1> QED BY <1>8, <1>11, <1>12

\* Nothing was posted before the season opened.
LEMMA BeforeTheSeason ==
  ASSUME NEW b, NEW now \in Nat, BookIsSound(b, now), NEW c \in Column, NEW h, NEW cutoff \in Int,
         cutoff <= b.opened
  PROVE  BeforeIn(b, cutoff, c, h) = 0
<1> DEFINE n == Len(b.posted)
           f == [k \in 1..n |-> IF b.posted[k].at < cutoff /\ ~Excluded(b, b.posted[k])
                                THEN In(b.posted[k], c, h) ELSE 0]
<1>0. BookShape(b) /\ BookIsTimely(b, now) BY DEF BookIsSound
<1>1. b.posted \in Seq(PostedRow) /\ b.opened \in Nat BY <1>0 DEF BookShape
<1>2. n \in Nat /\ \A k \in 1..n : b.posted[k] \in PostedRow BY <1>1
<1>3. \A k \in 1..n : b.posted[k].at \in Nat BY <1>2 DEF PostedRow, AnyRow
<1>4. \A k \in 1..n : b.opened <= b.posted[k].at BY <1>0 DEF BookIsTimely
<1>5. \A k \in 1..n : ~ (b.posted[k].at < cutoff) BY <1>1, <1>3, <1>4
<1>6. \A k \in 1..n : f[k] = 0 BY <1>5
<1>7. BeforeIn(b, cutoff, c, h) = Total(f, n) BY DEF BeforeIn
<1> HIDE DEF f, n
<1> QED BY <1>2, <1>6, <1>7, TotalOfZeros

\* What was issued to a member before a cutoff.
IssuedIn(b, h, cutoff) ==
  [k \in 1..Len(b.orders) |->
    IF b.orders[k].holder = h THEN (IF b.orders[k].at < cutoff THEN b.orders[k].value ELSE 0) ELSE 0]

LEMMA IssuedIs == \A b, h, cutoff : IssuedBy(b, h, cutoff) = Total(IssuedIn(b, h, cutoff), Len(b.orders))
BY DEF IssuedBy, SumOf, Sum, IssuedIn

LEMMA IssuedIsInt ==
  ASSUME NEW b, BookShape(b), NEW h, NEW cutoff
  PROVE  /\ Len(b.orders) \in Nat /\ IssuedIn(b, h, cutoff) \in [1..Len(b.orders) -> Int]
         /\ IssuedBy(b, h, cutoff) \in Int
<1>1. b.orders \in Seq(PostedOrder) BY DEF BookShape
<1>2. Len(b.orders) \in Nat /\ \A k \in 1..Len(b.orders) : b.orders[k] \in PostedOrder BY <1>1
<1>3. \A k \in 1..Len(b.orders) : b.orders[k].value \in Int BY <1>2 DEF PostedOrder
<1>4. IssuedIn(b, h, cutoff) \in [1..Len(b.orders) -> Int] BY <1>3 DEF IssuedIn
<1> DEFINE f == IssuedIn(b, h, cutoff)
           n == Len(b.orders)
<1>5. f \in [1..n -> Int] /\ n \in Nat BY <1>2, <1>4
<1> HIDE DEF f, n
<1>6. Total(f, n) \in Int BY <1>5, TotalType
<1> QED BY <1>2, <1>4, <1>6, IssuedIs DEF f, n

LEMMA IssuedBeforeTheSeason ==
  ASSUME NEW b, NEW now \in Nat, BookIsSound(b, now), NEW h, NEW cutoff \in Int, cutoff <= b.opened
  PROVE  IssuedBy(b, h, cutoff) = 0
<1> DEFINE f == IssuedIn(b, h, cutoff)
           n == Len(b.orders)
<1>0. BookShape(b) /\ BookIsTimely(b, now) BY DEF BookIsSound
<1>1. b.orders \in Seq(PostedOrder) /\ b.opened \in Nat BY <1>0 DEF BookShape
<1>2. n \in Nat /\ \A k \in 1..n : b.orders[k] \in PostedOrder BY <1>1
<1>3. \A k \in 1..n : b.orders[k].at \in Nat BY <1>2 DEF PostedOrder
<1>4. \A k \in 1..n : b.opened <= b.orders[k].at BY <1>0 DEF BookIsTimely
<1>5. \A k \in 1..n : ~ (b.orders[k].at < cutoff) BY <1>1, <1>3, <1>4
<1>6. \A k \in 1..n : f[k] = 0 BY <1>5 DEF IssuedIn
<1> HIDE DEF f, n
<1>7. Total(f, n) = 0 BY <1>2, <1>6, TotalOfZeros
<1> QED BY <1>7, IssuedIs DEF f, n

\* Gains: of a moment, of the present, and before the season.
LEMMA GainIs ==
  ASSUME NEW b, NEW h, NEW cutoff
  PROVE  gainAt(b, h, cutoff)
           = Worth(BeforeIn(b, cutoff, "held", h),
                   SharePrice(BeforeIn(b, cutoff, "float", h), BeforeIn(b, cutoff, "notional", h)))
               - IssuedBy(b, h, cutoff)
<1>1. /\ HoldingsBefore(b, h, cutoff) = BeforeIn(b, cutoff, "held", h)
      /\ SumBefore(b, cutoff, LAMBDA r : r.float) = BeforeIn(b, cutoff, "float", h)
      /\ SumBefore(b, cutoff, LAMBDA r : r.notional) = BeforeIn(b, cutoff, "notional", h)
  BY BeforeIs
<1> QED BY <1>1 DEF gainAt

LEMMA ColumnsAre == "held" \in Column /\ "float" \in Column /\ "notional" \in Column
BY DEF Column

LEMMA GainIsInt ==
  ASSUME NEW b, BookShape(b), NEW h, NEW cutoff
  PROVE  gainAt(b, h, cutoff) \in Int
<1> DEFINE held  == BeforeIn(b, cutoff, "held", h)
           float == BeforeIn(b, cutoff, "float", h)
           notional == BeforeIn(b, cutoff, "notional", h)
           price == SharePrice(float, notional)
<1>1. held \in Int /\ float \in Int /\ notional \in Int BY ColumnsAre, BeforeIsInt
<1>2. gainAt(b, h, cutoff) = Worth(held, price) - IssuedBy(b, h, cutoff) BY GainIs
<1> HIDE DEF held, float, notional
<1>3. price \in Int BY <1>1, PriceIsInt
<1> HIDE DEF price
<1>4. Worth(held, price) \in Int BY <1>1, <1>3, WorthIsInt
<1> QED BY <1>2, <1>4, IssuedIsInt

LEMMA GainByNow ==
  ASSUME NEW b, NEW now \in Nat, BookIsSound(b, now), NEW h \in Holder
  PROVE  gainAt(b, h, now + 1) = gainMicros(b, now, h)
<1>1. /\ BeforeIn(b, now + 1, "held", h) = BalanceIn(b, "held", h)
      /\ BeforeIn(b, now + 1, "float", h) = BalanceIn(b, "float", h)
      /\ BeforeIn(b, now + 1, "notional", h) = BalanceIn(b, "notional", h)
  BY ColumnsAre, ByNowIsTheBalance
<1>2. /\ BalanceIn(b, "held", h) = Holdings(b, h) /\ BalanceIn(b, "float", h) = b.float
      /\ BalanceIn(b, "notional", h) = b.notional
  BY DEF BalanceIn, Holdings
<1> QED BY <1>1, <1>2, GainIs DEF gainMicros

LEMMA GainBeforeTheSeason ==
  ASSUME NEW b, NEW now \in Nat, BookIsSound(b, now), NEW h, NEW cutoff \in Int, cutoff <= b.opened
  PROVE  gainAt(b, h, cutoff) = 0
<1>1. /\ BeforeIn(b, cutoff, "held", h) = 0 /\ BeforeIn(b, cutoff, "float", h) = 0
      /\ BeforeIn(b, cutoff, "notional", h) = 0
  BY ColumnsAre, BeforeTheSeason
<1>2. IssuedBy(b, h, cutoff) = 0 BY IssuedBeforeTheSeason
<1>3. Worth(0, SharePrice(0, 0)) = 0
  <2>1. SharePrice(0, 0) = Unit /\ Unit \in Nat \ {0} BY UnitAssumption DEF SharePrice
  <2>2. 0 * Unit = 0 /\ Magnitude(0) = 0 /\ Magnitude(Unit) = Unit BY <2>1 DEF Magnitude
  <2>3. 0 \div Unit = 0 /\ 0 % Unit = 0 BY <2>1
  <2> QED BY <2>1, <2>2, <2>3 DEF Worth, DivideRoundHalfEven
<1> QED BY <1>1, <1>2, <1>3, GainIs

\* The stakes of a member confirmed before a moment.
StakedBefore(b, h, to) ==
  {x \in Bet : /\ b.bets[x].status \in {"open", "won", "lost"}
               /\ b.bets[x].owner = h /\ b.bets[x].at < to}

LEMMA RiskIsTheDifference ==
  ASSUME NEW b, BookShape(b), NEW h, NEW from \in Int, NEW to \in Int, from <= to
  PROVE  /\ Stake * Cardinality(StakedBefore(b, h, to)) \in Int
         /\ Stake * Cardinality(StakedBefore(b, h, from)) \in Int
         /\ RiskedBy(b, h, from, to) = Stake * Cardinality(StakedBefore(b, h, to))
                                         - Stake * Cardinality(StakedBefore(b, h, from))
<1> DEFINE S == StakedBefore(b, h, from)
           T == StakedBefore(b, h, to)
           D == {x \in Bet : /\ b.bets[x].status \in {"open", "won", "lost"} /\ b.bets[x].owner = h
                             /\ from <= b.bets[x].at /\ b.bets[x].at < to}
<1>1. IsFiniteSet(Bet) /\ Stake \in Nat BY ViewsAssumption, StandingsAssumption
<1>2. S \subseteq Bet /\ D \subseteq Bet /\ T \subseteq Bet BY DEF StakedBefore
<1>3. \A x \in Bet : b.bets[x].at \in Nat BY DEF BookShape, BetRow
<1>4. T = S \cup D /\ S \cap D = {} BY <1>3 DEF StakedBefore
<1>5. RiskedBy(b, h, from, to) = Stake * Cardinality(D) BY DEF RiskedBy
<1> HIDE DEF S, T, D
<1>6. IsFiniteSet(S) /\ IsFiniteSet(D) /\ IsFiniteSet(T) BY <1>1, <1>2, FS_Subset
<1>7. Cardinality(S) \in Nat /\ Cardinality(D) \in Nat /\ Cardinality(T) \in Nat BY <1>6, FS_CardinalityType
<1>8. Cardinality(T) = Cardinality(S) + Cardinality(D)
  <2>1. Cardinality(S \cup D) = Cardinality(S) + Cardinality(D) - Cardinality(S \cap D)
    BY <1>6, FS_Union
  <2>2. Cardinality(S \cap D) = 0 BY <1>4, FS_EmptySet
  <2> QED BY <1>4, <1>7, <2>1, <2>2
<1> DEFINE s == Cardinality(S)
           d == Cardinality(D)
           t == Cardinality(T)
<1>9. s \in Nat /\ d \in Nat /\ t = s + d BY <1>7, <1>8
<1>10. RiskedBy(b, h, from, to) = Stake * d BY <1>5
<1> HIDE DEF s, d, t
<1>11. Stake * s \in Int /\ Stake * t \in Int /\ Stake * d = Stake * t - Stake * s BY <1>1, <1>9
<1> QED BY <1>10, <1>11 DEF s, t, S, T

\* What every step of a walk adds comes to where it ends less where it began.
GainsOnWalk(W, n, at, val, G) ==
  /\ W = {at[i] : i \in 0..n} /\ \A i, j \in 0..n : i < j => at[i] # at[j]
  /\ val \in [W -> Int] /\ \A i \in 0..(n + 1) : G[i] \in Int
  /\ \A i \in 0..n : val[at[i]] = G[i + 1] - G[i]

LEMMA WalkAddsUp ==
  ASSUME NEW n \in Nat, NEW at, NEW W, NEW val, NEW G, GainsOnWalk(W, n, at, val, G)
  PROVE  Added(val) = G[n + 1] - G[0]
<1>x. /\ W = {at[i] : i \in 0..n} /\ \A i, j \in 0..n : i < j => at[i] # at[j]
      /\ val \in [W -> Int] /\ \A i \in 0..(n + 1) : G[i] \in Int
      /\ \A i \in 0..n : val[at[i]] = G[i + 1] - G[i]
  BY DEF GainsOnWalk
<1> USE <1>x
<1> DEFINE V(k) == {at[i] : i \in 0..k}
           S == {k \in Nat : k <= n => IsFiniteSet(V(k))}
<1>1. V(0) = {at[0]} OBVIOUS
<1>2. ASSUME NEW k \in Nat PROVE V(k + 1) = V(k) \cup {at[k + 1]}
  <2>1. \A i : i \in 0..(k + 1) <=> i \in 0..k \/ i = k + 1 OBVIOUS
  <2> QED BY <2>1
<1>a. W = V(n) OBVIOUS
<1>b. ASSUME NEW k \in Nat, k <= n PROVE V(k) \subseteq W
  <2>1. 0..k \subseteq 0..n BY <1>b
  <2> QED BY <2>1
<1>c. ASSUME NEW k \in Nat, k + 1 <= n PROVE at[k + 1] \notin V(k)
  <2>1. ASSUME NEW i \in 0..k PROVE at[i] # at[k + 1]
    <3>1. i \in 0..n /\ k + 1 \in 0..n /\ i < k + 1 BY <1>c
    <3> QED BY <3>1
  <2> QED BY <2>1
<1>d. at[0] \in W /\ \A k \in Nat : k + 1 <= n => at[k + 1] \in W
  <2>1. 0 \in 0..n /\ \A k \in Nat : k + 1 <= n => k + 1 \in 0..n OBVIOUS
  <2> QED BY <2>1
<1> HIDE DEF V
<1>3. 0 \in S BY <1>1, FS_Singleton
<1>4. ASSUME NEW k \in Nat, k \in S PROVE k + 1 \in S
  <2> SUFFICES ASSUME k + 1 <= n PROVE IsFiniteSet(V(k + 1)) OBVIOUS
  <2>1. IsFiniteSet(V(k)) BY <1>4
  <2> DEFINE s == V(k)
             y == at[k + 1]
  <2>2. V(k + 1) = s \cup {y} /\ IsFiniteSet(s) BY <1>2, <2>1
  <2> HIDE DEF s, y
  <2> QED BY <2>2, FS_AddElement
<1>5. IsFiniteSet(W)
  <2> HIDE DEF S
  <2>1. n \in S BY <1>3, <1>4, SetInduction
  <2> QED BY <1>a, <2>1 DEF S
<1>6. PICK g : Tabulates(W, val, g) BY <1>5, SumsAreTabulated
<1> DEFINE T == {k \in Nat : k <= n => g[V(k)] = G[k + 1] - G[0]}
<1>7. 0 \in T
  <2>1. {at[0]} \in SUBSET W /\ {at[0]} \ {at[0]} = {} BY <1>d
  <2>2. g[{at[0]}] = val[at[0]] + g[{}] /\ g[{}] = 0 BY <1>6, <2>1 DEF Tabulates
  <2>3. val[at[0]] = G[0 + 1] - G[0] /\ val[at[0]] \in Int
    <3>1. 0 \in 0..n OBVIOUS
    <3> QED BY <1>d, <3>1
  <2>4. g[{at[0]}] = val[at[0]] BY <2>2, <2>3
  <2>5. g[V(0)] = G[0 + 1] - G[0] BY <1>1, <2>3, <2>4
  <2> QED BY <2>5
<1>8. ASSUME NEW k \in Nat, k \in T PROVE k + 1 \in T
  <2> SUFFICES ASSUME k + 1 <= n PROVE g[V(k + 1)] = G[(k + 1) + 1] - G[0] OBVIOUS
  <2>1. g[V(k)] = G[k + 1] - G[0] BY <1>8
  <2> DEFINE y == at[k + 1]
             s == V(k + 1)
  <2>2. s \in SUBSET W /\ y \in s /\ s \ {y} = V(k)
    <3>1. k + 1 \in Nat /\ k <= n OBVIOUS
    <3>2. V(k + 1) = V(k) \cup {at[k + 1]} BY <1>2
    <3>3. V(k + 1) \subseteq W BY <1>b, <3>1
    <3>4. at[k + 1] \notin V(k) BY <1>c
    <3> HIDE <1>x
    <3> QED BY <3>2, <3>3, <3>4
  <2>3. val[y] = G[(k + 1) + 1] - G[k + 1]
    <3>1. k + 1 \in 0..n OBVIOUS
    <3> QED BY <3>1
  <2> HIDE DEF y, s
  <2>4. g[s] = val[y] + g[s \ {y}] BY <1>6, <2>2 DEF Tabulates
  <2>5. G[0] \in Int /\ G[k + 1] \in Int /\ G[(k + 1) + 1] \in Int
    <3>1. 0 \in 0..(n + 1) /\ k + 1 \in 0..(n + 1) /\ (k + 1) + 1 \in 0..(n + 1) OBVIOUS
    <3> QED BY <3>1
  <2>6. g[s] = (G[(k + 1) + 1] - G[k + 1]) + (G[k + 1] - G[0]) BY <2>1, <2>2, <2>3, <2>4
  <2>7. g[s] = G[(k + 1) + 1] - G[0]
    <3> DEFINE u == G[(k + 1) + 1]
               v == G[k + 1]
               w == G[0]
    <3>1. u \in Int /\ v \in Int /\ w \in Int BY <2>5
    <3>2. g[s] = (u - v) + (v - w) BY <2>6
    <3> HIDE DEF u, v, w
    <3>3. g[s] = u - w BY <3>1, <3>2
    <3> QED BY <3>3 DEF u, w
  <2> QED BY <2>7 DEF s
<1>9. g[W] = G[n + 1] - G[0]
  <2> HIDE DEF T
  <2>1. n \in T BY <1>7, <1>8, SetInduction
  <2> QED BY <1>a, <2>1 DEF T
<1> QED BY <1>6, <1>9, SumOfAll

(* The calendar *)

\* A wall-clock hour is an hour of a day of a week.
LEMMA HoursOfWeek ==
  ASSUME NEW w \in Int
  PROVE  \E q \in Int, d \in 0..6, r \in 0..23 : w = 168 * q + 24 * d + r
<1>1. \E q \in Int, d \in 0..167 : w = 168 * q + d
  <2>1. w \div 168 \in Int /\ w % 168 \in 0..167 /\ w = 168 * (w \div 168) + (w % 168) OBVIOUS
  <2> QED BY <2>1
<1>2. PICK q \in Int, d \in 0..167 : w = 168 * q + d BY <1>1
<1>3. d \div 24 \in 0..6 /\ d % 24 \in 0..23 /\ d = 24 * (d \div 24) + (d % 24) OBVIOUS
<1> QED BY <1>2, <1>3

\* Between Tuesday and Sunday the clocks stay as they are.
LEMMA NoChange ==
  ASSUME NEW q \in Int, NEW u \in Int, 168 * q <= u, u < 168 * q + 120
  PROVE  ptOffset(u) = ptOffset(168 * q)
<1>1. ASSUME NEW c \in Nat, c % Week \in 5 * Hours..6 * Hours - 1 PROVE u >= c <=> 168 * q >= c
  <2>1. PICK f \in Int, x \in 120..143 : c = 168 * f + x
    <3>1. c % 168 \in 120..143 BY <1>1 DEF Week, Hours
    <3>2. c = 168 * (c \div 168) + (c % 168) /\ c \div 168 \in Int OBVIOUS
    <3> QED BY <3>1, <3>2
  <2> QED BY <2>1
<1>2. u >= FallBack <=> 168 * q >= FallBack BY <1>1, StandingsAssumption, CalendarAssumption
<1>3. u >= SpringForward <=> 168 * q >= SpringForward
  BY <1>1, StandingsAssumption, CalendarAssumption
<1>4. u < SpringForward <=> 168 * q < SpringForward BY <1>3, StandingsAssumption
<1> QED BY <1>2, <1>4 DEF ptOffset

LEMMA OffsetIs == \A t : ptOffset(t) \in {-8, -7}
BY DEF ptOffset

\* The start of the week of number q.
StartOf(q) == 168 * q - ptOffset(168 * q)

LEMMA StartIs ==
  ASSUME NEW q \in Int
  PROVE  /\ StartOf(q) \in {168 * q + 7, 168 * q + 8}
         /\ Wall(StartOf(q)) = 168 * q
         /\ ptOffset(StartOf(q)) = ptOffset(168 * q)
<1>1. ptOffset(168 * q) \in {-8, -7} BY OffsetIs
<1>2. StartOf(q) \in {168 * q + 7, 168 * q + 8} BY <1>1 DEF StartOf
<1> DEFINE s == StartOf(q)
<1>3. ptOffset(s) = ptOffset(168 * q)
  <2>1. s \in Int /\ 168 * q <= s /\ s < 168 * q + 120 BY <1>2
  <2> HIDE DEF s
  <2> QED BY <2>1, NoChange
<1>4. Wall(s) = 168 * q BY <1>1, <1>3 DEF Wall, StartOf
<1> QED BY <1>2, <1>3, <1>4

LEMMA MidnightIs ==
  ASSUME NEW q \in Int, NEW r \in 0..23
  PROVE  ptMidnightUtc(168 * q + r) = StartOf(q)
<1>1. ((168 * q + r) \div 24) * 24 = 168 * q OBVIOUS
<1> QED BY <1>1 DEF ptMidnightUtc, StartOf, Hours

\* The week of a moment is that of its wall clock.
LEMMA WeekStartIs ==
  ASSUME NEW t \in Int
  PROVE  \E q \in Int : /\ weekStartOf(t) = StartOf(q)
                        /\ 168 * q <= Wall(t) /\ Wall(t) < 168 * q + 168
                        /\ Wall(t) % Week = Wall(t) - 168 * q
                        /\ StartOf(q) <= t /\ t < StartOf(q + 1)
<1> DEFINE w == Wall(t)
<1>1. w \in Int /\ w = t + ptOffset(t) /\ ptOffset(t) \in {-8, -7} BY OffsetIs DEF Wall
<1>2. PICK q \in Int, d \in 0..6, r \in 0..23 : w = 168 * q + 24 * d + r
  <2> HIDE DEF w
  <2> QED BY <1>1, HoursOfWeek
<1> HIDE DEF w
<1>3. (w \div 24) % 7 = d /\ w % 168 = 24 * d + r
  <2>1. w \div 24 = 7 * q + d BY <1>2
  <2>2. (7 * q + d) % 7 = d BY <1>2
  <2>3. (168 * q + (24 * d + r)) % 168 = 24 * d + r BY <1>2
  <2> QED BY <1>2, <2>1, <2>2, <2>3
<1>4. weekStartOf(t) = StartOf(q)
  <2>1. weekStartOf(t) = ptMidnightUtc(w - ((w \div 24) % 7) * 24) BY DEF weekStartOf, w, Hours
  <2>2. w - ((w \div 24) % 7) * 24 = 168 * q + r BY <1>2, <1>3
  <2> QED BY <2>1, <2>2, MidnightIs
<1>5. 168 * q <= w /\ w < 168 * q + 168 /\ w % 168 = w - 168 * q BY <1>2, <1>3
<1>6. StartOf(q) <= t
  <2>1. CASE ptOffset(t) = ptOffset(168 * q) BY <1>1, <1>5, <2>1 DEF StartOf
  <2>2. CASE ptOffset(t) # ptOffset(168 * q)
    <3>1. t >= 168 * q BY <1>1, <1>5
    <3>2. t >= 168 * q + 120 BY <2>2, <3>1, NoChange
    <3> QED BY <3>2, StartIs
  <2> QED BY <2>1, <2>2
<1>7. t < StartOf(q + 1)
  <2> DEFINE p == q + 1
  <2>1. p \in Int /\ t + ptOffset(t) < 168 * p BY <1>1, <1>5
  <2> HIDE DEF p
  <2>2. StartOf(p) \in {168 * p + 7, 168 * p + 8} BY <2>1, StartIs
  <2>3. t < StartOf(p)
    <3>1. CASE t < 168 * p BY <2>1, <2>2, <3>1
    <3>2. CASE t >= 168 * p
      <4>1. t < 168 * p + 120 BY <1>1, <2>1
      <4>2. ptOffset(t) = ptOffset(168 * p) BY <2>1, <3>2, <4>1, NoChange
      <4> QED BY <1>1, <2>1, <4>2 DEF StartOf
    <3> QED BY <2>1, <3>1, <3>2
  <2> QED BY <2>3 DEF p
<1> QED BY <1>4, <1>5, <1>6, <1>7 DEF w, Week, Hours

LEMMA WeeksIncrease ==
  ASSUME NEW q \in Int, NEW p \in Int, q < p
  PROVE  StartOf(q) < StartOf(p) /\ StartOf(q) \in Int /\ StartOf(p) \in Int
<1>1. StartOf(q) \in {168 * q + 7, 168 * q + 8} /\ StartOf(p) \in {168 * p + 7, 168 * p + 8}
  BY StartIs
<1> QED BY <1>1

LEMMA NextIs ==
  ASSUME NEW q \in Int
  PROVE  nextWeekStart(StartOf(q)) = StartOf(q + 1)
<1> DEFINE p == q + 1
<1>1. p \in Int /\ Wall(StartOf(q)) + Week = 168 * p + 0 BY StartIs DEF Week, Hours
<1> HIDE DEF p
<1>2. ptMidnightUtc(168 * p + 0) = StartOf(p) BY <1>1, MidnightIs
<1>3. nextWeekStart(StartOf(q)) = StartOf(p) BY <1>1, <1>2 DEF nextWeekStart
<1> QED BY <1>3 DEF p

\* The weeks partition time.
LEMMA WeekIs ==
  ASSUME NEW t \in Int, NEW q \in Int, StartOf(q) <= t, t < StartOf(q + 1)
  PROVE  weekStartOf(t) = StartOf(q)
<1>1. PICK p \in Int : weekStartOf(t) = StartOf(p) /\ StartOf(p) <= t /\ t < StartOf(p + 1)
  BY WeekStartIs
<1>2. p = q
  <2>1. CASE p < q
    <3>1. StartOf(p + 1) <= StartOf(q)
      <4> DEFINE r == p + 1
      <4>1. r \in Int /\ (r = q \/ r < q) BY <2>1
      <4> HIDE DEF r
      <4>2. StartOf(q) \in Int BY StartIs
      <4>3. StartOf(r) <= StartOf(q) BY <4>1, <4>2, WeeksIncrease
      <4> QED BY <4>3 DEF r
    <3>2. StartOf(p + 1) \in Int /\ StartOf(q) \in Int
      <4> DEFINE r == p + 1
      <4>1. r \in Int OBVIOUS
      <4> HIDE DEF r
      <4>2. StartOf(r) \in Int /\ StartOf(q) \in Int BY <4>1, StartIs
      <4> QED BY <4>2 DEF r
    <3> QED BY <1>1, <3>1, <3>2
  <2>2. CASE q < p
    <3>1. StartOf(q + 1) <= StartOf(p)
      <4> DEFINE r == q + 1
      <4>1. r \in Int /\ (r = p \/ r < p) BY <2>2
      <4> HIDE DEF r
      <4>2. StartOf(p) \in Int BY StartIs
      <4>3. StartOf(r) <= StartOf(p) BY <4>1, <4>2, WeeksIncrease
      <4> QED BY <4>3 DEF r
    <3>2. StartOf(q + 1) \in Int /\ StartOf(p) \in Int
      <4> DEFINE r == q + 1
      <4>1. r \in Int OBVIOUS
      <4> HIDE DEF r
      <4>2. StartOf(r) \in Int /\ StartOf(p) \in Int BY <4>1, StartIs
      <4> QED BY <4>2 DEF r
    <3> QED BY <1>1, <3>1, <3>2
  <2> QED BY <2>1, <2>2
<1> QED BY <1>1, <1>2

LEMMA StartsItsWeek ==
  ASSUME NEW q \in Int
  PROVE  weekStartOf(StartOf(q)) = StartOf(q)
<1> DEFINE p == q + 1
           s == StartOf(q)
<1>1. p \in Int /\ q < p OBVIOUS
<1> HIDE DEF p
<1>2. s < StartOf(p) /\ s \in Int BY <1>1, WeeksIncrease
<1>3. s <= s /\ s < StartOf(q + 1) BY <1>2 DEF p
<1>4. weekStartOf(s) = StartOf(q)
  <2> HIDE DEF s
  <2>1. s = StartOf(q) BY DEF s
  <2> QED BY <1>2, <1>3, <2>1, WeekIs
<1> QED BY <1>4

\* The calendar begins in summer, so no week is shorter than a whole one from its first.
LEMMA WeekNumberIs ==
  ASSUME NEW a \in Int, ptOffset(168 * a) = -7, NEW q \in Int
  PROVE  weekNumber(StartOf(q), StartOf(a)) = q - a + 1
<1>1. ptOffset(168 * q) \in {-8, -7} BY OffsetIs
<1>2. PICK d \in {0, 1} : StartOf(q) - StartOf(a) = 168 * (q - a) + d BY <1>1 DEF StartOf
<1>3. (168 * (q - a) + d) \div 168 = q - a
  <2> DEFINE n == q - a
  <2>1. n \in Int OBVIOUS
  <2> HIDE DEF n
  <2>2. (168 * n + d) \div 168 = n BY <2>1
  <2> QED BY <2>2 DEF n
<1> QED BY <1>2, <1>3 DEF weekNumber, Week, Hours

\* The calendar starts at hour 0, in summer.
LEMMA CalendarIs ==
  /\ Calendar \subseteq Nat /\ First(Calendar) = 0 /\ First(Calendar) \in Calendar
  /\ \A t \in Calendar : 0..t \subseteq Calendar
<1>1. /\ Calendar # {} /\ IsFiniteSet(Calendar) /\ Calendar = 0..Cardinality(Calendar) - 1
  BY StandingsAssumption
<1>2. Cardinality(Calendar) \in Nat BY <1>1, FS_CardinalityType
<1> DEFINE n == Cardinality(Calendar) - 1
<1>3. n \in Int /\ Calendar = 0..n BY <1>1, <1>2
<1> HIDE DEF n
<1>4. 0 \in Calendar /\ Calendar \subseteq Nat /\ \A t \in Calendar : 0..t \subseteq Calendar BY <1>1, <1>3
<1> DEFINE f == First(Calendar)
<1>5. f \in Calendar /\ \A y \in Calendar : f <= y BY <1>4, FirstIs
<1> HIDE DEF f
<1>6. f = 0 BY <1>4, <1>5
<1> QED BY <1>4, <1>5, <1>6 DEF f

LEMMA CalendarIsRight ==
  ASSUME NEW t \in Calendar
  PROVE  LET start == weekStartOf(t)
             first == weekStartOf(First(Calendar))
         IN  /\ start <= t /\ t < nextWeekStart(start)
             /\ inWeek(start, start) /\ inWeek(nextWeekStart(start), nextWeekStart(start))
             /\ Wall(start) % Week = 0
             /\ weekNumber(nextWeekStart(start), first) = weekNumber(start, first) + 1
             /\ isBettingOpen(t) <=> Wall(t) % Week >= 10
<1>1. t \in Int BY CalendarIs
<1>2. PICK q \in Int : /\ weekStartOf(t) = StartOf(q)
                       /\ 168 * q <= Wall(t) /\ Wall(t) < 168 * q + 168
                       /\ Wall(t) % Week = Wall(t) - 168 * q
                       /\ StartOf(q) <= t /\ t < StartOf(q + 1)
  BY <1>1, WeekStartIs
<1> DEFINE p == q + 1
<1>3. p \in Int /\ nextWeekStart(StartOf(q)) = StartOf(p) BY NextIs
<1>4. inWeek(StartOf(q), StartOf(q)) /\ inWeek(StartOf(p), StartOf(p))
  <2> HIDE DEF p
  <2> QED BY <1>3, StartsItsWeek DEF inWeek
<1>5. Wall(StartOf(q)) % Week = 0
  <2>1. (168 * q) % 168 = 0 OBVIOUS
  <2> QED BY <2>1, StartIs DEF Week, Hours
<1>6. weekNumber(StartOf(p), weekStartOf(First(Calendar)))
        = weekNumber(StartOf(q), weekStartOf(First(Calendar))) + 1
  <2> DEFINE f == First(Calendar)
  <2>1. f = 0 /\ f \in Int /\ f < FallBack
    <3>1. f = 0 BY CalendarIs
    <3> HIDE DEF f
    <3> QED BY <3>1, StandingsAssumption, CalendarAssumption
  <2> HIDE DEF f
  <2>2. PICK a \in Int : weekStartOf(f) = StartOf(a) /\ 168 * a <= Wall(f) BY <2>1, WeekStartIs
  <2>3. 168 * a < FallBack
    <3>1. ptOffset(f) \in {-8, -7} BY OffsetIs
    <3> QED BY <2>1, <2>2, <3>1, StandingsAssumption DEF Wall
  <2>4. ptOffset(168 * a) = -7
    <3>1. ~ (168 * a >= FallBack) BY <2>3, StandingsAssumption
    <3> QED BY <3>1 DEF ptOffset
  <2> HIDE DEF p
  <2>5. weekNumber(StartOf(p), StartOf(a)) = p - a + 1 BY <1>3, <2>4, WeekNumberIs
  <2>6. weekNumber(StartOf(q), StartOf(a)) = q - a + 1 BY <2>4, WeekNumberIs
  <2>7. p - a + 1 = (q - a + 1) + 1 BY DEF p
  <2> QED BY <2>2, <2>5, <2>6, <2>7 DEF f
<1>7. isBettingOpen(t) <=> Wall(t) % Week >= 10
  <2>1. isBettingOpen(t) <=> t >= StartOf(q) + 10 BY <1>2 DEF isBettingOpen, bettingOpensAt
  <2>2. ptOffset(t) \in {-8, -7} /\ Wall(t) = t + ptOffset(t) BY OffsetIs DEF Wall
  <2>3. StartOf(q) \in {168 * q + 7, 168 * q + 8} BY StartIs
  <2>4. CASE t < 168 * q + 120
    <3>1. ptOffset(t) = ptOffset(168 * q) BY <1>1, <1>2, <2>2, <2>4, NoChange
    <3> QED BY <1>1, <1>2, <2>1, <2>2, <3>1 DEF StartOf
  <2>5. CASE ~ (t < 168 * q + 120) BY <1>1, <1>2, <2>1, <2>2, <2>3, <2>5
  <2> QED BY <2>4, <2>5
<1> QED BY <1>2, <1>3, <1>4, <1>5, <1>6, <1>7 DEF p

LEMMA CalendarAlwaysHolds == CalendarHolds
BY CalendarIsRight DEF CalendarHolds

(* The weekly standings: the weeks of a season *)

LEMMA WeekOrder ==
  ASSUME NEW q \in Int, NEW p \in Int
  PROVE  StartOf(q) \in Int /\ StartOf(p) \in Int /\ (StartOf(q) <= StartOf(p) <=> q <= p)
<1>1. StartOf(q) \in {168 * q + 7, 168 * q + 8} /\ StartOf(p) \in {168 * p + 7, 168 * p + 8}
  BY StartIs
<1>2. CASE q < p BY <1>1, <1>2
<1>3. CASE p < q BY <1>1, <1>3
<1>4. CASE p = q BY <1>1, <1>4
<1> QED BY <1>2, <1>3, <1>4

\* Walking from a week to the next one m times.
WalksFrom(start, first, m) ==
  start = [k \in 0..m |-> IF k = 0 THEN first ELSE nextWeekStart(start[k - 1])]

LEMMA WalkOfWeeks ==
  ASSUME NEW a \in Int, NEW m \in Nat, NEW start, start = CHOOSE s : WalksFrom(s, StartOf(a), m)
  PROVE  \A k \in 0..m : start[k] = StartOf(a + k)
<1> DEFINE e == [k \in 0..m |-> StartOf(a + k)]
<1>1. WalksFrom(e, StartOf(a), m)
  <2>1. ASSUME NEW k \in 0..m PROVE e[k] = IF k = 0 THEN StartOf(a) ELSE nextWeekStart(e[k - 1])
    <3>1. CASE k = 0 BY <3>1
    <3>2. CASE k # 0
      <4> DEFINE p == a + (k - 1)
      <4>1. k - 1 \in 0..m /\ p \in Int /\ p + 1 = a + k /\ e[k - 1] = StartOf(p) BY <3>2
      <4> HIDE DEF p
      <4>2. nextWeekStart(StartOf(p)) = StartOf(p + 1) BY <4>1, NextIs
      <4> QED BY <3>2, <4>1, <4>2
    <3> QED BY <3>1, <3>2
  <2>2. e = [k \in 0..m |-> e[k]] OBVIOUS
  <2> HIDE DEF e
  <2> QED BY <2>1, <2>2 DEF WalksFrom
<1>2. WalksFrom(start, StartOf(a), m) BY <1>1
<1>3. \A k \in 0..m : start[k] = IF k = 0 THEN StartOf(a) ELSE nextWeekStart(start[k - 1])
  BY <1>2 DEF WalksFrom
<1> DEFINE S == {k \in Nat : k <= m => start[k] = StartOf(a + k)}
<1>4. 0 \in S BY <1>3
<1>5. ASSUME NEW k \in Nat, k \in S PROVE k + 1 \in S
  <2> SUFFICES ASSUME k + 1 <= m PROVE start[k + 1] = StartOf(a + (k + 1)) OBVIOUS
  <2> DEFINE p == a + k
  <2>1. k + 1 \in 0..m /\ k + 1 # 0 /\ (k + 1) - 1 = k /\ p \in Int /\ p + 1 = a + (k + 1) OBVIOUS
  <2>2. start[k] = StartOf(p) BY <1>5
  <2> HIDE DEF p
  <2>3. start[k + 1] = nextWeekStart(start[k]) BY <1>3, <2>1
  <2>4. nextWeekStart(StartOf(p)) = StartOf(p + 1) BY <2>1, NextIs
  <2> QED BY <2>1, <2>2, <2>3, <2>4
<1>6. \A k \in 0..m : k \in S
  <2> HIDE DEF S
  <2>1. Nat \subseteq S BY <1>4, <1>5, SetInduction
  <2> QED BY <2>1
<1> QED BY <1>6

Weeks(a, n) == {StartOf(a + i) : i \in 0..n}

\* The weeks of a season are those from its first to the current one.
WeeksAre(a, n, opened, now) ==
  /\ a \in Int /\ n \in Nat
  /\ weekStartOf(now) = StartOf(a + n) /\ StartOf(a) <= opened
  /\ StartOf(a + n) <= now /\ now < StartOf((a + n) + 1)

LEMMA WeeksShownAre ==
  ASSUME NEW b, b.opened \in Nat, NEW now \in Nat, b.opened <= now
  PROVE  \E a \in Int, n \in Nat :
           WeeksAre(a, n, b.opened, now) /\ WeeksShown(b, now) = Weeks(a, n)
<1> DEFINE opened == b.opened
<1>0. opened \in Int /\ now \in Int /\ opened <= now OBVIOUS
<1>1. PICK a \in Int : weekStartOf(opened) = StartOf(a) /\ StartOf(a) <= opened /\ opened < StartOf(a + 1)
  <2> HIDE DEF opened
  <2> QED BY <1>0, WeekStartIs
<1>2. PICK z \in Int : weekStartOf(now) = StartOf(z) /\ StartOf(z) <= now /\ now < StartOf(z + 1)
  BY <1>0, WeekStartIs
<1> DEFINE a1 == a + 1
           z1 == z + 1
           n == z - a
           last == (now - opened) \div (Week - 1) + 1
<1>3. a1 \in Int /\ z1 \in Int /\ n \in Int /\ a + n = z OBVIOUS
<1>4. StartOf(a) \in Int /\ StartOf(z1) \in Int /\ StartOf(a) < StartOf(z1)
  <2> HIDE DEF z1, opened
  <2>1. StartOf(a) \in Int /\ StartOf(z1) \in Int BY <1>3, WeekOrder
  <2> QED BY <1>0, <1>1, <1>2, <2>1 DEF z1
<1>5. n \in Nat
  <2>1. ~ (z1 <= a)
    <3> HIDE DEF z1
    <3> QED BY <1>3, <1>4, WeekOrder
  <2> QED BY <2>1
<1>6. last \in Nat /\ n <= last
  <2> DEFINE x == now - opened
  <2>1. x \in Nat /\ last = x \div 167 + 1 BY <1>0 DEF Week, Hours
  <2>2. StartOf(z) \in {168 * z + 7, 168 * z + 8} BY StartIs
  <2>3. StartOf(a1) \in {168 * a1 + 7, 168 * a1 + 8}
    <3> HIDE DEF a1
    <3> QED BY <1>3, StartIs
  <2>4. x >= 168 * (n - 1) BY <1>0, <1>1, <1>2, <2>2, <2>3
  <2> HIDE DEF x, n, last
  <2>5. PICK d \in Nat, r \in 0..166 : x = 167 * d + r /\ x \div 167 = d
    <3>1. x \div 167 \in Nat /\ x % 167 \in 0..166 /\ x = 167 * (x \div 167) + (x % 167) BY <2>1
    <3> QED BY <3>1
  <2>6. n - 1 <= d BY <1>5, <2>4, <2>5
  <2> QED BY <1>5, <2>1, <2>5, <2>6
<1> DEFINE start == CHOOSE s : WalksFrom(s, StartOf(a), last)
<1>7. \A k \in 0..last : start[k] = StartOf(a + k)
  <2> HIDE DEF last, start
  <2>1. start = CHOOSE s : WalksFrom(s, StartOf(a), last) BY DEF start
  <2> QED BY <1>6, <2>1, WalkOfWeeks
<1>8. WeeksShown(b, now) = {w \in {start[k] : k \in 0..last} : w <= weekStartOf(now)}
  BY <1>1 DEF WeeksShown, WalksFrom
<1> HIDE DEF start, last, n, opened
<1>9. \A k \in Nat : StartOf(a + k) <= StartOf(z) <=> k <= n
  <2> SUFFICES ASSUME NEW k \in Nat PROVE StartOf(a + k) <= StartOf(z) <=> k <= n OBVIOUS
  <2> DEFINE p == a + k
  <2>1. p \in Int /\ (p <= z <=> k <= n) BY <1>3
  <2> HIDE DEF p
  <2>2. StartOf(p) <= StartOf(z) <=> p <= z BY <2>1, WeekOrder
  <2> QED BY <2>1, <2>2 DEF p
<1>10. WeeksShown(b, now) = {StartOf(a + i) : i \in 0..n}
  <2>1. ASSUME NEW w, w \in WeeksShown(b, now) PROVE w \in {StartOf(a + i) : i \in 0..n}
    <3>1. PICK k \in 0..last : w = start[k] /\ w <= weekStartOf(now) BY <1>8, <2>1
    <3>2. w = StartOf(a + k) /\ k \in Nat /\ w <= StartOf(z) BY <1>2, <1>6, <1>7, <3>1
    <3>3. k \in 0..n BY <1>5, <1>9, <3>2
    <3> QED BY <3>2, <3>3
  <2>2. ASSUME NEW i \in 0..n PROVE StartOf(a + i) \in WeeksShown(b, now)
    <3>1. i \in 0..last /\ i \in Nat /\ i <= n BY <1>5, <1>6
    <3>2. start[i] = StartOf(a + i) /\ start[i] <= weekStartOf(now) BY <1>2, <1>7, <1>9, <3>1
    <3> QED BY <1>8, <3>1, <3>2
  <2> QED BY <2>1, <2>2
<1>11. WeeksAre(a, n, opened, now) BY <1>1, <1>2, <1>3, <1>5 DEF WeeksAre
<1> QED BY <1>5, <1>10, <1>11 DEF opened, Weeks

\* A week lasts to the next one, and the current one to the present.
WeekEnds(a, n, now, i) ==
  /\ i = n => EndOf(StartOf(a + i), now) = now + 1
  /\ i # n => EndOf(StartOf(a + i), now) = StartOf(a + (i + 1))

LEMMA EndIs ==
  ASSUME NEW a \in Int, NEW n \in Nat, NEW opened \in Int, NEW now \in Int, WeeksAre(a, n, opened, now),
         NEW i \in 0..n
  PROVE  WeekEnds(a, n, now, i)
<1> DEFINE p == a + i
           z == a + n
<1>1. p \in Int /\ z \in Int /\ p + 1 = a + (i + 1) /\ (p = z <=> i = n) OBVIOUS
<1>2. weekStartOf(now) = StartOf(z) BY DEF WeeksAre
<1> HIDE DEF p, z
<1>3. nextWeekStart(StartOf(p)) = StartOf(p + 1) BY <1>1, NextIs
<1>4. StartOf(p) = StartOf(z) => p = z
  <2>1. /\ StartOf(p) \in Int /\ StartOf(z) \in Int /\ (StartOf(p) <= StartOf(z) <=> p <= z)
        /\ (StartOf(z) <= StartOf(p) <=> z <= p)
    BY <1>1, WeekOrder
  <2> QED BY <1>1, <2>1
<1> QED BY <1>1, <1>2, <1>3, <1>4 DEF EndOf, WeekEnds, p

LEMMA WeeksAreInt ==
  ASSUME NEW b, b.opened \in Nat, NEW now \in Nat, b.opened <= now
  PROVE  \A w \in WeeksShown(b, now) : w \in Int /\ EndOf(w, now) \in Int /\ w <= EndOf(w, now)
<1> DEFINE opened == b.opened
<1>1. PICK a \in Int, n \in Nat :
        WeeksAre(a, n, opened, now) /\ WeeksShown(b, now) = Weeks(a, n)
  BY WeeksShownAre
<1>w. WeeksAre(a, n, opened, now) BY <1>1
<1>0. opened \in Int /\ now \in Int OBVIOUS
<1> HIDE DEF opened
<1> SUFFICES ASSUME NEW w, w \in WeeksShown(b, now)
             PROVE  w \in Int /\ EndOf(w, now) \in Int /\ w <= EndOf(w, now)
  OBVIOUS
<1>2. PICK i \in 0..n : w = StartOf(a + i) BY <1>1 DEF Weeks
<1>3. /\ i = n => EndOf(StartOf(a + i), now) = now + 1
      /\ i # n => EndOf(StartOf(a + i), now) = StartOf(a + (i + 1))
  <2>1. WeekEnds(a, n, now, i) BY <1>0, <1>w, EndIs
  <2> QED BY <2>1 DEF WeekEnds
<1> DEFINE p == a + i
           q == a + (i + 1)
           z == a + n
<1>4. p \in Int /\ q \in Int /\ p < q /\ z \in Int OBVIOUS
<1>5. (i = n => p = z) /\ StartOf(z) <= now BY <1>1 DEF WeeksAre
<1>6. w = StartOf(p) /\ (i = n => EndOf(w, now) = now + 1) /\ (i # n => EndOf(w, now) = StartOf(q))
  BY <1>2, <1>3
<1> HIDE DEF p, q, z
<1>7. StartOf(p) < StartOf(q) /\ StartOf(p) \in Int /\ StartOf(q) \in Int BY <1>4, WeeksIncrease
<1> QED BY <1>0, <1>5, <1>6, <1>7

\* The weekly changes of a quantity add up to what it is now, if it began with nothing.
LEMMA WeeklyChangesAddUp ==
  ASSUME NEW b, b.opened \in Nat, NEW now \in Nat, b.opened <= now,
         NEW Q, \A t \in Int : Q[t] \in Int, \A t \in Int : t <= b.opened => Q[t] = 0,
         NEW val, DOMAIN val = WeeksShown(b, now), val = [w \in DOMAIN val |-> val[w]],
         \A w \in DOMAIN val : val[w] = Q[EndOf(w, now)] - Q[w]
  PROVE  Added(val) = Q[now + 1]
<1> DEFINE opened == b.opened
<1>1. PICK a \in Int, n \in Nat :
        WeeksAre(a, n, opened, now) /\ WeeksShown(b, now) = Weeks(a, n)
  BY WeeksShownAre
<1>w. WeeksAre(a, n, opened, now) BY <1>1
<1>0. opened \in Int /\ now \in Int OBVIOUS
<1> HIDE DEF opened
<1> DEFINE at == [i \in 0..n |-> StartOf(a + i)]
           W == {at[i] : i \in 0..n}
           G == [i \in 0..(n + 1) |-> IF i = n + 1 THEN Q[now + 1] ELSE Q[StartOf(a + i)]]
<1>2. W = WeeksShown(b, now) BY <1>1 DEF Weeks
<1>3. \A i \in 0..(n + 1) : StartOf(a + i) \in Int
  <2> SUFFICES ASSUME NEW i \in 0..(n + 1) PROVE StartOf(a + i) \in Int OBVIOUS
  <2> DEFINE p == a + i
  <2>1. p \in Int OBVIOUS
  <2> HIDE DEF p
  <2>2. StartOf(p) \in Int BY <2>1, WeekOrder
  <2> QED BY <2>2 DEF p
<1>4. \A i \in 0..(n + 1) : G[i] \in Int
  <2>1. now + 1 \in Int OBVIOUS
  <2> QED BY <1>3, <2>1
<1>5. \A i, j \in 0..n : i < j => at[i] # at[j]
  <2> SUFFICES ASSUME NEW i \in 0..n, NEW j \in 0..n, i < j PROVE at[i] # at[j] OBVIOUS
  <2> DEFINE p == a + i
             q == a + j
  <2>1. p \in Int /\ q \in Int /\ p < q /\ at[i] = StartOf(p) /\ at[j] = StartOf(q) OBVIOUS
  <2> HIDE DEF p, q, at
  <2>2. StartOf(p) < StartOf(q) /\ StartOf(p) \in Int BY <2>1, WeeksIncrease
  <2> QED BY <2>1, <2>2
<1>6. \A i \in 0..n : val[at[i]] = G[i + 1] - G[i]
  <2> SUFFICES ASSUME NEW i \in 0..n PROVE val[at[i]] = G[i + 1] - G[i] OBVIOUS
  <2>1. at[i] = StartOf(a + i) /\ at[i] \in DOMAIN val BY <1>2
  <2>2. /\ i = n => EndOf(StartOf(a + i), now) = now + 1
        /\ i # n => EndOf(StartOf(a + i), now) = StartOf(a + (i + 1))
    <3>1. WeekEnds(a, n, now, i) BY <1>0, <1>w, EndIs
    <3> QED BY <3>1 DEF WeekEnds
  <2>3. val[at[i]] = Q[EndOf(at[i], now)] - Q[at[i]] BY <2>1
  <2>4. i \in 0..(n + 1) /\ i # n + 1 /\ i + 1 \in 0..(n + 1) /\ (i + 1 = n + 1 <=> i = n) OBVIOUS
  <2>5. G[i] = Q[StartOf(a + i)] BY <2>4
  <2>6. G[i + 1] = IF i = n THEN Q[now + 1] ELSE Q[StartOf(a + (i + 1))] BY <2>4
  <2> HIDE DEF G, at
  <2>7. G[i + 1] = Q[EndOf(StartOf(a + i), now)] BY <2>2, <2>6
  <2> QED BY <2>1, <2>3, <2>5, <2>7
<1>7. val \in [W -> Int]
  <2>1. \A w \in W : val[w] \in Int
    <3> SUFFICES ASSUME NEW i \in 0..n PROVE val[at[i]] \in Int OBVIOUS
    <3>1. i \in 0..(n + 1) /\ i + 1 \in 0..(n + 1) OBVIOUS
    <3> HIDE DEF G, at
    <3> QED BY <1>4, <1>6, <3>1
  <2> HIDE DEF W, G, at
  <2> QED BY <1>2, <2>1
<1>8. G[0] = 0 /\ G[n + 1] = Q[now + 1]
  <2>1. 0 \in 0..(n + 1) /\ 0 # n + 1 /\ n + 1 \in 0..(n + 1) /\ a + 0 = a OBVIOUS
  <2>2. G[0] = Q[StartOf(a)] /\ G[n + 1] = Q[now + 1] BY <2>1
  <2>3. StartOf(a) <= opened /\ StartOf(a) \in Int
    <3>1. StartOf(a + 0) \in Int BY <1>3, <2>1
    <3> QED BY <1>1, <2>1, <3>1 DEF WeeksAre
  <2> QED BY <2>2, <2>3 DEF opened
<1>9. Q[now + 1] \in Int
  <2>1. now + 1 \in Int OBVIOUS
  <2> QED BY <2>1
<1>a. GainsOnWalk(W, n, at, val, G)
  <2>1. W = {at[i] : i \in 0..n} OBVIOUS
  <2> HIDE DEF W, G, at
  <2> QED BY <1>4, <1>5, <1>6, <1>7, <2>1 DEF GainsOnWalk
<1> HIDE DEF W, G, at
<1>10. Added(val) = G[n + 1] - G[0] BY <1>a, WalkAddsUp
<1> QED BY <1>8, <1>9, <1>10

LEMMA GainsAddUp ==
  ASSUME NEW b, NEW now \in Nat, BookIsSound(b, now), NEW h \in Holder
  PROVE  gainMicros(b, now, h) = Added([w \in WeeksShown(b, now) |-> WeekOf(b, now, h, w).gain])
<1> DEFINE Q == [t \in Int |-> gainAt(b, h, t)]
           val == [w \in WeeksShown(b, now) |-> WeekOf(b, now, h, w).gain]
<1>1. BookShape(b) /\ b.opened \in Nat /\ b.opened <= now BY DEF BookIsSound, BookShape, BookIsTimely
<1>2. \A t \in Int : Q[t] = gainAt(b, h, t) OBVIOUS
<1>3. \A t \in Int : Q[t] \in Int BY <1>1, GainIsInt
<1>4. \A t \in Int : t <= b.opened => Q[t] = 0 BY GainBeforeTheSeason
<1>5. \A w \in WeeksShown(b, now) : w \in Int /\ EndOf(w, now) \in Int BY <1>1, WeeksAreInt
<1>6. DOMAIN val = WeeksShown(b, now) /\ val = [w \in DOMAIN val |-> val[w]] OBVIOUS
<1>7. \A w \in DOMAIN val : val[w] = Q[EndOf(w, now)] - Q[w] BY <1>5 DEF WeekOf
<1> HIDE DEF Q, val
<1>8. Added(val) = Q[now + 1] BY <1>1, <1>3, <1>4, <1>6, <1>7, WeeklyChangesAddUp
<1>9. Q[now + 1] = gainMicros(b, now, h)
  <2>1. now + 1 \in Int OBVIOUS
  <2> QED BY <1>2, <2>1, GainByNow
<1> QED BY <1>8, <1>9 DEF val

LEMMA RisksAddUp ==
  ASSUME NEW b, NEW now \in Nat, BookIsSound(b, now), NEW h \in Holder
  PROVE  RiskedBy(b, h, b.opened, now + 1)
           = Added([w \in WeeksShown(b, now) |-> WeekOf(b, now, h, w).risked])
<1> DEFINE Q == [t \in Int |-> Stake * Cardinality(StakedBefore(b, h, t))]
           val == [w \in WeeksShown(b, now) |-> WeekOf(b, now, h, w).risked]
<1>1. BookShape(b) /\ b.opened \in Nat /\ b.opened <= now BY DEF BookIsSound, BookShape, BookIsTimely
<1>2. \A t \in Int : Q[t] = Stake * Cardinality(StakedBefore(b, h, t)) OBVIOUS
<1>3. \A t \in Int : Q[t] \in Int
  <2> SUFFICES ASSUME NEW t \in Int PROVE Q[t] \in Int OBVIOUS
  <2>1. t <= t OBVIOUS
  <2>2. Stake * Cardinality(StakedBefore(b, h, t)) \in Int BY <1>1, <2>1, RiskIsTheDifference
  <2> QED BY <1>2, <2>2
<1>4. \A t \in Int : t <= b.opened => Q[t] = 0
  <2> SUFFICES ASSUME NEW t \in Int, t <= b.opened PROVE Q[t] = 0 OBVIOUS
  <2>1. ASSUME NEW x \in Bet, b.bets[x].status \in {"open", "won", "lost"} PROVE ~ (b.bets[x].at < t)
    <3>1. b.opened <= b.bets[x].at BY <2>1 DEF BookIsSound, BookIsTimely
    <3>2. b.bets[x].at \in Nat BY <1>1 DEF BookShape, BetRow
    <3> QED BY <1>1, <3>1, <3>2
  <2>2. StakedBefore(b, h, t) = {} BY <2>1 DEF StakedBefore
  <2>3. Cardinality({}) = 0 /\ Stake \in Nat BY FS_EmptySet, StandingsAssumption
  <2>4. Stake * 0 = 0 BY <2>3
  <2> QED BY <1>2, <2>2, <2>3, <2>4
<1>5. \A w \in WeeksShown(b, now) : w \in Int /\ EndOf(w, now) \in Int /\ w <= EndOf(w, now)
  BY <1>1, WeeksAreInt
<1>6. DOMAIN val = WeeksShown(b, now) /\ val = [w \in DOMAIN val |-> val[w]] OBVIOUS
<1>7. \A w \in DOMAIN val : val[w] = Q[EndOf(w, now)] - Q[w]
  <2> SUFFICES ASSUME NEW w \in WeeksShown(b, now) PROVE val[w] = Q[EndOf(w, now)] - Q[w] OBVIOUS
  <2> DEFINE e == EndOf(w, now)
  <2>1. w \in Int /\ e \in Int /\ w <= e BY <1>5
  <2>2. val[w] = RiskedBy(b, h, w, e) BY DEF WeekOf
  <2> HIDE DEF e, val, Q
  <2>3. RiskedBy(b, h, w, e) = Stake * Cardinality(StakedBefore(b, h, e))
                                 - Stake * Cardinality(StakedBefore(b, h, w))
    BY <1>1, <2>1, RiskIsTheDifference
  <2> QED BY <1>2, <2>1, <2>2, <2>3 DEF e
<1> HIDE DEF Q, val
<1>8. Added(val) = Q[now + 1] BY <1>1, <1>3, <1>4, <1>6, <1>7, WeeklyChangesAddUp
<1>9. RiskedBy(b, h, b.opened, now + 1) = Q[now + 1]
  <2> DEFINE s == b.opened
             t == now + 1
  <2>1. s \in Int /\ t \in Int /\ s <= t /\ s <= b.opened BY <1>1
  <2>2. RiskedBy(b, h, s, t) = RiskedBy(b, h, b.opened, now + 1) OBVIOUS
  <2> HIDE DEF s, t
  <2>3. RiskedBy(b, h, s, t) = Stake * Cardinality(StakedBefore(b, h, t))
                                 - Stake * Cardinality(StakedBefore(b, h, s))
    BY <1>1, <2>1, RiskIsTheDifference
  <2>4. RiskedBy(b, h, s, t) = Q[t] - Q[s] BY <1>2, <2>1, <2>3
  <2>5. Q[s] = 0 /\ Q[t] \in Int BY <1>3, <1>4, <2>1
  <2> QED BY <2>2, <2>4, <2>5 DEF t
<1> QED BY <1>8, <1>9 DEF val

\* The history accounts for what a member holds: it was so at the last of the member's rows.
LEMMA HistoryAccounts ==
  ASSUME NEW b, BookShape(b), BookAddsUp(b), NEW h \in Holder, NEW k0 \in 1..Len(b.posted),
         b.posted[k0].holder = h
  PROVE  Attained(b, h) # {}
<1> DEFINE n == Len(b.posted)
           S == {j \in Nat : j <= n /\ \A k \in j + 1..n : b.posted[k].holder # h}
           f == [k \in 1..n |-> In(b.posted[k], "held", h)]
<1>1. b.posted \in Seq(PostedRow) BY DEF BookShape
<1>2. n \in Nat /\ \A k \in 1..n : b.posted[k] \in PostedRow BY <1>1
<1>3. f \in [1..n -> Int] BY <1>2, ColumnsAre, InIsInt
<1>4. PICK m \in S : \A j \in S : m <= j
  <2>1. n \in S BY <1>2
  <2>2. S \subseteq Nat OBVIOUS
  <2> HIDE DEF S
  <2> QED BY <2>1, <2>2, LeastNatural
<1>5. m \in Nat /\ m <= n /\ \A k \in m + 1..n : b.posted[k].holder # h BY <1>4
<1>6. m \in 1..n /\ b.posted[m].holder = h
  <2>1. m # 0
    <3> SUFFICES ASSUME m = 0 PROVE FALSE OBVIOUS
    <3>1. k0 \in m + 1..n BY <1>2
    <3> QED BY <1>5, <3>1
  <2> DEFINE j == m - 1
  <2>2. j \in Nat /\ j <= n /\ ~ (m <= j) /\ j + 1 = m BY <1>2, <1>5, <2>1
  <2>a. j \notin S
    <3> HIDE DEF S, j
    <3> QED BY <1>4, <2>2
  <2> HIDE DEF j
  <2>3. PICK k \in j + 1..n : b.posted[k].holder = h BY <2>2, <2>a
  <2>4. k = m \/ k \in m + 1..n BY <1>2, <1>5, <2>2, <2>3
  <2>5. k = m BY <1>5, <2>3, <2>4
  <2> QED BY <1>2, <1>5, <2>1, <2>3, <2>5
<1> DEFINE g == [k \in 1..m |-> In(b.posted[k], "held", h)]
           p == SubSeq(b.posted, 1, m)
<1>7. Total(f, n) = Total(g, m)
  <2>1. \A k \in 1..m : k \in 1..n BY <1>2, <1>5
  <2>2. g \in [1..m -> Int] /\ \A k \in 1..m : f[k] = g[k] BY <1>3, <2>1
  <2>3. \A k \in m + 1..n : f[k] = 0
    <3> SUFFICES ASSUME NEW k \in m + 1..n PROVE f[k] = 0 OBVIOUS
    <3>1. k \in 1..n /\ b.posted[k].holder # h BY <1>2, <1>5
    <3>2. In(b.posted[k], "held", h) = 0 BY <3>1 DEF In
    <3> QED BY <3>1, <3>2
  <2> HIDE DEF f, g, n
  <2>4. ZeroAfter(f, n, g, m) BY <1>2, <1>5, <2>2, <2>3 DEF ZeroAfter
  <2> QED BY <2>4, TotalOfZeroTail
<1>8. HoldingsAfter(b, h, m) = Total(g, m)
  <2>1. Len(p) = m /\ \A k \in 1..m : p[k] = b.posted[k]
    <3> DEFINE q == b.posted
    <3>1. q \in Seq(PostedRow) /\ m \in 1..Len(q) BY <1>1, <1>6
    <3> HIDE DEF q
    <3>2. Len(SubSeq(q, 1, m)) = m /\ \A k \in 1..m : SubSeq(q, 1, m)[k] = q[k] BY <3>1
    <3> QED BY <3>2 DEF q
  <2>2. HoldingsAfter(b, h, m)
          = Total([k \in 1..Len(p) |-> IF p[k].holder = h THEN p[k].available + p[k].locked ELSE 0], Len(p))
    BY DEF HoldingsAfter, SumOf, Sum
  <2>3. g = [k \in 1..m |-> IF p[k].holder = h THEN p[k].available + p[k].locked ELSE 0]
    BY <2>1 DEF In
  <2> HIDE DEF p, g
  <2> QED BY <2>1, <2>2, <2>3
<1>9. Holdings(b, h) = Total(f, n)
  <2>1. BalanceIn(b, "held", h) = AllIn(b.posted, "held", h) BY ColumnsAre DEF BookAddsUp
  <2> QED BY <2>1 DEF AllIn, BalanceIn, Holdings
<1> QED BY <1>6, <1>7, <1>8, <1>9 DEF Attained

LEMMA WeeksAlwaysAddUp == StandingsInv => WeeksAddUp
<1> SUFFICES ASSUME StandingsInv, NEW h \in Holder
             PROVE  /\ gainMicros(book, hour, h)
                         = Added([w \in WeeksShown(book, hour) |-> WeekOf(book, hour, h, w).gain])
                    /\ RiskedBy(book, h, book.opened, hour + 1)
                         = Added([w \in WeeksShown(book, hour) |-> WeekOf(book, hour, h, w).risked])
                    /\ (\E k \in 1..Len(book.posted) : book.posted[k].holder = h) => Attained(book, h) # {}
  BY DEF WeeksAddUp
<1>1. hour \in Nat /\ BookIsSound(book, hour) /\ BookShape(book) /\ BookAddsUp(book)
  BY DEF StandingsInv, BookIsSound
<1> QED BY <1>1, GainsAddUp, RisksAddUp, HistoryAccounts

(* The weekly standings: weeks that are over *)

\* What was before a moment is the same in a later book, refunds aside.
SameRefunds(b, d) == \A x \in Bet : b.bets[x].status = "refunded" <=> d.bets[x].status = "refunded"

LEMMA BeforeIsKept ==
  ASSUME NEW b, NEW d, NEW now \in Nat, BookShape(b), BookShape(d), Continues(b, d, now), SameRefunds(b, d),
         NEW c \in Column, NEW h, NEW cutoff \in Int, cutoff <= now
  PROVE  BeforeIn(d, cutoff, c, h) = BeforeIn(b, cutoff, c, h)
<1> DEFINE m == Len(b.posted)
           n == Len(d.posted)
           g == [k \in 1..m |-> IF b.posted[k].at < cutoff /\ ~Excluded(b, b.posted[k])
                                THEN In(b.posted[k], c, h) ELSE 0]
           f == [k \in 1..n |-> IF d.posted[k].at < cutoff /\ ~Excluded(d, d.posted[k])
                                THEN In(d.posted[k], c, h) ELSE 0]
<1>1. /\ m \in Nat /\ n \in Nat /\ m <= n /\ \A k \in 1..m : d.posted[k] = b.posted[k]
      /\ \A k \in m + 1..n : d.posted[k].at = now
  BY DEF Continues, Grows
<1>2. b.posted \in Seq(PostedRow) BY DEF BookShape
<1>3. \A k \in 1..m : b.posted[k] \in PostedRow BY <1>2
<1>4. \A k \in 1..m : In(b.posted[k], c, h) \in Int BY <1>3, InIsInt
<1>5. g \in [1..m -> Int] BY <1>4
<1>6. \A k \in 1..m : f[k] = g[k]
  <2> SUFFICES ASSUME NEW k \in 1..m PROVE f[k] = g[k] OBVIOUS
  <2> DEFINE r == b.posted[k]
  <2>1. k \in 1..n /\ d.posted[k] = r /\ r \in PostedRow BY <1>1, <1>3
  <2>2. r.kind \in OfBets => r.cause \in Bet BY <2>1 DEF PostedRow
  <2>3. Excluded(d, r) <=> Excluded(b, r) BY <2>2 DEF Excluded, OfBets, SameRefunds
  <2>4. f[k] = (IF r.at < cutoff /\ ~Excluded(d, r) THEN In(r, c, h) ELSE 0) BY <2>1
  <2>5. g[k] = (IF r.at < cutoff /\ ~Excluded(b, r) THEN In(r, c, h) ELSE 0) OBVIOUS
  <2> HIDE DEF f, g, r
  <2> QED BY <2>3, <2>4, <2>5
<1>7. \A k \in m + 1..n : f[k] = 0
  <2> SUFFICES ASSUME NEW k \in m + 1..n PROVE f[k] = 0 OBVIOUS
  <2>1. k \in 1..n /\ d.posted[k].at = now /\ ~ (now < cutoff) BY <1>1
  <2> QED BY <2>1
<1>8. BeforeIn(b, cutoff, c, h) = Total(g, m) /\ BeforeIn(d, cutoff, c, h) = Total(f, n) BY DEF BeforeIn
<1> HIDE DEF f, g, m, n
<1>9. ZeroAfter(f, n, g, m) BY <1>1, <1>5, <1>6, <1>7 DEF ZeroAfter
<1> QED BY <1>8, <1>9, TotalOfZeroTail

LEMMA IssuedIsKept ==
  ASSUME NEW b, NEW d, NEW now \in Nat, BookShape(b), BookShape(d), Continues(b, d, now),
         NEW h, NEW cutoff \in Int, cutoff <= now
  PROVE  IssuedBy(d, h, cutoff) = IssuedBy(b, h, cutoff)
<1> DEFINE m == Len(b.orders)
           n == Len(d.orders)
           g == IssuedIn(b, h, cutoff)
           f == IssuedIn(d, h, cutoff)
<1>1. /\ m \in Nat /\ n \in Nat /\ m <= n /\ \A k \in 1..m : d.orders[k] = b.orders[k]
      /\ \A k \in m + 1..n : d.orders[k].at = now
  BY DEF Continues, Grows
<1>2. g \in [1..m -> Int] BY IssuedIsInt
<1>3. \A k \in 1..m : f[k] = g[k]
  <2> SUFFICES ASSUME NEW k \in 1..m PROVE f[k] = g[k] OBVIOUS
  <2>1. k \in 1..n /\ d.orders[k] = b.orders[k] BY <1>1
  <2> QED BY <2>1 DEF IssuedIn
<1>4. \A k \in m + 1..n : f[k] = 0
  <2> SUFFICES ASSUME NEW k \in m + 1..n PROVE f[k] = 0 OBVIOUS
  <2>1. k \in 1..n /\ d.orders[k].at = now /\ ~ (now < cutoff) BY <1>1
  <2> QED BY <2>1 DEF IssuedIn
<1>5. IssuedBy(b, h, cutoff) = Total(g, m) /\ IssuedBy(d, h, cutoff) = Total(f, n) BY IssuedIs
<1> HIDE DEF f, g, m, n
<1>6. ZeroAfter(f, n, g, m) BY <1>1, <1>2, <1>3, <1>4 DEF ZeroAfter
<1> QED BY <1>5, <1>6, TotalOfZeroTail

LEMMA GainIsKept ==
  ASSUME NEW b, NEW d, NEW now \in Nat, BookShape(b), BookShape(d), Continues(b, d, now), SameRefunds(b, d),
         NEW h, NEW cutoff \in Int, cutoff <= now
  PROVE  gainAt(d, h, cutoff) = gainAt(b, h, cutoff)
<1>1. /\ BeforeIn(d, cutoff, "held", h) = BeforeIn(b, cutoff, "held", h)
      /\ BeforeIn(d, cutoff, "float", h) = BeforeIn(b, cutoff, "float", h)
      /\ BeforeIn(d, cutoff, "notional", h) = BeforeIn(b, cutoff, "notional", h)
  BY ColumnsAre, BeforeIsKept
<1>2. IssuedBy(d, h, cutoff) = IssuedBy(b, h, cutoff) BY IssuedIsKept
<1> QED BY <1>1, <1>2, GainIs

LEMMA RiskIsKept ==
  ASSUME NEW b, NEW d, NEW now \in Nat, BookShape(b), BookShape(d), Continues(b, d, now), SameRefunds(b, d),
         NEW h, NEW from \in Int, NEW to \in Int, to <= now
  PROVE  RiskedBy(d, h, from, to) = RiskedBy(b, h, from, to)
<1> DEFINE D == {x \in Bet : /\ b.bets[x].status \in {"open", "won", "lost"} /\ b.bets[x].owner = h
                             /\ from <= b.bets[x].at /\ b.bets[x].at < to}
           E == {x \in Bet : /\ d.bets[x].status \in {"open", "won", "lost"} /\ d.bets[x].owner = h
                             /\ from <= d.bets[x].at /\ d.bets[x].at < to}
<1>1. ASSUME NEW x \in Bet PROVE x \in D <=> x \in E
  <2>1. b.bets[x] \in BetRow /\ d.bets[x] \in BetRow BY DEF BookShape
  <2>2. KeepsBet(b.bets[x], d.bets[x], now) BY DEF Continues
  <2>3. b.bets[x].status = "refunded" <=> d.bets[x].status = "refunded" BY DEF SameRefunds
  <2> QED BY <2>1, <2>2, <2>3 DEF KeepsBet, BetRow
<1>2. D = E BY <1>1
<1>3. RiskedBy(b, h, from, to) = Stake * Cardinality(D) BY DEF RiskedBy
<1>4. RiskedBy(d, h, from, to) = Stake * Cardinality(E) BY DEF RiskedBy
<1> HIDE DEF D, E
<1> QED BY <1>2, <1>3, <1>4

\* A week that is over ends when it did.
LEMMA EndIsKept ==
  ASSUME NEW b, b.opened \in Nat, NEW now \in Nat, b.opened <= now, NEW later \in Nat, now <= later,
         NEW start, start \in WeeksShown(b, now), start # weekStartOf(now)
  PROVE  /\ start \in Int /\ EndOf(start, now) \in Int
         /\ start <= now /\ EndOf(start, now) <= now /\ EndOf(start, later) = EndOf(start, now)
<1> DEFINE opened == b.opened
<1>1. PICK a \in Int, n \in Nat : WeeksAre(a, n, opened, now) /\ WeeksShown(b, now) = Weeks(a, n)
  BY WeeksShownAre
<1> HIDE DEF opened
<1>2. PICK i \in 0..n : start = StartOf(a + i) BY <1>1 DEF Weeks
<1> DEFINE p == a + i
           q == p + 1
           z == a + n
<1>3. weekStartOf(now) = StartOf(z) /\ StartOf(z) <= now BY <1>1 DEF WeeksAre
<1>4. p \in Int /\ q \in Int /\ z \in Int /\ p < q /\ (p < z => q <= z) /\ (p # z => p < z) OBVIOUS
<1>5. start = StartOf(p) BY <1>2
<1>6. p < z
  <2>1. p # z BY <1>3, <1>5
  <2> QED BY <1>4, <2>1
<1>7. nextWeekStart(StartOf(p)) = StartOf(q) BY NextIs
<1> HIDE DEF p, q, z
<1>8. StartOf(p) \in Int /\ StartOf(q) \in Int /\ StartOf(z) \in Int /\ StartOf(p) < StartOf(q)
  BY <1>4, WeeksIncrease
<1>9. StartOf(q) <= StartOf(z) BY <1>4, <1>6, WeekOrder
<1>10. start # weekStartOf(later)
  <2>0. later \in Int OBVIOUS
  <2>1. PICK y \in Int : weekStartOf(later) = StartOf(y) /\ later < StartOf(y + 1) BY <2>0, WeekStartIs
  <2> DEFINE y1 == y + 1
  <2>2. y1 \in Int /\ (z < y1 <=> z <= y) BY <1>4
  <2>3. later < StartOf(y1) BY <2>1
  <2> HIDE DEF y1
  <2>4. StartOf(y1) \in Int /\ (StartOf(y1) <= StartOf(z) <=> y1 <= z) BY <1>4, <2>2, WeekOrder
  <2>5. z < y1 BY <1>3, <1>4, <1>8, <2>2, <2>3, <2>4
  <2>6. p < y BY <1>4, <1>6, <2>2, <2>5
  <2>7. StartOf(p) < StartOf(y) /\ StartOf(y) \in Int BY <1>4, <2>6, WeeksIncrease
  <2> QED BY <1>5, <1>8, <2>1, <2>7
<1>11. EndOf(start, now) = StartOf(q) /\ EndOf(start, later) = StartOf(q)
  BY <1>5, <1>7, <1>10 DEF EndOf
<1> QED BY <1>3, <1>5, <1>8, <1>9, <1>11

\* A step leaves the row of a week that is over as it was, unless a wager becomes a refund
\* or stops being one.
LEMMA PastWeeksAreKept ==
  StandingsInv /\ [StandingsNext]_standingsVars =>
    ((\A x \in Bet : book.bets[x].status = "refunded" <=> book'.bets[x].status = "refunded") =>
       \A h \in Holder, start \in WeeksShown(book, hour) \ {weekStartOf(hour)} :
         WeekOf(book', hour', h, start) = WeekOf(book, hour, h, start))
<1> SUFFICES ASSUME StandingsInv, [StandingsNext]_standingsVars,
                    \A x \in Bet : book.bets[x].status = "refunded" <=> book'.bets[x].status = "refunded",
                    NEW h \in Holder, NEW start, start \in WeeksShown(book, hour) \ {weekStartOf(hour)}
             PROVE  WeekOf(book', hour', h, start) = WeekOf(book, hour, h, start)
  OBVIOUS
<1>1. StandingsInv' /\ hour <= hour' /\ Continues(book, book', hour) BY StandingsSteps
<1>2. /\ hour \in Nat /\ BookShape(book) /\ book.opened \in Nat /\ book.opened <= hour
  BY DEF StandingsInv, BookIsSound, BookIsTimely, BookShape
<1>3. hour' \in Nat /\ BookShape(book') BY <1>1 DEF StandingsInv, BookIsSound
<1>4. SameRefunds(book, book') BY DEF SameRefunds
<1> DEFINE b == book
           d == book'
           now == hour
           later == hour'
           end == EndOf(start, now)
<1>5. /\ start \in Int /\ end \in Int /\ start <= now /\ end <= now /\ EndOf(start, later) = end
  <2>1. start \in WeeksShown(b, now) /\ start # weekStartOf(now) OBVIOUS
  <2>2. b.opened \in Nat /\ now \in Nat /\ b.opened <= now /\ later \in Nat /\ now <= later BY <1>1, <1>2, <1>3
  <2> HIDE DEF b, now, later
  <2> QED BY <2>1, <2>2, EndIsKept DEF end
<1>6. /\ BookShape(b) /\ BookShape(d) /\ Continues(b, d, now) /\ SameRefunds(b, d) /\ now \in Nat
  BY <1>1, <1>2, <1>3, <1>4
<1>7. /\ WeekOf(b, now, h, start) = [gain   |-> gainAt(b, h, end) - gainAt(b, h, start),
                                     risked |-> RiskedBy(b, h, start, end)]
      /\ WeekOf(d, later, h, start) = [gain   |-> gainAt(d, h, end) - gainAt(d, h, start),
                                       risked |-> RiskedBy(d, h, start, end)]
  BY <1>5 DEF WeekOf
<1> HIDE DEF b, d, now, later, end
<1>8. gainAt(d, h, end) = gainAt(b, h, end) /\ gainAt(d, h, start) = gainAt(b, h, start)
  BY <1>5, <1>6, GainIsKept
<1>9. RiskedBy(d, h, start, end) = RiskedBy(b, h, start, end) BY <1>5, <1>6, RiskIsKept
<1>10. WeekOf(d, later, h, start) = WeekOf(b, now, h, start) BY <1>7, <1>8, <1>9
<1> QED BY <1>10 DEF b, d, now, later

\* The history of a season accounts for its balances: what a member holds, the float and
\* the notional value are the sums of their columns, the rows of a wager come to what its
\* status says, and all of them are between the season's opening and the present.
THEOREM SeasonHistoryIsSound == StandingsSpec => []StandingsInv
<1>1. StandingsInit => StandingsInv BY StandingsStart
<1>2. StandingsInv /\ [StandingsNext]_standingsVars => StandingsInv' BY StandingsSteps
<1> QED BY <1>1, <1>2, PTL DEF StandingsSpec

\* The weekly standings hold: the calendar of Pacific Tuesdays is right across both changes
\* of the clock, the changes of the weeks (standingWeeklyChanges) add up to the standings
\* as they are, and a week that is over stays as it was unless a refund comes or goes.
THEOREM StandingsAlwaysHold == StandingsSpec => WeeklyStandingsHold
<1>1. StandingsSpec => []StandingsInv BY SeasonHistoryIsSound
<1>2. StandingsInv => CalendarHolds /\ WeeksAddUp BY CalendarAlwaysHolds, WeeksAlwaysAddUp
<1>3. StandingsInv /\ [StandingsNext]_standingsVars =>
        [(\A x \in Bet : book.bets[x].status = "refunded" <=> book'.bets[x].status = "refunded") =>
           \A h \in Holder, start \in WeeksShown(book, hour) \ {weekStartOf(hour)} :
             WeekOf(book', hour', h, start) = WeekOf(book, hour, h, start)]_standingsVars
  BY PastWeeksAreKept
<1> QED BY <1>1, <1>2, <1>3, PTL DEF StandingsSpec, WeeklyStandingsHold, PastWeeksStand

(* The weeks a profile offers *)

\* Of the weeks up to z, those after q are as many as there are numbers between.
LEMMA LaterWeeks ==
  ASSUME NEW q \in Int, NEW z \in Int, q <= z
  PROVE  Cardinality({StartOf(p) : p \in q + 1..z}) = z - q
<1> DEFINE S == q + 1..z
           T == {StartOf(p) : p \in S}
           f == [p \in S |-> StartOf(p)]
<1>1. S \subseteq Int /\ \A p \in S : f[p] = StartOf(p) OBVIOUS
<1>2. T = {f[p] : p \in S} /\ f = [p \in S |-> f[p]] OBVIOUS
<1>3. IsFiniteSet(S) /\ Cardinality(S) = z - q
  <2> DEFINE b == q + 1
  <2>1. b \in Int /\ S = b..z OBVIOUS
  <2> HIDE DEF b
  <2>2. IsFiniteSet(b..z) /\ Cardinality(b..z) = IF b > z THEN 0 ELSE z - b + 1 BY <2>1, FS_Interval
  <2> QED BY <2>1, <2>2 DEF b
<1> HIDE DEF S, T, f
<1>4. \A p, r \in S : f[p] = f[r] => p = r
  <2> SUFFICES ASSUME NEW p \in S, NEW r \in S, f[p] = f[r] PROVE p = r OBVIOUS
  <2>1. p \in Int /\ r \in Int /\ StartOf(p) = StartOf(r) BY <1>1
  <2>2. /\ StartOf(p) \in Int /\ StartOf(r) \in Int /\ (StartOf(p) <= StartOf(r) <=> p <= r)
        /\ (StartOf(r) <= StartOf(p) <=> r <= p)
    BY <2>1, WeekOrder
  <2> QED BY <2>1, <2>2
<1>5. f \in Bijection(S, T) BY <1>2, <1>4 DEF Bijection, Injection, Surjection, IsInjective
<1>6. ExistsBijection(S, T) BY <1>5 DEF ExistsBijection
<1>7. Cardinality(T) = Cardinality(S) BY <1>3, <1>6, FS_Bijection
<1> QED BY <1>3, <1>7 DEF S, T

\* The seasons up to hour t are the weeks from that of hour 0 to that of t.
LEMMA SeasonsAre ==
  ASSUME NEW t \in Calendar
  PROVE  \E a \in Int, z \in Int :
           /\ a <= z /\ ptOffset(168 * a) = -7 /\ Anchor = StartOf(a) /\ weekStartOf(t) = StartOf(z)
           /\ {weekStartOf(s) : s \in {u \in Calendar : u % Hours = 0 /\ u <= t} \cup {t}}
                = {StartOf(q) : q \in a..z}
<1> DEFINE C == {u \in Calendar : u % Hours = 0 /\ u <= t} \cup {t}
           zero == 0
<1>1. t \in Nat /\ \A u \in Nat : u <= t => u \in Calendar
  <2>1. Calendar \subseteq Nat /\ 0..t \subseteq Calendar BY CalendarIs
  <2> QED BY <2>1
<1>2. zero \in Int /\ zero = 0 /\ zero \in Nat OBVIOUS
<1> HIDE DEF zero
<1>3. PICK a \in Int : weekStartOf(zero) = StartOf(a) /\ 168 * a <= Wall(zero)
                       /\ StartOf(a) <= zero /\ zero < StartOf(a + 1)
  BY <1>2, WeekStartIs
<1>4. PICK z \in Int : weekStartOf(t) = StartOf(z) /\ StartOf(z) <= t /\ t < StartOf(z + 1)
  <2>1. t \in Int BY <1>1
  <2> QED BY <2>1, WeekStartIs
<1>5. ptOffset(168 * a) = -7
  <2>1. ptOffset(zero) \in {-8, -7} /\ Wall(zero) = zero + ptOffset(zero) BY OffsetIs DEF Wall
  <2>2. 168 * a < FallBack BY <1>2, <1>3, <2>1, StandingsAssumption, CalendarAssumption
  <2>3. ~ (168 * a >= FallBack) BY <2>2, StandingsAssumption
  <2> QED BY <2>3 DEF ptOffset
<1>6. ASSUME NEW u \in Nat, u <= t PROVE \E q \in a..z : weekStartOf(u) = StartOf(q)
  <2>0. u \in Int OBVIOUS
  <2>1. PICK q \in Int : weekStartOf(u) = StartOf(q) /\ StartOf(q) <= u /\ u < StartOf(q + 1)
    BY <2>0, WeekStartIs
  <2> DEFINE q1 == q + 1
             z1 == z + 1
  <2>2. q1 \in Int /\ z1 \in Int /\ (z1 <= q <=> ~ (q <= z)) /\ (q1 <= a <=> ~ (a <= q)) OBVIOUS
  <2>3. u < StartOf(q1) /\ t < StartOf(z1) BY <1>4, <2>1
  <2> HIDE DEF q1, z1
  <2>4. /\ StartOf(q) \in Int /\ StartOf(z1) \in Int /\ (StartOf(z1) <= StartOf(q) <=> z1 <= q)
        /\ StartOf(a) \in Int /\ StartOf(q1) \in Int /\ (StartOf(q1) <= StartOf(a) <=> q1 <= a)
    BY <2>2, WeekOrder
  <2>5. ~ (StartOf(z1) <= StartOf(q)) BY <1>1, <1>6, <2>1, <2>3, <2>4
  <2>6. ~ (StartOf(q1) <= StartOf(a)) BY <1>2, <1>3, <2>3, <2>4
  <2> QED BY <2>1, <2>2, <2>4, <2>5, <2>6
<1>7. a <= z
  <2>1. PICK q \in a..z : weekStartOf(t) = StartOf(q) BY <1>1, <1>6
  <2> QED BY <2>1
<1>8. ASSUME NEW q \in a..z PROVE \E u \in C : weekStartOf(u) = StartOf(q)
  <2>0. q \in Int OBVIOUS
  <2>1. CASE q = z BY <1>4, <2>1
  <2>2. CASE q = a
    <3>1. zero % Hours = 0 /\ zero <= t /\ zero \in Calendar BY <1>1, <1>2 DEF Hours
    <3> QED BY <1>3, <2>2, <3>1
  <2>3. CASE a < q /\ q < z
    <3> DEFINE u == 168 * q + 24
               q1 == q + 1
               a1 == a + 1
    <3>1. u \in Int /\ q1 \in Int /\ a1 \in Int /\ q1 <= z /\ a1 <= q BY <2>3
    <3>2. u % 24 = 0
      <4> DEFINE v == 7 * q + 1
      <4>1. v \in Int /\ u = 24 * v OBVIOUS
      <4> HIDE DEF u, v
      <4> QED BY <4>1
    <3>3. StartOf(q) \in {168 * q + 7, 168 * q + 8} BY StartIs
    <3>4. StartOf(q1) \in {168 * q1 + 7, 168 * q1 + 8}
      <4> HIDE DEF q1
      <4> QED BY <3>1, StartIs
    <3>5. StartOf(q) <= u /\ u < StartOf(q1) /\ StartOf(q) \in Int /\ StartOf(q1) \in Int BY <3>3, <3>4
    <3>6. zero < StartOf(a1) BY <1>3
    <3> HIDE DEF u, q1, a1
    <3>7. /\ StartOf(q1) <= StartOf(z) /\ StartOf(a1) <= StartOf(q)
          /\ StartOf(z) \in Int /\ StartOf(a1) \in Int
      BY <3>1, WeekOrder
    <3>8. u \in Nat /\ u <= t BY <1>1, <1>2, <1>4, <3>1, <3>5, <3>6, <3>7
    <3>9. u \in C BY <1>1, <3>2, <3>8 DEF Hours
    <3>10. weekStartOf(u) = StartOf(q)
      <4>1. u < StartOf(q + 1) BY <3>5 DEF q1
      <4> QED BY <3>1, <3>5, <4>1, WeekIs
    <3> QED BY <3>9, <3>10
  <2> QED BY <2>1, <2>2, <2>3
<1>9. \A u \in C : u \in Nat /\ u <= t
  <2>1. Calendar \subseteq Nat BY CalendarIs
  <2> QED BY <1>1, <2>1
<1>10. Anchor = StartOf(a) BY <1>2, <1>3 DEF Anchor
<1>11. {weekStartOf(s) : s \in C} = {StartOf(q) : q \in a..z}
  <2> HIDE DEF C
  <2>1. \A s \in C : \E q \in a..z : weekStartOf(s) = StartOf(q) BY <1>6, <1>9
  <2> QED BY <1>8, <2>1
<1> QED BY <1>4, <1>5, <1>7, <1>10, <1>11

\* The first week offered, and the walk from there.
LEMMA OfferedAre ==
  ASSUME NEW now, NEW a \in Int, NEW z \in Int, a <= z, ptOffset(168 * a) = -7,
         Anchor = StartOf(a), weekStartOf(now) = StartOf(z)
  PROVE  \E f \in Int : /\ f = IF z - a - WeekCap + 1 > 0 THEN z - WeekCap + 1 ELSE a
                        /\ profileWeekOptions({}, now) = {StartOf(q) : q \in f..z}
<1> DEFINE s == Skipped(now)
           f == a + s
           f1 == f + 1
           m == WeekCap - 1
<1>1. WeekCap \in Nat \ {0} /\ m \in Nat BY ViewsAssumption
<1>2. (StartOf(z) - StartOf(a)) \div Week = z - a
  <2> DEFINE d == (StartOf(z) - StartOf(a)) \div Week
  <2>1. weekNumber(StartOf(z), StartOf(a)) = z - a + 1 BY WeekNumberIs
  <2>2. d + 1 = z - a + 1 BY <2>1 DEF weekNumber
  <2>3. d \in Int
    <3>1. StartOf(z) \in Int /\ StartOf(a) \in Int BY WeekOrder
    <3> DEFINE e == StartOf(z) - StartOf(a)
    <3>2. e \in Int BY <3>1
    <3> HIDE DEF e
    <3>3. e \div 168 \in Int BY <3>2
    <3> QED BY <3>3 DEF e, Week, Hours
  <2> HIDE DEF d
  <2> QED BY <2>2, <2>3 DEF d
<1>3. s = IF z - a - WeekCap + 1 > 0 THEN z - a - WeekCap + 1 ELSE 0 BY <1>2 DEF Skipped
<1>4. s \in Nat BY <1>1, <1>3
<1> HIDE DEF s
<1>5. f \in Int /\ f1 \in Int /\ f <= z /\ z <= f + m
      /\ f = IF z - a - WeekCap + 1 > 0 THEN z - WeekCap + 1 ELSE a
  BY <1>1, <1>3, <1>4
<1>6. firstWeek(now) = StartOf(f)
  <2> DEFINE v == Anchor + s * Week + Week \div 2
  <2>1. Anchor = 168 * a + 7 BY DEF StartOf
  <2>2. v = 168 * f + 91 BY <1>4, <2>1 DEF Week, Hours
  <2>3. firstWeek(now) = weekStartOf(v) BY DEF firstWeek, s
  <2> HIDE DEF v, f, f1
  <2>4. StartOf(f) \in {168 * f + 7, 168 * f + 8} /\ StartOf(f1) \in {168 * f1 + 7, 168 * f1 + 8}
    BY <1>5, StartIs
  <2>5. f1 = f + 1 BY DEF f1
  <2>6. v \in Int /\ StartOf(f) <= v /\ v < StartOf(f1) BY <1>5, <2>2, <2>4, <2>5
  <2>7. v < StartOf(f + 1) BY <2>5, <2>6
  <2> QED BY <1>5, <2>3, <2>6, <2>7, WeekIs
<1> DEFINE week == CHOOSE r : WalksFrom(r, StartOf(f), m)
<1>7. profileWeekOptions({}, now)
        = {} \cup {w \in {week[k] : k \in 0..m} : w <= weekStartOf(now)} \cup {weekStartOf(now)}
  BY <1>6 DEF profileWeekOptions, WalksFrom
<1>8. \A k \in 0..m : week[k] = StartOf(f + k)
  <2> HIDE DEF f, m, week
  <2>1. week = CHOOSE r : WalksFrom(r, StartOf(f), m) BY DEF week
  <2> QED BY <1>1, <1>5, <2>1, WalkOfWeeks
<1> HIDE DEF f, f1, m, week
<1>9. \A q \in Int : StartOf(q) <= StartOf(z) <=> q <= z BY WeekOrder
<1>10. profileWeekOptions({}, now) = {StartOf(q) : q \in f..z}
  <2>1. ASSUME NEW w, w \in profileWeekOptions({}, now) PROVE w \in {StartOf(q) : q \in f..z}
    <3>1. CASE w = weekStartOf(now)
      <4>1. z \in f..z BY <1>5
      <4> QED BY <3>1, <4>1
    <3>2. CASE w # weekStartOf(now)
      <4>1. PICK k \in 0..m : w = week[k] /\ w <= StartOf(z) BY <1>7, <2>1, <3>2
      <4> DEFINE q == f + k
      <4>2. q \in Int /\ f <= q BY <1>1, <1>5
      <4>3. w = StartOf(q) BY <1>8, <4>1
      <4> HIDE DEF q
      <4>4. q \in f..z BY <1>5, <1>9, <4>1, <4>2, <4>3
      <4> QED BY <4>3, <4>4
    <3> QED BY <3>1, <3>2
  <2>2. ASSUME NEW q \in f..z PROVE StartOf(q) \in profileWeekOptions({}, now)
    <3> DEFINE k == q - f
    <3>1. q \in Int /\ q <= z /\ k \in 0..m /\ f + k = q BY <1>1, <1>5
    <3> HIDE DEF k
    <3>2. week[k] = StartOf(q) /\ StartOf(q) <= weekStartOf(now) BY <1>8, <1>9, <3>1
    <3> QED BY <1>7, <3>1, <3>2
  <2> QED BY <2>1, <2>2
<1> QED BY <1>5, <1>10

LEMMA ProfileWeeksAlwaysAre == ProfileWeeksAreTheSeasons
<1> SUFFICES ASSUME NEW t \in Calendar
             PROVE  LET weeks   == profileWeekOptions({}, t)
                        seasons == {weekStartOf(s) : s \in {u \in Calendar : u % Hours = 0 /\ u <= t} \cup {t}}
                    IN  weeks = {w \in seasons : Cardinality({u \in seasons : u > w}) < WeekCap}
  BY DEF ProfileWeeksAreTheSeasons
<1> DEFINE weeks   == profileWeekOptions({}, t)
           seasons == {weekStartOf(s) : s \in {u \in Calendar : u % Hours = 0 /\ u <= t} \cup {t}}
           later(w) == {u \in seasons : u > w}
<1>1. PICK a \in Int, z \in Int :
        /\ a <= z /\ ptOffset(168 * a) = -7 /\ Anchor = StartOf(a) /\ weekStartOf(t) = StartOf(z)
        /\ seasons = {StartOf(q) : q \in a..z}
  BY SeasonsAre
<1> HIDE DEF seasons
<1>2. PICK f \in Int : /\ f = IF z - a - WeekCap + 1 > 0 THEN z - WeekCap + 1 ELSE a
                       /\ weeks = {StartOf(q) : q \in f..z}
  BY <1>1, OfferedAre
<1> HIDE DEF weeks
<1>3. WeekCap \in Nat \ {0} BY ViewsAssumption
<1>4. ASSUME NEW q \in a..z PROVE Cardinality(later(StartOf(q))) = z - q
  <2>1. q \in Int /\ q <= z OBVIOUS
  <2>2. later(StartOf(q)) = {StartOf(p) : p \in q + 1..z}
    <3>1. \A p \in Int : StartOf(p) \in Int /\ StartOf(q) \in Int /\ (StartOf(p) > StartOf(q) <=> p > q)
      BY WeekOrder
    <3>2. ASSUME NEW u, u \in later(StartOf(q)) PROVE u \in {StartOf(p) : p \in q + 1..z}
      <4>1. PICK p \in a..z : u = StartOf(p) /\ StartOf(p) > StartOf(q) BY <1>1, <3>2
      <4>2. p \in q + 1..z BY <3>1, <4>1
      <4> QED BY <4>1, <4>2
    <3>3. ASSUME NEW p \in q + 1..z PROVE StartOf(p) \in later(StartOf(q))
      <4>1. p \in a..z /\ p > q OBVIOUS
      <4>2. StartOf(p) > StartOf(q) BY <3>1, <4>1
      <4> QED BY <1>1, <4>1, <4>2
    <3> HIDE DEF later
    <3> QED BY <3>2, <3>3
  <2> QED BY <2>1, <2>2, LaterWeeks
<1> HIDE DEF later
<1>5. \A q \in a..z : q \in f..z <=> z - q < WeekCap BY <1>2, <1>3
<1>6. f..z \subseteq a..z BY <1>2, <1>3
<1>7. ASSUME NEW w, w \in weeks PROVE w \in seasons /\ Cardinality(later(w)) < WeekCap
  <2>1. PICK q \in f..z : w = StartOf(q) BY <1>2, <1>7
  <2>2. q \in a..z BY <1>6
  <2> QED BY <1>1, <1>4, <1>5, <2>1, <2>2
<1>8. ASSUME NEW w, w \in seasons, Cardinality(later(w)) < WeekCap PROVE w \in weeks
  <2>1. PICK q \in a..z : w = StartOf(q) BY <1>1, <1>8
  <2>2. q \in f..z BY <1>4, <1>5, <1>8, <2>1
  <2> QED BY <1>2, <2>1, <2>2
<1>9. weeks = {w \in seasons : Cardinality(later(w)) < WeekCap} BY <1>7, <1>8
<1> QED BY <1>9 DEF weeks, seasons, later

\* What is read of a season is sound at every moment: its standings and their weeks, what
\* a member is shown of its wagers, and the weeks a profile offers.
THEOREM ReadsAreAlwaysSound == StandingsSpec /\ ViewsSpec => ReadsAreSound
<1>1. StandingsSpec => WeeklyStandingsHold BY StandingsAlwaysHold
<1>2. ViewsSpec => [](/\ NothingUnstartedShows /\ PerformanceIsTheLedgers /\ EveryoneSeesTheSameBook
                      /\ SumsAgree /\ OfferedIsAccepted)
  BY ViewsAreAlwaysTrue
<1>3. ProfileWeeksAreTheSeasons BY ProfileWeeksAlwaysAre
<1> QED BY <1>1, <1>2, <1>3, PTL DEF ReadsAreSound
=============================================================================
