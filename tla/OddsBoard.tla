------------------------------- MODULE OddsBoard -------------------------------
(***************************************************************************)
(* The odds board of the browser: the selection tray of a pool, the batch  *)
(* of straight wagers quoted and placed from it, and the transfers of the  *)
(* tray to the parlay and teaser builders.                                 *)
(*                                                                         *)
(* quoteAll, placeAll and addToParlay await the Worker between their       *)
(* steps; each is a job that keeps what its closure captured, the tray     *)
(* above all, while the member may go to another pool and come back.  What *)
(* the Worker does with a placement is WagerPlacement's: here a call has   *)
(* any outcome.  The betting window only removes steps, and is left out.   *)
(***************************************************************************)
EXTENDS Naturals, FiniteSets

CONSTANTS
  Slug,        \* pools the member visits
  Pick,        \* an event, a market and a side
  College,     \* the picks of one league; the others are of the other league
  Sibling,     \* pairs of picks of one event and market
  Eligible,    \* picks with a line, which a teaser can take
  Elsewhere,   \* any page but an odds board
  MaxItems, MaxKeys, MaxVisits, MaxJobs, MaxGone

ASSUME TrayAssumption ==
  /\ College \subseteq Pick /\ Eligible \subseteq Pick /\ Elsewhere \notin Slug
  /\ Sibling \subseteq Pick \X Pick
  /\ \A p \in Pick : <<p, p>> \notin Sibling
  /\ \A p, q \in Pick : <<p, q>> \in Sibling => <<q, p>> \in Sibling
  /\ {MaxItems, MaxKeys, MaxVisits, MaxJobs, MaxGone} \subseteq Nat

VARIABLES
  slate,     \* the picks the Worker's board offers
  at,        \* the pool shown, its page generation, and whether a transfer is pending
  league,    \* the league filter, and the board loaded under it
  stored,    \* sessionStorage: the tray of each pool
  tray,      \* the tray on the screen
  batch,     \* the batch of straight wagers
  jobs,      \* continuations that await the Worker
  slips,     \* sessionStorage: the slip each pool's builder was last given
  held,      \* wagers in the pool: the mutation key by wager id
  count      \* items and keys so far

boardPageVars == <<slate, at, league, stored, tray, batch, jobs, slips, held, count>>

-----------------------------------------------------------------------------
(* Selections *)

Picks(items)    == {i.pick : i \in items}
Named(items, p) == {i \in items : i.pick = p}

\* Fault: checking a side leaves its sibling in the tray.
toggleBoth(items, item) ==
  IF item.pick \in Picks(items) THEN items \ Named(items, item.pick) ELSE items \cup {item}

\* Checking one side of a market replaces the other.
toggleMarketExclusive(items, item) ==
  IF item.pick \in Picks(items)
  THEN items \ Named(items, item.pick)
  ELSE {i \in items : <<i.pick, item.pick>> \notin Sibling} \cup {item}

\* The board the page gets: every league, or the one it filters by.
Offered(filter) == IF filter THEN slate \cap College ELSE slate

NoBatch == [tag |-> "none", entries |-> {}, placed |-> {}, failed |-> {}, reviewed |-> {}]

BoardPageInit ==
  /\ slate = Pick
  /\ \E s \in Slug : at = [slug |-> s, visit |-> 1, pending |-> FALSE]
  /\ league = [filter |-> FALSE, board |-> Pick]
  /\ stored = [s \in Slug |-> {}]
  /\ tray = {}
  /\ batch = NoBatch
  /\ jobs = {}
  /\ slips = [s \in Slug |-> {}]
  /\ held = {}
  /\ count = [item |-> 0, key |-> 0]

\* persist: the tray on the screen and the one in storage, under the closure's slug.
Persist(slug, items) == tray' = items /\ stored' = [stored EXCEPT ![slug] = items]

\* Fault: a continuation is not asked whose page it belongs to.
AnyPage(j) == TRUE

\* PageGeneration.current: the page that started the job is still the one shown.
IsCurrent(j) == at.slug = j.slug /\ at.visit = j.visit

Idle == at.slug # Elsewhere /\ batch.tag = "none" /\ ~at.pending

Job(kind) == [kind |-> kind, slug |-> at.slug, visit |-> at.visit,
              tray |-> tray, drop |-> {}, todo |-> {}, entries |-> {}, placed |-> {},
              failed |-> {}, retry |-> {}, loaded |-> FALSE, lost |-> {}]
Start(j) == Cardinality(jobs) < MaxJobs /\ jobs' = jobs \cup {j}
Goes(j, k) == jobs' = (jobs \ {j}) \cup {k}
Ends(j)    == jobs' = jobs \ {j}

-----------------------------------------------------------------------------
(* The board and the tray *)

SlateMoves ==
  /\ Cardinality(Pick \ slate) < MaxGone
  /\ \E p \in slate : slate' = slate \ {p}
  /\ UNCHANGED <<at, league, stored, tray, batch, jobs, slips, held, count>>

\* A change of the filter loads the board again.
FilterLeague ==
  /\ at.slug # Elsewhere /\ batch.tag = "none"
  /\ league' = [filter |-> ~league.filter, board |-> Offered(~league.filter)]
  /\ UNCHANGED <<slate, at, stored, tray, batch, jobs, slips, held, count>>

Toggle ==
  /\ Idle
  /\ count.item < MaxItems
  /\ \E p \in league.board :
       Persist(at.slug, toggleMarketExclusive(tray, [pick |-> p, wager |-> count.item + 1]))
  /\ count' = [count EXCEPT !.item = @ + 1]
  /\ UNCHANGED <<slate, at, league, batch, jobs, slips, held>>

RemoveItem ==
  /\ Idle
  /\ \E i \in tray : Persist(at.slug, tray \ Named(tray, i.pick))
  /\ UNCHANGED <<slate, at, league, batch, jobs, slips, held, count>>

\* The effect of a new slug: another generation, no transfer, no batch, its tray.
Visit ==
  /\ at.visit < MaxVisits
  /\ \E s \in Slug \ {at.slug} :
       /\ at' = [slug |-> s, visit |-> at.visit + 1, pending |-> FALSE]
       /\ tray' = stored[s]
  /\ batch' = NoBatch
  /\ league' = [filter |-> FALSE, board |-> Offered(FALSE)]
  /\ UNCHANGED <<slate, stored, jobs, slips, held, count>>

Leaves == at' = [at EXCEPT !.slug = Elsewhere, !.pending = FALSE]

Leave ==
  /\ at.slug # Elsewhere
  /\ Leaves
  /\ tray' = {} /\ batch' = NoBatch
  /\ UNCHANGED <<slate, league, stored, jobs, slips, held, count>>

-----------------------------------------------------------------------------
(* quoteAll *)

QuoteAll ==
  /\ Idle /\ tray # {}
  /\ Start(Job("quote"))
  /\ batch' = [NoBatch EXCEPT !.tag = "quoting"]
  /\ UNCHANGED <<slate, at, league, stored, tray, slips, held, count>>

\* The board is loaded again under the filter; a failure leaves the one displayed.
\* What it does not carry is dropped from the tray; the rest is quoted.
LoadForQuotes(j) ==
  /\ j.kind = "quote" /\ ~j.loaded
  /\ IF IsCurrent(j)
     THEN \E b \in {Offered(league.filter), league.board} :
            /\ Goes(j, [j EXCEPT !.loaded = TRUE,
                                 !.todo = {i \in j.tray : i.pick \in b},
                                 !.drop = {i \in j.tray : i.pick \notin b},
                                 !.lost = Picks(j.tray) \cap (slate \ b)])
            /\ league' = [league EXCEPT !.board = b]
     ELSE Ends(j) /\ UNCHANGED league
  /\ UNCHANGED <<slate, at, stored, tray, batch, slips, held, count>>

\* A quote is answered, refused or lost; each reviewed entry has its own key.
QuoteItem(j) ==
  /\ j.kind = "quote" /\ j.loaded /\ j.todo # {}
  /\ IF ~IsCurrent(j) THEN Ends(j) /\ UNCHANGED count
     ELSE \E item \in j.todo :
            /\ \A x \in j.todo : item.wager <= x.wager
            /\ \/ /\ count.key < MaxKeys
                  /\ Goes(j, [j EXCEPT !.todo = @ \ {item},
                                       !.entries = @ \cup {[item |-> item, key |-> count.key + 1]}])
                  /\ count' = [count EXCEPT !.key = @ + 1]
               \/ Goes(j, [j EXCEPT !.todo = @ \ {item}]) /\ UNCHANGED count
  /\ UNCHANGED <<slate, at, league, stored, tray, batch, slips, held>>

QuotesDone(j) ==
  /\ j.kind = "quote" /\ j.loaded /\ j.todo = {}
  /\ IF IsCurrent(j)
     THEN /\ Persist(j.slug, j.tray \ j.drop)
          /\ batch' = [NoBatch EXCEPT !.tag = IF j.entries = {} THEN "results" ELSE "reviewing",
                                      !.entries = j.entries, !.reviewed = j.entries]
     ELSE UNCHANGED <<stored, tray, batch>>
  /\ Ends(j)
  /\ UNCHANGED <<slate, at, league, slips, held, count>>

\* The browser's Back, and Back to board: a batch at work stays.
BackToBoard ==
  /\ batch.tag \in {"reviewing", "results"}
  /\ batch' = NoBatch
  /\ UNCHANGED <<slate, at, league, stored, tray, jobs, slips, held, count>>

-----------------------------------------------------------------------------
(* placeAll *)

PlaceAll ==
  /\ batch.tag = "reviewing"
  /\ Start([Job("place") EXCEPT !.todo = batch.entries, !.entries = batch.entries])
  /\ batch' = [batch EXCEPT !.tag = "placing"]
  /\ UNCHANGED <<slate, at, league, stored, tray, slips, held, count>>

\* What the pool keeps of a placed entry.
Bet(e) == [wager |-> e.item.wager, key |-> e.key]

\* Fault: a placement without an answer counts as refused.
UnknownIsFailed(j, e, outcome) ==
  [j EXCEPT !.todo = @ \ {e},
            !.placed = IF outcome = "placed" THEN @ \cup {e} ELSE @,
            !.failed = IF outcome # "placed" THEN @ \cup {e} ELSE @]

\* placeEntries keeps an unresolved entry as it was frozen.
Outcome(j, e, outcome) ==
  [j EXCEPT !.todo   = @ \ {e},
            !.placed = IF outcome = "placed" THEN @ \cup {e} ELSE @,
            !.failed = IF outcome = "refused" THEN @ \cup {e} ELSE @,
            !.retry  = IF outcome = "unknown" THEN @ \cup {e} ELSE @]

\* The pool takes a wager id once, and answers its key again with the same answer.
PlaceEntry(j) ==
  /\ j.kind = "place" /\ j.todo # {}
  /\ \E e \in j.todo :
       /\ \A x \in j.todo : e.key <= x.key
       /\ \/ /\ e.item.wager \notin {h.wager : h \in held} \/ Bet(e) \in held
             /\ held' = held \cup {Bet(e)}
             /\ \E o \in {"placed", "unknown"} : Goes(j, Outcome(j, e, o))
          \/ /\ Bet(e) \notin held
             /\ \E o \in {"refused", "unknown"} : Goes(j, Outcome(j, e, o))
             /\ UNCHANGED held
  /\ UNCHANGED <<slate, at, league, stored, tray, batch, slips, count>>

\* Fault: a retry starts the list of results again.
ForgetsResults(b, j) ==
  [b EXCEPT !.tag = IF j.retry = {} THEN "results" ELSE "reviewing",
            !.entries = j.retry, !.placed = j.placed, !.failed = j.failed]

straightPlacementBatchTransition(b, j) ==
  [b EXCEPT !.tag = IF j.retry = {} THEN "results" ELSE "reviewing",
            !.entries = j.retry, !.placed = @ \cup j.placed, !.failed = @ \cup j.failed]

\* Fault: only a batch that is placed as a whole leaves the tray.
KeepsPlaced(j) == IF j.retry = {} THEN {e.item.pick : e \in j.placed} ELSE {}

PlacedPicks(j) == {e.item.pick : e \in j.placed}

PlacementsDone(j) ==
  /\ j.kind = "place" /\ j.todo = {}
  /\ IF IsCurrent(j)
     THEN /\ Persist(j.slug, {i \in j.tray : i.pick \notin PlacedPicks(j)})
          /\ batch' = straightPlacementBatchTransition(batch, j)
     ELSE UNCHANGED <<stored, tray, batch>>
  /\ Ends(j)
  /\ UNCHANGED <<slate, at, league, slips, held, count>>

-----------------------------------------------------------------------------
(* The builders *)

\* Two to six legs, of a market once, and none against another.
Parlay(items) == Cardinality(items) \in 2..6

AddToParlay ==
  /\ Idle /\ Parlay(tray)
  /\ Start(Job("transfer"))
  /\ at' = [at EXCEPT !.pending = TRUE]
  /\ UNCHANGED <<slate, league, stored, tray, batch, slips, held, count>>

\* Fault: the gate does not compare the tray, nor the page.
AnyTray(j) == TRUE

\* ParlayTrayTransferGate.matches, and the generation that started the transfer.
Matches(j) == IsCurrent(j) /\ at.pending /\ Picks(tray) = Picks(j.tray)

\* The whole, unfiltered board decides; one missing leg keeps the tray as it is.
TransferLoaded(j) ==
  /\ j.kind = "transfer"
  /\ Ends(j)
  /\ IF Matches(j) /\ Picks(j.tray) \subseteq slate
     THEN /\ slips' = [slips EXCEPT ![j.slug] = Picks(j.tray)]
          /\ stored' = [stored EXCEPT ![j.slug] = {}]
          /\ tray' = {}
          /\ Leaves
     ELSE /\ at' = [at EXCEPT !.pending = @ /\ ~IsCurrent(j)]
          /\ UNCHANGED <<stored, tray, slips>>
  /\ UNCHANGED <<slate, league, batch, held, count>>

TransferFails(j) ==
  /\ j.kind = "transfer"
  /\ Ends(j)
  /\ at' = [at EXCEPT !.pending = @ /\ ~IsCurrent(j)]
  /\ UNCHANGED <<slate, league, stored, tray, batch, slips, held, count>>

\* What of the tray fits a teaser, and what stays behind: an eligible pick on the board
\* is taken, in some order, unless there are six or it is against one taken.
buildTeaserTransfer(items, board) ==
  LET Fitting == {i \in items : i.pick \in Eligible \cap board}
      Fits(S) == Cardinality(S) <= 6 /\ \A i, k \in S : <<i.pick, k.pick>> \notin Sibling
      Full(S) == \A i \in Fitting \ S : ~Fits(S \cup {i})
  IN  {[slip |-> Picks(S), remaining |-> items \ S] : S \in {S \in SUBSET Fitting : Fits(S) /\ Full(S)}}

\* Fault: some of the tray need not fit.
AnyFits(items, board) == Cardinality(items) \in 2..6

\* The teaser takes the tray as a whole, from the board displayed.
canBuildTeaser(items, board) ==
  Cardinality(items) \in 2..6 /\ Picks(items) \subseteq Eligible \cap board

AddEligibleToTeaser ==
  /\ Idle /\ canBuildTeaser(tray, league.board)
  /\ \E t \in buildTeaserTransfer(tray, league.board) :
       /\ slips' = [slips EXCEPT ![at.slug] = t.slip]
       /\ stored' = [stored EXCEPT ![at.slug] = t.remaining]
       /\ tray' = {}
  /\ Leaves
  /\ UNCHANGED <<slate, league, batch, jobs, held, count>>

-----------------------------------------------------------------------------
(* The specification *)

Continues(j) ==
  \/ LoadForQuotes(j) \/ QuoteItem(j) \/ QuotesDone(j)
  \/ PlaceEntry(j) \/ PlacementsDone(j)
  \/ TransferLoaded(j) \/ TransferFails(j)

BoardPageNext ==
  \/ SlateMoves \/ FilterLeague \/ Toggle \/ RemoveItem \/ Visit \/ Leave
  \/ QuoteAll \/ BackToBoard \/ PlaceAll \/ AddToParlay \/ AddEligibleToTeaser
  \/ \E j \in jobs : Continues(j)

BoardPageSpec == BoardPageInit /\ [][BoardPageNext]_boardPageVars

-----------------------------------------------------------------------------
(* Properties *)

\* The tray on the screen is the stored tray of the pool shown, and holds one
\* side of a market, whatever continuation of which page wrote last.
TrayIsStored ==
  at.slug # Elsewhere =>
    /\ tray = stored[at.slug]
    /\ \A i, k \in tray : i # k => i.pick # k.pick /\ <<i.pick, k.pick>> \notin Sibling

\* Every reviewed entry of a batch is unresolved, placed or refused, and only one
\* of these, through any number of retries; what it says of the pool is true.
ResultsAreTrue ==
  batch.tag \in {"reviewing", "results"} =>
    /\ batch.reviewed = batch.entries \cup batch.placed \cup batch.failed
    /\ batch.placed \cap (batch.entries \cup batch.failed) = {}
    /\ batch.entries \cap batch.failed = {}
    /\ \A e \in batch.placed : Bet(e) \in held
    /\ \A e \in batch.failed : Bet(e) \notin held

\* A selection known to be placed has left the tray.
PlacedLeavesTray ==
  \A e \in batch.placed : e.item \notin tray

\* A page writes the storage of the pool it shows and of no other; a slip is
\* written from the very tray on the screen, which it leaves empty.
OnlyShownPool ==
  [][\A s \in Slug :
       /\ s # at.slug => stored'[s] = stored[s] /\ slips'[s] = slips[s]
       /\ slips'[s] # slips[s] =>
            /\ slips'[s] = Picks(tray)
            /\ stored'[s] = {}]_boardPageVars

\* The board page tells its member the truth, and touches no other pool's storage.
BoardPageIsTrue ==
  [](TrayIsStored /\ ResultsAreTrue /\ PlacedLeavesTray) /\ OnlyShownPool

\* Selections of any league stay in the tray until they leave the board.
TraySpansLeagues ==
  \A j \in jobs : j.lost = {}
=============================================================================
