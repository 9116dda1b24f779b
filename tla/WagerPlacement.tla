---------------------------- MODULE WagerPlacement ----------------------------
(***************************************************************************)
(* Quoting and placing one member's ticket: the builder page in the        *)
(* browser, the Worker's wager route, the canonical offer in D1, and the   *)
(* quotes and wagers of the pool's Durable Object.                         *)
(*                                                                         *)
(* The page calls the Worker, waits at most five seconds, and goes on      *)
(* without the answer; the Worker's work goes on without the page.  Each   *)
(* call takes its steps at the route's awaits, so that polls, kickoff, the *)
(* betting window and other commands fall between them.                    *)
(*                                                                         *)
(* A ticket's legs move together: a leg is the line (terms) and the offer  *)
(* version it was read at.  A wager and its processed_command row commit   *)
(* in one transaction, so the wager holds the mutation key of both.        *)
(***************************************************************************)
EXTENDS Naturals, Sequences, FiniteSets

CONSTANTS
  Terms,        \* the lines the bookmaker may offer
  NoLeg,        \* an empty slip
  MaxOffers,    \* publications of the offer
  MaxTickets, MaxKeys, MaxCalls, MaxVersion,
  MaxRunning,   \* calls at work at one time
  MaxTurns,     \* steps of the market, the clock and the other members
  Replays       \* automatic replays of an ambiguous placement (two)

ASSUME PlacementAssumption ==
  /\ NoLeg \notin [terms : Terms, version : Nat]
  /\ {MaxOffers, MaxTickets, MaxKeys, MaxCalls, MaxVersion, MaxRunning, MaxTurns, Replays} \subseteq Nat
  /\ MaxOffers # 0

VARIABLES
  market,   \* the bookmaker's line, and the event's kickoff
  offer,    \* the market_offer row, its ingestion row, and its former lines (history)
  open,     \* the betting window
  pool,     \* command version, and whether season, balance and limits admit the ticket
  quotes,   \* wager_quote, by quote key
  wagers,   \* wager, by id
  slip,     \* the slip in sessionStorage
  page,     \* the builder page
  calls,    \* running invocations of the Worker
  minted,   \* how many tickets, keys, calls and turns there have been
  failed    \* refusals the page reported: the ticket and the call (history)

server == <<offer, open, pool, quotes, wagers>>
vars   == <<market, server, slip, page, calls, minted, failed>>

Leg     == [terms : Terms, version : 1..MaxOffers]
Current == [terms |-> offer.lines[offer.version], version |-> offer.version]

\* A quote call's stages, then a placement's.
Stages == {"replay", "canonicalize", "refresh", "view", "store",
           "probe", "live", "revalidate", "dispatch", "answered"}

\* seen and mutation are what the page freezes with a quote; back is where a
\* failed attempt returns to; call is the invocation the page waits for.
Gone == [tag |-> "gone", wager |-> 0, ticket |-> 0, key |-> 0, leg |-> NoLeg,
         seen |-> 0, mutation |-> 0, tries |-> 0, back |-> "editing", call |-> 0]

Init ==
  /\ market \in [terms : Terms, started : {FALSE}]
  /\ offer = [lines |-> <<market.terms>>, version |-> 1, fresh |-> TRUE, covered |-> TRUE]
  /\ open = TRUE
  /\ pool = [version |-> 1, admits |-> TRUE]
  /\ quotes = <<>> /\ wagers = <<>>
  /\ slip = NoLeg
  /\ page = Gone
  /\ calls = {}
  /\ minted = [ticket |-> 0, key |-> 0, call |-> 0, turn |-> 0]
  /\ failed = {}

-----------------------------------------------------------------------------
(* The market, the clock, and the other members *)

Turn == /\ minted.turn < MaxTurns
        /\ minted' = [minted EXCEPT !.turn = @ + 1]

LineMoves ==
  /\ Turn
  /\ ~market.started
  /\ \E t \in Terms \ {market.terms} : market' = [market EXCEPT !.terms = t]
  /\ UNCHANGED <<server, slip, page, calls, failed>>

Kickoff ==
  /\ Turn
  /\ ~market.started /\ market' = [market EXCEPT !.started = TRUE]
  /\ UNCHANGED <<server, slip, page, calls, failed>>

\* A poll replaces the version and the instant of the offer, whatever its line.
Published ==
  [lines |-> Append(offer.lines, market.terms), version |-> offer.version + 1,
   fresh |-> TRUE, covered |-> TRUE]

Poll ==
  /\ Turn
  /\ offer.version < MaxOffers /\ ~market.started
  /\ offer' = Published
  /\ UNCHANGED <<market, open, pool, quotes, wagers, slip, page, calls, failed>>

PollFails ==
  /\ Turn /\ offer.covered
  /\ offer' = [offer EXCEPT !.covered = FALSE]
  /\ UNCHANGED <<market, open, pool, quotes, wagers, slip, page, calls, failed>>

OfferAges ==
  /\ Turn /\ offer.fresh
  /\ offer' = [offer EXCEPT !.fresh = FALSE]
  /\ UNCHANGED <<market, open, pool, quotes, wagers, slip, page, calls, failed>>

\* A week ends on Tuesday at midnight; betting opens at ten.
WindowTurns ==
  /\ Turn
  /\ open' = ~open
  /\ UNCHANGED <<market, offer, pool, quotes, wagers, slip, page, calls, failed>>

\* Any other command bumps the version; some change what the ticket may risk.
PoolMoves ==
  /\ Turn
  /\ pool.version < MaxVersion
  /\ \E a \in BOOLEAN : pool' = [version |-> pool.version + 1, admits |-> a]
  /\ UNCHANGED <<market, offer, open, quotes, wagers, slip, page, calls, failed>>

-----------------------------------------------------------------------------
(* Reading the canonical offer *)

\* Why the offer in D1 cannot be quoted or placed now.
Unavailable ==
  CASE ~open          -> "BETTING_CLOSED"
    [] market.started -> "MARKET_LOCKED"
    [] ~offer.fresh   -> "MARKET_STALE"
    [] ~offer.covered -> "MARKET_UNAVAILABLE"
    [] OTHER          -> "available"

\* The status a route answers with.
mutation(code) ==
  CASE code = "ok"               -> 200
    [] code = "POOL_UNAVAILABLE" -> 503
    [] code \notin {"ok", "POOL_UNAVAILABLE"} -> 400

\* Fault: an unreachable object is taken for a refusal.
UnknownIsTerminal(code) ==
  CASE code \in {"LINE_CHANGED", "ORDER_QUOTE_STALE"} -> "stale"
    [] code = "RATE_LIMITED"                          -> "retryable"
    [] code = "ok"                                    -> "ok"
    [] OTHER                                          -> "terminal"

commandOutcome(code) ==
  CASE mutation(code) >= 500 \/ code = "RATE_LIMITED" -> "retryable"
    [] code \in {"LINE_CHANGED", "ORDER_QUOTE_STALE"} -> "stale"
    [] mutation(code) = 200                           -> "ok"
    [] OTHER                                          -> "terminal"

\* Somebody listens to call c: the page, or the replays that go on without it, for which
\* only an ambiguous answer matters.
Awaited(c, code) ==
  page.call = c.id \/ (c.left > 0 /\ commandOutcome(code) = "retryable")

\* A call takes a step, or ends with an answer if somebody still waits for it.
Advance(c, d)   == calls' = (calls \ {c}) \cup {d}

\* Fault: an answer the page still waits for is dropped.
AnswerDropped(c, code) == calls' = {e \in calls : e.id # c.id}

Answer(c, code) ==
  calls' = {e \in calls : e.id # c.id}
             \cup IF Awaited(c, code)
                  THEN {[c EXCEPT !.stage = "answered", !.answer = commandOutcome(code)]}
                  ELSE {}

browser == <<slip, page, minted, failed>>

\* The registry or the object cannot be reached.
Unreachable(c) ==
  /\ c.stage \notin {"answered", "canonicalize", "refresh", "live"}
  /\ Answer(c, "POOL_UNAVAILABLE")
  /\ UNCHANGED <<market, server, browser>>

\* A refresh fetches the line, and publishes it unless a newer poll supersedes it.
Refreshed == offer' \in {offer} \cup (IF offer.version < MaxOffers THEN {Published} ELSE {})

-----------------------------------------------------------------------------
(* POST /wagers/<kind>/quote *)

\* A stored quote answers every repetition of its request.
Stored(c) == IF quotes[c.key].wager = c.wager /\ quotes[c.key].leg = c.leg
             THEN "ok" ELSE "IDEMPOTENCY_CONFLICT"

ReplayWagerQuote(c) ==
  /\ c.stage = "replay"
  /\ IF c.key \in DOMAIN quotes
     THEN Answer([c EXCEPT !.seen = quotes[c.key].seen], Stored(c))
     ELSE Advance(c, [c EXCEPT !.stage = "canonicalize"])
  /\ UNCHANGED <<market, server, browser>>

\* The request asserts an offer version; the live line, once fetched, vetoes too.
quoteRequestMatchesCanonical(c) ==
  c.leg.version = offer.version /\ c.live \in {NoLeg, Current.terms}

canonicalizeWagerQuote(c) ==
  /\ c.stage = "canonicalize"
  /\ CASE Unavailable \in {"MARKET_STALE", "MARKET_UNAVAILABLE"} /\ c.live = NoLeg ->
            Advance(c, [c EXCEPT !.stage = "refresh"])
       [] Unavailable = "available" /\ quoteRequestMatchesCanonical(c) ->
            Advance(c, [c EXCEPT !.stage = "view"])
       [] Unavailable = "available" /\ ~quoteRequestMatchesCanonical(c) -> Answer(c, "LINE_CHANGED")
       [] OTHER -> Answer(c, Unavailable)
  /\ UNCHANGED <<market, server, browser>>

RefreshForQuote(c) ==
  /\ c.stage = "refresh"
  /\ \/ /\ \E code \in {"RATE_LIMITED", "MARKET_STALE"} : Answer(c, code)
        /\ UNCHANGED offer
     \/ /\ Refreshed
        /\ Advance(c, [c EXCEPT !.stage = "canonicalize", !.live = market.terms])
  /\ UNCHANGED <<market, open, pool, quotes, wagers, browser>>

ReadPoolView(c) ==
  /\ c.stage = "view"
  /\ Advance(c, [c EXCEPT !.stage = "store", !.seen = pool.version])
  /\ UNCHANGED <<market, server, browser>>

Row(c) == [wager |-> c.wager, leg |-> c.leg, seen |-> c.seen]

\* The table of quotes once the call's row is inserted.
WithQuote(c) ==
  [k \in DOMAIN quotes \cup {c.key} |-> IF k = c.key THEN Row(c) ELSE quotes[k]]

\* Fault: a second request with the key replaces the first one's quote.
StoredAgain(c) ==
  /\ c.stage = "store"
  /\ IF open /\ c.seen = pool.version
     THEN /\ quotes' = WithQuote(c)
          /\ Answer(c, "ok")
     ELSE /\ Answer(c, "ORDER_QUOTE_STALE")
          /\ UNCHANGED quotes
  /\ UNCHANGED <<market, offer, open, pool, wagers, browser>>

QuoteWager(c) ==
  /\ c.stage = "store"
  /\ CASE c.key \in DOMAIN quotes ->
            Answer([c EXCEPT !.seen = quotes[c.key].seen], Stored(c)) /\ UNCHANGED quotes
       [] c.key \notin DOMAIN quotes /\ ~open ->
            Answer(c, "BETTING_CLOSED") /\ UNCHANGED quotes
       [] c.key \notin DOMAIN quotes /\ open /\ c.seen # pool.version ->
            Answer(c, "ORDER_QUOTE_STALE") /\ UNCHANGED quotes
       [] OTHER ->
            /\ quotes' = WithQuote(c)
            /\ \E code \in {"ok", "POOL_UNAVAILABLE"} : Answer(c, code)
  /\ UNCHANGED <<market, offer, open, pool, wagers, browser>>

-----------------------------------------------------------------------------
(* POST /wagers/<kind>/place *)

\* The command was processed: its wager carries its mutation key.
Processed(c) == c.wager \in DOMAIN wagers /\ wagers[c.wager].mutation = c.mutation

assertStoredPlacementQuote(c) ==
  CASE c.key \notin DOMAIN quotes -> "LINE_CHANGED"
    [] c.key \in DOMAIN quotes /\ quotes[c.key].wager # c.wager -> "LINE_CHANGED"
    [] c.key \in DOMAIN quotes /\ quotes[c.key].seen # c.seen -> "ORDER_QUOTE_STALE"
    [] c.key \in DOMAIN quotes /\ quotes[c.key].leg # c.leg -> "LINE_CHANGED"
    [] OTHER -> "ok"

\* Fault: a replay is looked up only after the odds were refreshed and checked.
NoProbe(c) ==
  /\ c.stage = "probe"
  /\ Advance(c, [c EXCEPT !.stage = "live"])
  /\ UNCHANGED <<market, server, browser>>

ProbePlacementReplay(c) ==
  /\ c.stage = "probe"
  /\ CASE Processed(c) -> Answer(c, "ok")
       [] ~Processed(c) /\ assertStoredPlacementQuote(c) = "ok" ->
            Advance(c, [c EXCEPT !.stage = "live"])
       [] OTHER -> Answer(c, assertStoredPlacementQuote(c))
  /\ UNCHANGED <<market, server, browser>>

\* Fault: drift in the live line is swallowed like a failed refresh.
DriftSwallowed(c) == "available"

\* What the fetched line says of the ticket, published or not.
revalidateLiveWagerOffers(c) ==
  CASE ~open -> "BETTING_CLOSED"
    [] open /\ market.started -> "MARKET_LOCKED"
    [] open /\ ~market.started /\ market.terms # c.leg.terms -> "LINE_CHANGED"
    [] OTHER -> "available"

RefreshPlacementOdds(c) ==
  /\ c.stage = "live"
  /\ \/ /\ Answer(c, "RATE_LIMITED")
        /\ UNCHANGED offer
     \/ \* A refresh that fails leaves the stored offer to decide.
        /\ Advance(c, [c EXCEPT !.stage = "revalidate"])
        /\ UNCHANGED offer
     \/ /\ Refreshed
        /\ IF revalidateLiveWagerOffers(c) = "available"
           THEN Advance(c, [c EXCEPT !.stage = "revalidate", !.live = market.terms])
           ELSE Answer(c, revalidateLiveWagerOffers(c))
  /\ UNCHANGED <<market, open, pool, quotes, wagers, browser>>

\* Fault: only the presence of a current offer is checked.
TermsUnchecked(c) == Unavailable

\* Polls replace the version even when the line is the same: the line decides.
revalidateLeg(c) ==
  IF Unavailable = "available" /\ Current.terms # c.leg.terms THEN "LINE_CHANGED" ELSE Unavailable

RevalidateWagerOffers(c) ==
  /\ c.stage = "revalidate"
  /\ IF revalidateLeg(c) = "available"
     THEN Advance(c, [c EXCEPT !.stage = "dispatch"])
     ELSE Answer(c, revalidateLeg(c))
  /\ UNCHANGED <<market, server, browser>>

\* Fault: kickoff is left to the Worker's check.
LockedUnchecked(c) ==
  CASE ~open -> "BETTING_CLOSED"
    [] open /\ ~pool.admits -> "INSUFFICIENT_SHARES"
    [] OTHER -> "ok"

\* Fault: the betting window is left to the Worker's check.
WindowUnchecked(c) ==
  CASE ~pool.admits -> "INSUFFICIENT_SHARES"
    [] pool.admits /\ market.started -> "MARKET_LOCKED"
    [] OTHER -> "ok"

\* placeWager checks again what may have changed since the quote and the Worker.
\* The last insert fails when the id is taken, and the transaction with it.
placeWager(c) ==
  CASE ~open -> "BETTING_CLOSED"
    [] open /\ ~pool.admits -> "INSUFFICIENT_SHARES"
    [] open /\ pool.admits /\ market.started -> "MARKET_LOCKED"
    [] OTHER -> "ok"

Refusal(c) ==
  CASE assertStoredPlacementQuote(c) # "ok" -> assertStoredPlacementQuote(c)
    [] assertStoredPlacementQuote(c) = "ok" /\ placeWager(c) # "ok" -> placeWager(c)
    [] OTHER -> IF c.wager \in DOMAIN wagers THEN "UNIQUE" ELSE "ok"

\* The table of wagers once the call's ticket is inserted.
WithWager(c) ==
  [w \in DOMAIN wagers \cup {c.wager} |->
     IF w = c.wager
     THEN [leg |-> c.leg, mutation |-> c.mutation, ticket |-> c.ticket, call |-> c.id]
     ELSE wagers[w]]

\* The answer of an execution may be lost on its way back to the Worker.
PlaceWager(c) ==
  /\ c.stage = "dispatch"
  /\ IF ~Processed(c) /\ Refusal(c) = "ok"
     THEN /\ wagers' = WithWager(c)
          /\ pool' = [pool EXCEPT !.version = @ + 1]
          /\ \E code \in {"ok", "POOL_UNAVAILABLE"} : Answer(c, code)
     ELSE /\ Answer(c, IF Processed(c) THEN "ok" ELSE Refusal(c))
          /\ UNCHANGED <<wagers, pool>>
  /\ UNCHANGED <<market, offer, open, quotes, browser>>

-----------------------------------------------------------------------------
(* The builder page *)

CanMint == minted.ticket < MaxTickets /\ minted.key < MaxKeys
CanCall == minted.call < MaxCalls /\ Cardinality(calls) < MaxRunning

\* fresh(legs): another ticket, with another wager id and quote key.
Fresh(leg) == [Gone EXCEPT !.tag = "editing", !.wager = minted.ticket + 1,
                           !.ticket = minted.ticket + 1, !.key = minted.key + 1, !.leg = leg]
MintTicket == /\ CanMint
              /\ minted' = [minted EXCEPT !.ticket = @ + 1, !.key = @ + 1]

\* The call the page p makes, and the page waiting for it; left are the replays that may
\* follow it once the page is gone.
Call(p, stage) ==
  [id |-> minted.call + 1, wager |-> p.wager, ticket |-> p.ticket, key |-> p.key, leg |-> p.leg,
   seen |-> p.seen, mutation |-> p.mutation, stage |-> stage, answer |-> "none", live |-> NoLeg,
   left |-> 0, from |-> offer.version, placed |-> p.wager \in DOMAIN wagers /\ wagers[p.wager].mutation = p.mutation]
Waits(p, tag) == [p EXCEPT !.tag = tag, !.call = minted.call + 1]

\* The board writes the slip from what it shows, and opens the builder.
BuildSlip ==
  /\ page.tag = "gone" /\ ~market.started /\ CanMint
  /\ slip' = Current
  /\ page' = Fresh(Current)
  /\ MintTicket
  /\ UNCHANGED <<market, server, calls, failed>>

\* Coming back, or reloading, reads the slip again under fresh identities.
OpenBuilder ==
  /\ page.tag = "gone" /\ slip # NoLeg
  /\ page' = Fresh(slip)
  /\ MintTicket
  /\ UNCHANGED <<market, server, slip, calls, failed>>

\* A page that is reloaded is gone with its replays; one that is left for another page of
\* the application only stops listening to them.
LeavePage ==
  /\ page.tag # "gone"
  /\ page' = Gone
  /\ \/ UNCHANGED calls
     \/ /\ page.tag = "submitting"
        /\ \E c \in calls : /\ c.id = page.call
                            /\ calls' = (calls \ {c}) \cup {[c EXCEPT !.left = page.tries]}
  /\ UNCHANGED <<market, server, slip, minted, failed>>

\* An edit retires the identities of the ticket; so does Edit terms.
EditTerms ==
  /\ page.tag \in {"editing", "reviewing"} /\ page.leg # NoLeg
  /\ page' = Fresh(page.leg)
  /\ MintTicket
  /\ UNCHANGED <<market, server, slip, calls, failed>>

Review ==
  /\ page.tag = "editing" /\ page.leg # NoLeg /\ open /\ CanCall
  /\ page' = Waits(page, "quoting")
  /\ calls' = calls \cup {Call(page, "replay")}
  /\ minted' = [minted EXCEPT !.call = @ + 1]
  /\ UNCHANGED <<market, server, slip, failed>>

\* Place, and Retry placement: the second is offered while betting is closed too.
Place ==
  /\ page.tag = "unknown" \/ (page.tag = "reviewing" /\ open)
  /\ CanCall
  /\ page' = [Waits(page, "submitting") EXCEPT !.tries = Replays, !.back = page.tag]
  /\ calls' = calls \cup {Call(page, "probe")}
  /\ minted' = [minted EXCEPT !.call = @ + 1]
  /\ UNCHANGED <<market, server, slip, failed>>

\* What the page waits for: its call's answer, or five seconds without one.
Heard(c, outcome) ==
  /\ c.id = page.call
  /\ \/ /\ c.stage = "answered" /\ outcome = c.answer
        /\ calls' = calls \ {c}
     \/ /\ c.stage # "answered" /\ outcome = "retryable"
        /\ UNCHANGED calls

QuoteHeard(c) ==
  /\ page.tag = "quoting"
  /\ \E outcome \in {"ok", "stale", "retryable", "terminal"} :
       /\ Heard(c, outcome)
       /\ CASE outcome = "ok" ->
                 /\ minted.key < MaxKeys
                 /\ page' = [page EXCEPT !.tag = "reviewing", !.call = 0, !.seen = c.seen,
                                         !.mutation = minted.key + 1]
                 /\ minted' = [minted EXCEPT !.key = @ + 1]
            [] outcome = "stale" ->
                 /\ page' = [page EXCEPT !.tag = "recovering", !.call = 0, !.back = "editing"]
                 /\ UNCHANGED minted
            [] OTHER ->
                 /\ page' = [page EXCEPT !.tag = "editing", !.call = 0]
                 /\ UNCHANGED minted
  /\ UNCHANGED <<market, server, slip, failed>>

\* An ambiguous placement is repeated as it was, twice, and then kept for Retry.
PlacementHeard(c) ==
  /\ page.tag = "submitting"
  /\ \/ /\ Heard(c, "ok")
        /\ slip' = NoLeg
        /\ page' = Gone
        /\ UNCHANGED <<minted, failed>>
     \/ /\ Heard(c, "stale")
        /\ page' = [page EXCEPT !.tag = "recovering", !.call = 0]
        /\ UNCHANGED <<slip, minted, failed>>
     \/ /\ Heard(c, "terminal")
        /\ page' = Fresh(page.leg)
        /\ MintTicket
        /\ failed' = failed \cup {[wager |-> page.wager, call |-> c.id]}
        /\ UNCHANGED slip
     \/ /\ page.tries = 0
        /\ Heard(c, "retryable")
        /\ page' = [page EXCEPT !.tag = "unknown", !.call = 0]
        /\ UNCHANGED <<slip, minted, failed>>
  /\ UNCHANGED <<market, server>>

retryWagerPlacement(c) ==
  /\ page.tag = "submitting" /\ page.tries > 0 /\ CanCall
  /\ \/ /\ c.stage = "answered" /\ c.answer = "retryable"
        /\ calls' = (calls \ {c}) \cup {Call(page, "probe")}
     \/ /\ c.stage # "answered"
        /\ calls' = calls \cup {Call(page, "probe")}
  /\ c.id = page.call
  /\ page' = [Waits(page, "submitting") EXCEPT !.tries = @ - 1]
  /\ minted' = [minted EXCEPT !.call = @ + 1]
  /\ UNCHANGED <<market, server, slip, failed>>

\* The replays of a page that was left: the same body, until one answers.
ReplayUnheard(c) ==
  /\ c.left > 0 /\ CanCall
  /\ c.stage = "answered" => c.answer = "retryable"
  /\ calls' = (calls \ {c}) \cup {[Call(c, "probe") EXCEPT !.left = c.left - 1]}
                \cup IF c.stage = "answered" THEN {} ELSE {[c EXCEPT !.left = 0]}
  /\ minted' = [minted EXCEPT !.call = @ + 1]
  /\ UNCHANGED <<market, server, slip, page, failed>>

\* Fault: a recovered ticket is quoted under its old key.
RecoveredUnderOldKey ==
  [Gone EXCEPT !.tag = "editing", !.wager = page.wager, !.ticket = page.ticket,
               !.key = page.key, !.leg = Current]

\* recoverParlaySemantic: the same wager at the board's line, under a fresh key.
Recovered ==
  [Gone EXCEPT !.tag = "editing", !.wager = page.wager, !.ticket = page.ticket,
               !.key = minted.key + 1, !.leg = Current]

\* A stale line is rebuilt from the board, which may be gone or out of reach.
Recover ==
  /\ page.tag = "recovering"
  /\ \/ /\ ~market.started /\ CanMint
        /\ page' = Recovered
        /\ slip' = Current
        /\ minted' = [minted EXCEPT !.ticket = IF Recovered.wager > @ THEN @ + 1 ELSE @, !.key = @ + 1]
     \/ /\ market.started
        /\ page' = Fresh(NoLeg)
        /\ slip' = NoLeg
        /\ MintTicket
     \/ /\ page' = [page EXCEPT !.tag = page.back]
        /\ UNCHANGED <<slip, minted>>
  /\ UNCHANGED <<market, server, calls, failed>>

-----------------------------------------------------------------------------
(* The specification *)

Worker(c) ==
  \/ ReplayWagerQuote(c) \/ canonicalizeWagerQuote(c) \/ RefreshForQuote(c)
  \/ ReadPoolView(c) \/ QuoteWager(c)
  \/ ProbePlacementReplay(c) \/ RefreshPlacementOdds(c) \/ RevalidateWagerOffers(c)
  \/ PlaceWager(c) \/ Unreachable(c)

Page ==
  \/ BuildSlip \/ OpenBuilder \/ LeavePage \/ EditTerms \/ Review \/ Place \/ Recover
  \/ \E c \in calls :
       QuoteHeard(c) \/ PlacementHeard(c) \/ retryWagerPlacement(c) \/ ReplayUnheard(c)

World == LineMoves \/ Kickoff \/ Poll \/ PollFails \/ OfferAges \/ WindowTurns \/ PoolMoves

Next == World \/ Page \/ \E c \in calls : Worker(c)

Spec == Init /\ [][Next]_vars

-----------------------------------------------------------------------------
(* Properties *)

\* The variables range over the states the browser and the service can be in.
TypeOK ==
  /\ market \in [terms : Terms, started : BOOLEAN]
  /\ offer.version \in 1..MaxOffers /\ Len(offer.lines) = offer.version
  /\ offer.fresh \in BOOLEAN /\ offer.covered \in BOOLEAN /\ open \in BOOLEAN
  /\ pool.version \in Nat \ {0} /\ pool.admits \in BOOLEAN
  /\ DOMAIN quotes \subseteq 1..minted.key
  /\ \A k \in DOMAIN quotes : quotes[k] \in [wager : 1..MaxTickets, leg : Leg, seen : Nat]
  /\ DOMAIN wagers \subseteq 1..minted.ticket
  /\ slip \in Leg \cup {NoLeg} /\ page.leg \in Leg \cup {NoLeg}
  /\ page.tag \in {"gone", "editing", "quoting", "reviewing", "submitting", "unknown", "recovering"}
  /\ page.tries \in 0..Replays
  /\ page.call \in {0} \cup {c.id : c \in calls}
  /\ \A c \in calls : /\ c.stage \in Stages /\ c.leg \in Leg /\ c.live \in Terms \cup {NoLeg}
                      /\ c.left \in 0..Replays

\* A ticket the member goes on confirming, through lost answers and changed
\* lines, is placed at most once.
OneWagerPerTicket ==
  \A v, w \in DOMAIN wagers : wagers[v].ticket = wagers[w].ticket => v = w

\* A page that offers to place holds exactly the quote the object stored.
ReviewIsStored ==
  page.tag \in {"reviewing", "submitting", "unknown"} =>
    /\ page.key \in DOMAIN quotes
    /\ quotes[page.key] = [wager |-> page.wager, leg |-> page.leg, seen |-> page.seen]

\* A quote key names one request: no repetition or recovery conflicts with it.
KeyNamesRequest ==
  \A c \in calls : c.key \in DOMAIN quotes =>
    quotes[c.key].wager = c.wager /\ quotes[c.key].leg = c.leg

\* A ticket's identities hold together from the page to the object.
TicketIsOne == OneWagerPerTicket /\ ReviewIsStored /\ KeyNamesRequest

\* A replay sent after its wager was placed is never refused, although the line
\* moved, the event started or betting closed in the meantime.
ReplayFindsPlacement ==
  \A c \in calls : c.stage = "answered" /\ c.placed => c.answer \in {"ok", "retryable"}

\* A placement the page reports as refused was not placed by the refused call.
RefusedIsNotPlaced ==
  \A f \in failed : f.wager \in DOMAIN wagers => wagers[f.wager].call # f.call

\* The answers a page gets about a placement are true.
AnswersAreTrue == ReplayFindsPlacement /\ RefusedIsNotPlaced

\* A wager is accepted while betting is open, before kickoff and within the
\* account, at a line D1 carried since the call began and no live line refuted.
PlacedAsOffered ==
  [][\A w \in DOMAIN wagers' \ DOMAIN wagers :
       /\ open /\ ~market.started /\ pool.admits
       /\ \E c \in calls : /\ c.id = wagers'[w].call
                           /\ \E v \in c.from..offer.version : offer.lines[v] = wagers'[w].leg.terms
                           /\ c.live \in {NoLeg, wagers'[w].leg.terms}]_vars

\* A ticket the page reported as refused is not in the pool.
FailedIsNotPlaced == \A f \in failed : f.wager \notin DOMAIN wagers
=============================================================================
