------------------------- MODULE WagerPlacementProofs -------------------------
(***************************************************************************)
(* Proofs about WagerPlacement: whatever the market, the clock and the     *)
(* other members do between the awaits of a call, and whichever answers    *)
(* the page misses, a ticket is placed once, on the terms it was quoted,   *)
(* and what the page is told of it is true.  Page, calls and tables are    *)
(* parameters of the parts of the invariant, so that a part can be said of *)
(* the state before a step and after it.                                   *)
(*                                                                         *)
(* Then about WagerRules: which tickets are accepted, what they pay and    *)
(* how they end, for any legs and prices.                                  *)
(***************************************************************************)
EXTENDS WagerPlacement, WagerRules, WellFoundedInduction, FiniteSetTheorems, TLAPS

(* The inductive invariant *)

PageTags == {"gone", "editing", "quoting", "reviewing", "submitting", "unknown", "recovering"}
QuoteStages     == {"replay", "canonicalize", "refresh", "view", "store"}
PlacementStages == {"probe", "live", "revalidate", "dispatch"}

CallRow  == [id : Nat, wager : Nat, ticket : Nat, key : Nat, leg : Leg, seen : Nat, mutation : Nat,
             stage : Stages, answer : {"none", "ok", "stale", "retryable", "terminal"},
             live : Terms \cup {NoLeg}, left : 0..Replays, from : Nat, placed : BOOLEAN]
PageRow  == [tag : PageTags, wager : Nat, ticket : Nat, key : Nat, leg : Leg \cup {NoLeg},
             seen : Nat, mutation : Nat, tries : 0..Replays,
             back : {"editing", "reviewing", "unknown"}, call : Nat]
QuoteRow == [wager : 1..MaxTickets, leg : Leg, seen : Nat]
WagerRow == [leg : Leg, mutation : Nat, ticket : Nat, call : Nat]

\* The market, the clock and the object's own state.
WorldTypes ==
  /\ market \in [terms : Terms, started : BOOLEAN]
  /\ offer \in [lines : Seq(Terms), version : 1..MaxOffers, fresh : BOOLEAN, covered : BOOLEAN]
  /\ Len(offer.lines) = offer.version
  /\ open \in BOOLEAN
  /\ pool \in [version : Nat \ {0}, admits : BOOLEAN]
  /\ minted \in [ticket : 0..MaxTickets, key : 0..MaxKeys, call : Nat, turn : Nat]

\* Two holders of one quote key ask for one ticket and one leg.
Same(h, g) == h.key = g.key => h.wager = g.wager /\ h.leg = g.leg

\* A quote that is stored under a holder's key is of the holder's ticket and leg.
Asked(h, q) == h.key \in DOMAIN q => q[h.key].wager = h.wager /\ q[h.key].leg = h.leg

\* The quote under the holder's key is what the holder has seen.
IsQuoted(h, q) == h.key \in DOMAIN q /\ q[h.key] = Row(h)

\* The identities of a holder are ones the browser has minted.
Minted(h, m) == h.wager <= m.ticket /\ h.ticket = h.wager /\ h.key <= m.key

\* A line that the offer carried since the call began.
Carried(c, o) == \E v \in c.from..o.version : o.lines[v] = c.leg.terms

\* What a call has found out about the ticket, stage by stage.
CallIsSound(c, o, q, m) ==
  /\ c \in CallRow /\ Minted(c, m) /\ c.wager >= 1 /\ c.key >= 1
  /\ c.id \in 1..m.call /\ c.from \in 1..o.version
  /\ Asked(c, q)
  /\ c.stage \in QuoteStages => c.mutation = 0
  /\ c.stage \in PlacementStages => c.mutation # 0
  /\ c.left > 0 => c.mutation # 0
  /\ c.stage = "answered" /\ c.answer = "ok" /\ c.mutation = 0 => IsQuoted(c, q)
  /\ c.stage \in {"probe", "live"} => c.live = NoLeg
  /\ c.stage \in {"revalidate", "dispatch"} => c.live \in {NoLeg, c.leg.terms}
  /\ c.stage = "dispatch" => Carried(c, o)

\* A call that was sent for a placed wager finds it, or does not say.
Admits(c) == c.stage = "answered" /\ c.answer \in {"ok", "retryable"}

ReplaysFind(c, w) ==
  c.placed => /\ c.mutation # 0
              /\ c.wager \in DOMAIN w /\ w[c.wager].mutation = c.mutation
              /\ c.stage = "probe" \/ Admits(c)

\* A call that placed a wager never says that it was refused.
PlacerAdmits(c, w) == \A v \in DOMAIN w : w[v].call = c.id => Admits(c)

CallsAreSound(cs, o, q, w, m) ==
  \A c \in cs : CallIsSound(c, o, q, m) /\ ReplaysFind(c, w) /\ PlacerAdmits(c, w)

CallsAreApart(cs) ==
  /\ \A c, d \in cs : c.id = d.id => c = d
  /\ \A c, d \in cs : Same(c, d)

\* The page offers to place what is quoted, and waits for a call of its own ticket.
PageIsSound(p, q, m) ==
  /\ p \in PageRow /\ Minted(p, m)
  /\ p.tag = "gone" => p.key = 0
  /\ p.tag # "gone" => p.wager >= 1 /\ p.key >= 1
  /\ p.tag \in {"gone", "editing", "quoting"} => p.mutation = 0
  /\ p.tag \in {"reviewing", "submitting", "unknown"} => p.mutation # 0
  /\ p.tag = "submitting" => p.back # "editing"
  /\ p.tag = "recovering" => (p.back = "editing" <=> p.mutation = 0)
  /\ Asked(p, q)
  /\ p.mutation # 0 => IsQuoted(p, q)
  /\ p.call # 0 => p.tag \in {"quoting", "submitting"}

PageWaits(p, cs) ==
  /\ \A c \in cs : Same(p, c)
  /\ p.call # 0 => \E c \in cs : c.id = p.call
  /\ \A c \in cs : c.id = p.call =>
       /\ c.wager = p.wager /\ c.key = p.key /\ c.leg = p.leg /\ c.mutation = p.mutation
       /\ c.left = 0

TablesAreSound(q, w, m) ==
  /\ DOMAIN q \subseteq 1..m.key /\ q \in [DOMAIN q -> QuoteRow]
  /\ DOMAIN w \subseteq 1..m.ticket /\ w \in [DOMAIN w -> WagerRow]
  /\ \A v \in DOMAIN w : w[v].ticket = v /\ w[v].mutation # 0 /\ w[v].call <= m.call

\* A refusal that the page reported is of a call that is over and placed nothing.
RefusalsAreTrue(fs, cs, w, m) ==
  \A f \in fs : /\ f.call <= m.call /\ \A c \in cs : c.id # f.call
                /\ f.wager \in DOMAIN w => w[f.wager].call # f.call

Inv ==
  /\ WorldTypes
  /\ slip \in Leg \cup {NoLeg} /\ failed \subseteq [wager : Nat, call : Nat]
  /\ CallsAreSound(calls, offer, quotes, wagers, minted) /\ CallsAreApart(calls)
  /\ PageIsSound(page, quotes, minted) /\ PageWaits(page, calls)
  /\ TablesAreSound(quotes, wagers, minted)
  /\ RefusalsAreTrue(failed, calls, wagers, minted)

-----------------------------------------------------------------------------
(* Calls while the tables grow *)

OfferGrows(o, p) == o.version <= p.version /\ \A v \in 1..o.version : p.lines[v] = o.lines[v]

\* A table keeps its rows; a row it gains under the holder's key is of what the holder asks.
QuotesGrow(q, r) == \A k \in DOMAIN q : k \in DOMAIN r /\ r[k] = q[k]
GrowsFor(h, q, r) == QuotesGrow(q, r) /\ (h.key \notin DOMAIN q => Asked(h, r))

MintedGrows(m, n) == m.ticket <= n.ticket /\ m.key <= n.key /\ m.call <= n.call

LEMMA CallStays ==
  ASSUME NEW c, NEW o, NEW p, NEW q, NEW r, NEW m, NEW n, CallIsSound(c, o, q, m),
         o.version \in Nat, p.version \in Nat, OfferGrows(o, p), GrowsFor(c, q, r),
         m \in [ticket : Nat, key : Nat, call : Nat, turn : Nat],
         n \in [ticket : Nat, key : Nat, call : Nat, turn : Nat], MintedGrows(m, n)
  PROVE  CallIsSound(c, p, r, n)
<1>1. /\ c.wager \in Nat /\ c.key \in Nat /\ c.from \in Nat /\ c.id \in Nat
      /\ m.ticket \in Nat /\ m.key \in Nat /\ m.call \in Nat
      /\ n.ticket \in Nat /\ n.key \in Nat /\ n.call \in Nat
  BY DEF CallIsSound, CallRow
<1>2. Minted(c, n) BY <1>1 DEF CallIsSound, Minted, MintedGrows
<1>3. c.id \in 1..n.call /\ c.from \in 1..p.version
  BY <1>1 DEF CallIsSound, MintedGrows, OfferGrows
<1>4. Asked(c, r) BY DEF CallIsSound, Asked, GrowsFor, QuotesGrow
<1>5. IsQuoted(c, q) => IsQuoted(c, r) BY DEF IsQuoted, GrowsFor, QuotesGrow
<1>6. Carried(c, o) => Carried(c, p)
  <2>1. ASSUME NEW v \in c.from..o.version PROVE v \in c.from..p.version /\ v \in 1..o.version
    BY <1>1 DEF CallIsSound, OfferGrows
  <2> QED BY <2>1 DEF Carried, OfferGrows
<1> QED BY <1>2, <1>3, <1>4, <1>5, <1>6 DEF CallIsSound

WagersGrow(w, x) == \A v \in DOMAIN w : v \in DOMAIN x /\ x[v] = w[v]

LEMMA ReplayStays ==
  ASSUME NEW c, NEW w, NEW x, ReplaysFind(c, w), WagersGrow(w, x)
  PROVE  ReplaysFind(c, x)
BY DEF ReplaysFind, WagersGrow

\* What a call is, whatever it has found out.
Kin(c, d) ==
  /\ d \in CallRow /\ d.id = c.id /\ d.wager = c.wager /\ d.ticket = c.ticket /\ d.key = c.key
  /\ d.leg = c.leg /\ d.mutation = c.mutation /\ d.from = c.from /\ d.placed = c.placed
  /\ d.left = c.left

MintedRow == [ticket : Nat, key : Nat, call : Nat, turn : Nat]

LEMMA Counters ==
  ASSUME Inv
  PROVE  /\ minted \in MintedRow /\ offer.version \in Nat /\ offer.lines \in Seq(Terms)
         /\ calls \subseteq CallRow
BY PlacementAssumption DEF Inv, WorldTypes, MintedRow, CallsAreSound, CallIsSound

LEMMA PageStays ==
  ASSUME NEW p, NEW q, NEW r, NEW m \in MintedRow, NEW n \in MintedRow,
         PageIsSound(p, q, m), GrowsFor(p, q, r), MintedGrows(m, n)
  PROVE  PageIsSound(p, r, n)
<1>1. Minted(p, n)
  <2>1. p.wager \in Nat /\ p.key \in Nat BY DEF PageIsSound, PageRow
  <2> QED BY <2>1 DEF PageIsSound, Minted, MintedGrows, MintedRow
<1>2. Asked(p, r) BY DEF PageIsSound, Asked, GrowsFor, QuotesGrow
<1>3. IsQuoted(p, q) => IsQuoted(p, r) BY DEF IsQuoted, GrowsFor, QuotesGrow
<1> QED BY <1>1, <1>2, <1>3 DEF PageIsSound

\* What a Worker's step on call c does to the tables.
Stores(c)  == quotes' = quotes \/ (quotes' = WithQuote(c) /\ c.key \notin DOMAIN quotes)
Inserts(c) == \/ wagers' = wagers
              \/ wagers' = WithWager(c) /\ c.wager \notin DOMAIN wagers /\ c.mutation # 0

LEMMA StoredGrows ==
  ASSUME Inv, NEW c \in calls, Stores(c)
  PROVE  /\ QuotesGrow(quotes, quotes')
         /\ \A h \in calls \cup {page} : GrowsFor(h, quotes, quotes')
         /\ DOMAIN quotes' \subseteq 1..minted.key /\ quotes' \in [DOMAIN quotes' -> QuoteRow]
<1>1. /\ DOMAIN quotes \subseteq 1..minted.key /\ quotes \in [DOMAIN quotes -> QuoteRow]
      /\ \A h \in calls \cup {page} : Asked(h, quotes) /\ Same(c, h)
  BY DEF Inv, TablesAreSound, CallsAreSound, CallIsSound, CallsAreApart, PageIsSound,
         PageWaits, Same
<1>2. CASE quotes' = quotes BY <1>1, <1>2 DEF QuotesGrow, GrowsFor
<1>3. CASE quotes' = WithQuote(c) /\ c.key \notin DOMAIN quotes
  <2>1. /\ DOMAIN quotes' = DOMAIN quotes \cup {c.key}
        /\ quotes'[c.key] = Row(c) /\ \A k \in DOMAIN quotes : quotes'[k] = quotes[k]
    BY <1>3 DEF WithQuote
  <2>2. Row(c).wager = c.wager /\ Row(c).leg = c.leg BY DEF Row
  <2>3. QuotesGrow(quotes, quotes') BY <2>1 DEF QuotesGrow
  <2>4. ASSUME NEW h \in calls \cup {page} PROVE GrowsFor(h, quotes, quotes')
    BY <1>1, <2>1, <2>2, <2>3 DEF GrowsFor, Asked, Same
  <2>5. Row(c) \in QuoteRow /\ c.key \in 1..minted.key
    <3>1. /\ c \in CallRow /\ c.wager >= 1 /\ c.key >= 1 /\ c.wager <= minted.ticket
          /\ c.key <= minted.key
      BY DEF Inv, CallsAreSound, CallIsSound, Minted
    <3>2. /\ minted.ticket \in 0..MaxTickets /\ minted.key \in Nat /\ MaxTickets \in Nat
      BY Counters, PlacementAssumption DEF Inv, WorldTypes, MintedRow
    <3>3. c.wager \in Nat /\ c.key \in Nat /\ c.leg \in Leg /\ c.seen \in Nat
      BY <3>1 DEF CallRow
    <3> QED BY <3>1, <3>2, <3>3 DEF Row, QuoteRow
  <2>6. \A k \in DOMAIN quotes' : quotes'[k] \in QuoteRow BY <1>1, <2>1, <2>5
  <2>7. quotes' \in [DOMAIN quotes' -> QuoteRow] BY <1>3, <2>6 DEF WithQuote
  <2> QED BY <1>1, <2>1, <2>3, <2>4, <2>5, <2>7
<1> QED BY <1>2, <1>3 DEF Stores

LEMMA InsertedGrows ==
  ASSUME Inv, NEW c \in calls, Inserts(c)
  PROVE  /\ WagersGrow(wagers, wagers')
         /\ \A v \in DOMAIN wagers' \ DOMAIN wagers :
              v = c.wager /\ wagers'[v].call = c.id /\ wagers'[v].leg = c.leg
         /\ DOMAIN wagers' \subseteq 1..minted.ticket /\ wagers' \in [DOMAIN wagers' -> WagerRow]
         /\ \A v \in DOMAIN wagers' : /\ wagers'[v].ticket = v /\ wagers'[v].mutation # 0
                                      /\ wagers'[v].call <= minted.call
<1>1. /\ DOMAIN wagers \subseteq 1..minted.ticket /\ wagers \in [DOMAIN wagers -> WagerRow]
      /\ \A v \in DOMAIN wagers : /\ wagers[v].ticket = v /\ wagers[v].mutation # 0
                                  /\ wagers[v].call <= minted.call
  BY DEF Inv, TablesAreSound
<1>2. CASE wagers' = wagers BY <1>1, <1>2 DEF WagersGrow
<1>3. CASE wagers' = WithWager(c) /\ c.wager \notin DOMAIN wagers /\ c.mutation # 0
  <2> DEFINE row == [leg |-> c.leg, mutation |-> c.mutation, ticket |-> c.ticket, call |-> c.id]
  <2>1. /\ DOMAIN wagers' = DOMAIN wagers \cup {c.wager}
        /\ wagers'[c.wager] = row /\ \A v \in DOMAIN wagers : wagers'[v] = wagers[v]
    BY <1>3 DEF WithWager
  <2>2. /\ c \in CallRow /\ c.wager >= 1 /\ c.wager <= minted.ticket /\ c.ticket = c.wager
        /\ c.id \in 1..minted.call
    BY DEF Inv, CallsAreSound, CallIsSound, Minted
  <2>3. /\ c.wager \in Nat /\ c.leg \in Leg /\ c.mutation \in Nat /\ c.id \in Nat
        /\ minted.ticket \in Nat /\ minted.call \in Nat
    BY <2>2, Counters DEF CallRow, MintedRow
  <2>4. row \in WagerRow BY <2>2, <2>3 DEF WagerRow
  <2>5. /\ row.ticket = c.wager /\ row.mutation # 0 /\ row.call = c.id /\ row.leg = c.leg
        /\ row.call <= minted.call
    BY <1>3, <2>2, <2>3
  <2> HIDE DEF row
  <2>6. \A v \in DOMAIN wagers' : wagers'[v] \in WagerRow BY <1>1, <2>1, <2>4
  <2>7. wagers' \in [DOMAIN wagers' -> WagerRow] BY <1>3, <2>6 DEF WithWager
  <2>8. DOMAIN wagers' \subseteq 1..minted.ticket BY <1>1, <2>1, <2>2, <2>3
  <2> QED BY <1>1, <2>1, <2>5, <2>7, <2>8 DEF WagersGrow
<1> QED BY <1>2, <1>3 DEF Inserts

-----------------------------------------------------------------------------
(* A step of the Worker *)

browserStays == /\ page' = page /\ slip' = slip /\ minted' = minted /\ failed' = failed

\* The call becomes d, or is over because nobody waits for it.
Becomes(c, D) ==
  /\ calls' = {e \in calls : e.id # c.id} \cup D
  /\ D = {} => page.call # c.id
  /\ \A d, e \in D : d = e
  /\ \A d \in D : Kin(c, d)

LEMMA WorkerKeeps ==
  ASSUME Inv, NEW c \in calls, NEW D, Becomes(c, D), browserStays,
         WorldTypes', OfferGrows(offer, offer'), Stores(c), Inserts(c),
         \A d \in D : /\ CallIsSound(d, offer', quotes', minted)
                      /\ ReplaysFind(d, wagers') /\ PlacerAdmits(d, wagers')
  PROVE  Inv'
<1>1. /\ minted \in MintedRow /\ minted' = minted /\ offer.version \in Nat
      /\ offer'.version \in Nat /\ MintedGrows(minted, minted)
  <2>1. offer'.version \in Nat BY PlacementAssumption DEF WorldTypes
  <2> QED BY <2>1, Counters DEF browserStays, MintedGrows, MintedRow
<1>2. /\ QuotesGrow(quotes, quotes')
      /\ \A h \in calls \cup {page} : GrowsFor(h, quotes, quotes')
      /\ DOMAIN quotes' \subseteq 1..minted.key /\ quotes' \in [DOMAIN quotes' -> QuoteRow]
  BY StoredGrows
<1>3. /\ WagersGrow(wagers, wagers')
      /\ \A v \in DOMAIN wagers' \ DOMAIN wagers :
           v = c.wager /\ wagers'[v].call = c.id
      /\ DOMAIN wagers' \subseteq 1..minted.ticket /\ wagers' \in [DOMAIN wagers' -> WagerRow]
      /\ \A v \in DOMAIN wagers' : /\ wagers'[v].ticket = v /\ wagers'[v].mutation # 0
                                   /\ wagers'[v].call <= minted.call
  BY InsertedGrows
<1>4. ASSUME NEW e \in calls, e.id # c.id
      PROVE  /\ CallIsSound(e, offer', quotes', minted)
             /\ ReplaysFind(e, wagers') /\ PlacerAdmits(e, wagers')
  <2>1. CallIsSound(e, offer, quotes, minted) /\ ReplaysFind(e, wagers) /\ PlacerAdmits(e, wagers)
    BY DEF Inv, CallsAreSound
  <2>2. CallIsSound(e, offer', quotes', minted) BY <1>1, <1>2, <2>1, CallStays DEF MintedRow
  <2>3. ReplaysFind(e, wagers') BY <1>3, <2>1, ReplayStays
  <2>4. PlacerAdmits(e, wagers') BY <1>3, <1>4, <2>1 DEF PlacerAdmits, WagersGrow
  <2> QED BY <2>2, <2>3, <2>4
<1>5. ASSUME NEW e \in calls' PROVE \/ e \in calls /\ e.id # c.id
                                    \/ e \in D /\ Kin(c, e)
  BY DEF Becomes
<1>6. CallsAreSound(calls', offer', quotes', wagers', minted')
  BY <1>1, <1>4, <1>5 DEF CallsAreSound
<1>7. CallsAreApart(calls')
  <2>1. \A e, f \in calls : (e.id = f.id => e = f) /\ Same(e, f) BY DEF Inv, CallsAreApart
  <2>2. ASSUME NEW e \in calls', NEW f \in calls', e.id = f.id PROVE e = f
    <3>1. e \in D <=> f \in D BY <1>5, <2>2 DEF Kin, Becomes
    <3> QED BY <1>5, <2>1, <2>2, <3>1 DEF Becomes
  <2>3. ASSUME NEW e \in calls', NEW f \in calls' PROVE Same(e, f)
    <3>1. ASSUME NEW g \in calls'
          PROVE  \E h \in calls : h.key = g.key /\ h.wager = g.wager /\ h.leg = g.leg
      BY <1>5, <3>1 DEF Kin
    <3>2. PICK h \in calls : h.key = e.key /\ h.wager = e.wager /\ h.leg = e.leg BY <3>1
    <3>3. PICK g \in calls : g.key = f.key /\ g.wager = f.wager /\ g.leg = f.leg BY <3>1
    <3> QED BY <2>1, <3>2, <3>3 DEF Same
  <2> QED BY <2>2, <2>3 DEF CallsAreApart
<1>8. PageIsSound(page', quotes', minted')
  BY <1>1, <1>2, PageStays DEF browserStays, Inv
<1>9. PageWaits(page', calls')
  <2>1. PageWaits(page, calls) /\ page' = page BY DEF Inv, browserStays
  <2>2. ASSUME NEW e \in calls'
        PROVE  /\ Same(page, e)
               /\ e.id = page.call => /\ e.wager = page.wager /\ e.key = page.key
                                      /\ e.leg = page.leg /\ e.mutation = page.mutation
                                      /\ e.left = 0
    <3>1. CASE e \in calls BY <2>1, <3>1 DEF PageWaits
    <3>2. CASE e \in D /\ Kin(c, e) BY <2>1, <3>2 DEF PageWaits, Kin, Same
    <3> QED BY <1>5, <3>1, <3>2
  <2>3. ASSUME page.call # 0 PROVE \E e \in calls' : e.id = page.call
    <3>1. PICK e \in calls : e.id = page.call BY <2>1, <2>3 DEF PageWaits
    <3>2. CASE e.id # c.id BY <3>1, <3>2 DEF Becomes
    <3>3. CASE e.id = c.id
      <4>1. PICK d : d \in D BY <3>1, <3>3 DEF Becomes
      <4> QED BY <3>1, <3>3, <4>1 DEF Becomes, Kin
    <3> QED BY <3>2, <3>3
  <2> QED BY <2>1, <2>2, <2>3 DEF PageWaits
<1>10. TablesAreSound(quotes', wagers', minted') BY <1>1, <1>2, <1>3 DEF TablesAreSound
<1>11. RefusalsAreTrue(failed', calls', wagers', minted')
  <2>1. RefusalsAreTrue(failed, calls, wagers, minted) /\ failed' = failed
    BY DEF Inv, browserStays
  <2>2. ASSUME NEW f \in failed, NEW e \in calls' PROVE e.id # f.call
    BY <1>5, <2>1 DEF RefusalsAreTrue, Kin
  <2>3. ASSUME NEW f \in failed, f.wager \in DOMAIN wagers' PROVE wagers'[f.wager].call # f.call
    <3>1. CASE f.wager \in DOMAIN wagers BY <1>3, <2>1, <3>1 DEF RefusalsAreTrue, WagersGrow
    <3>2. CASE f.wager \notin DOMAIN wagers
      BY <1>3, <2>1, <2>3, <3>2 DEF RefusalsAreTrue
    <3> QED BY <3>1, <3>2
  <2> QED BY <1>1, <2>1, <2>2, <2>3 DEF RefusalsAreTrue
<1>12. slip' \in Leg \cup {NoLeg} /\ failed' \subseteq [wager : Nat, call : Nat]
  BY DEF Inv, browserStays
<1> QED BY <1>6, <1>7, <1>8, <1>9, <1>10, <1>11, <1>12 DEF Inv

\* What the page is told of a code.
LEMMA Outcomes ==
  ASSUME NEW code
  PROVE  /\ commandOutcome(code) \in {"ok", "stale", "retryable", "terminal"}
         /\ commandOutcome(code) = "ok" <=> code = "ok"
         /\ code \in {"POOL_UNAVAILABLE", "RATE_LIMITED"} => commandOutcome(code) = "retryable"
<1>1. commandOutcome(code) \in {"ok", "stale", "retryable", "terminal"} BY DEF commandOutcome
<1>2. code = "ok" => commandOutcome(code) = "ok" BY DEF commandOutcome, mutation
<1>3. code # "ok" => commandOutcome(code) # "ok" BY DEF commandOutcome, mutation
<1>4. code \in {"POOL_UNAVAILABLE", "RATE_LIMITED"} => commandOutcome(code) = "retryable"
  BY DEF commandOutcome, mutation
<1> QED BY <1>1, <1>2, <1>3, <1>4

LEMMA Turned ==
  ASSUME NEW c \in CallRow, NEW st \in Stages
  PROVE  /\ Kin(c, [c EXCEPT !.stage = st])
         /\ [c EXCEPT !.stage = st].stage = st
         /\ [c EXCEPT !.stage = st].live = c.live /\ [c EXCEPT !.stage = st].seen = c.seen
BY DEF Kin, CallRow

\* The call c with what it has seen.
LEMMA Seen ==
  ASSUME NEW c \in CallRow, NEW n \in Nat
  PROVE  Kin(c, [c EXCEPT !.seen = n]) /\ [c EXCEPT !.seen = n].seen = n
BY DEF Kin, CallRow

LEMMA Itself ==
  ASSUME NEW c \in CallRow
  PROVE  Kin(c, c)
BY DEF Kin

LEMMA AnswerIs ==
  ASSUME Inv, NEW c \in calls, NEW a, Kin(c, a), NEW code, Answer(a, code)
  PROVE  \E D : /\ Becomes(c, D)
                /\ \A d \in D : /\ Kin(c, d) /\ d.seen = a.seen /\ d.stage = "answered"
                                /\ d.answer = commandOutcome(code)
<1> DEFINE d == [a EXCEPT !.stage = "answered", !.answer = commandOutcome(code)]
           D == IF Awaited(a, code) THEN {d} ELSE {}
<1>1. a \in CallRow /\ a.id = c.id BY DEF Kin
<1>2. /\ d \in CallRow /\ d.id = a.id /\ d.wager = a.wager /\ d.ticket = a.ticket
      /\ d.key = a.key /\ d.leg = a.leg /\ d.mutation = a.mutation /\ d.from = a.from
      /\ d.placed = a.placed /\ d.seen = a.seen /\ d.stage = "answered"
      /\ d.answer = commandOutcome(code) /\ d.left = a.left
  BY <1>1, Outcomes DEF CallRow, Stages
<1>3. Kin(c, d) BY <1>2 DEF Kin
<1>4. calls' = {e \in calls : e.id # c.id} \cup D BY <1>1 DEF Answer
<1> HIDE DEF d
<1>5. Becomes(c, D) BY <1>1, <1>3, <1>4 DEF Becomes, Awaited
<1>6. \A e \in D : e = d OBVIOUS
<1> HIDE DEF D
<1> QED BY <1>2, <1>3, <1>5, <1>6

LEMMA AdvanceIs ==
  ASSUME Inv, NEW c \in calls, NEW d, Kin(c, d), Advance(c, d)
  PROVE  Becomes(c, {d})
<1>1. \A e \in calls : e.id = c.id => e = c BY DEF Inv, CallsAreApart
<1>2. calls \ {c} = {e \in calls : e.id # c.id} BY <1>1
<1> QED BY <1>2 DEF Advance, Becomes

AdmittingCodes == {"ok", "POOL_UNAVAILABLE", "RATE_LIMITED"}

LEMMA AnswerKeeps ==
  ASSUME Inv, NEW c \in calls, c.stage # "answered", NEW a, Kin(c, a), NEW code, Answer(a, code),
         browserStays, WorldTypes', OfferGrows(offer, offer'), Stores(c), Inserts(c),
         code = "ok" /\ c.mutation = 0 => IsQuoted(a, quotes'),
         c.placed \/ wagers' # wagers => code \in AdmittingCodes
  PROVE  Inv'
<1>1. PICK D : /\ Becomes(c, D)
               /\ \A d \in D : /\ Kin(c, d) /\ d.seen = a.seen /\ d.stage = "answered"
                               /\ d.answer = commandOutcome(code)
  BY AnswerIs
<1>2. /\ CallIsSound(c, offer, quotes, minted) /\ ReplaysFind(c, wagers) /\ PlacerAdmits(c, wagers)
      /\ minted \in MintedRow /\ offer.version \in Nat /\ offer'.version \in Nat
  <2>1. offer'.version \in Nat BY PlacementAssumption DEF WorldTypes
  <2> QED BY <2>1, Counters DEF Inv, CallsAreSound
<1>3. GrowsFor(c, quotes, quotes') /\ WagersGrow(wagers, wagers') BY StoredGrows, InsertedGrows
<1>4. CallIsSound(c, offer', quotes', minted)
  <2>1. MintedGrows(minted, minted) BY <1>2 DEF MintedGrows, MintedRow
  <2> QED BY <1>2, <1>3, <2>1, CallStays DEF MintedRow
<1>5. ASSUME NEW d \in D
      PROVE  /\ CallIsSound(d, offer', quotes', minted)
             /\ ReplaysFind(d, wagers') /\ PlacerAdmits(d, wagers')
  <2>1. /\ Kin(c, d) /\ d.seen = a.seen /\ d.stage = "answered"
        /\ d.answer = commandOutcome(code)
    BY <1>1
  <2>2. code \in AdmittingCodes => Admits(d) BY <2>1, Outcomes DEF AdmittingCodes, Admits
  <2>3. d.answer = "ok" /\ d.mutation = 0 => IsQuoted(d, quotes')
    <3>1. Row(d) = Row(a) BY <2>1 DEF Row, Kin
    <3> QED BY <2>1, <3>1, Outcomes DEF IsQuoted, Kin
  <2>4. Asked(d, quotes') /\ Minted(d, minted) BY <1>4, <2>1 DEF Kin, CallIsSound, Asked, Minted
  <2>5. CallIsSound(d, offer', quotes', minted)
    BY <1>4, <2>1, <2>3, <2>4 DEF Kin, CallIsSound, QuoteStages, PlacementStages
  <2>6. ReplaysFind(d, wagers') BY <1>2, <1>3, <2>1, <2>2 DEF ReplaysFind, WagersGrow, Kin
  <2>7. PlacerAdmits(d, wagers')
    <3>1. CASE code \in AdmittingCodes BY <2>2, <3>1 DEF PlacerAdmits
    <3>2. CASE code \notin AdmittingCodes BY <1>2, <2>1, <3>2 DEF PlacerAdmits, Admits, Kin
    <3> QED BY <3>1, <3>2
  <2> QED BY <2>5, <2>6, <2>7
<1> QED BY <1>1, <1>5, WorkerKeeps

\* The next stage is one of the same route, and what it presupposes has been found out.
Proceeds(c, d, o) ==
  /\ \/ c.stage \in QuoteStages /\ d.stage \in QuoteStages
     \/ c.stage \in PlacementStages /\ d.stage \in PlacementStages
  /\ d.stage \in {"probe", "live"} => d.live = NoLeg
  /\ d.stage \in {"revalidate", "dispatch"} => d.live \in {NoLeg, c.leg.terms}
  /\ d.stage = "dispatch" => Carried(c, o)

LEMMA AdvanceKeeps ==
  ASSUME Inv, NEW c \in calls, ~c.placed, NEW d, Kin(c, d), Advance(c, d),
         browserStays, WorldTypes', OfferGrows(offer, offer'), quotes' = quotes, wagers' = wagers,
         Proceeds(c, d, offer')
  PROVE  Inv'
<1>1. /\ CallIsSound(c, offer, quotes, minted) /\ ReplaysFind(c, wagers) /\ PlacerAdmits(c, wagers)
      /\ minted \in MintedRow /\ offer.version \in Nat /\ offer'.version \in Nat
  <2>1. offer'.version \in Nat BY PlacementAssumption DEF WorldTypes
  <2> QED BY <2>1, Counters DEF Inv, CallsAreSound
<1>2. CallIsSound(c, offer', quotes', minted)
  <2>1. MintedGrows(minted, minted) BY <1>1 DEF MintedGrows, MintedRow
  <2>2. GrowsFor(c, quotes, quotes') BY <1>1 DEF GrowsFor, QuotesGrow, CallIsSound
  <2> QED BY <1>1, <2>1, <2>2, CallStays DEF MintedRow
<1>3. /\ Asked(d, quotes') /\ Minted(d, minted) /\ (Carried(c, offer') => Carried(d, offer'))
  BY <1>2 DEF Kin, CallIsSound, Asked, Minted, Carried
<1>4. /\ d.leg = c.leg /\ d.mutation = c.mutation /\ d.id = c.id /\ d.placed = c.placed
      /\ d.left = c.left
  BY DEF Kin
<1>5. CallIsSound(d, offer', quotes', minted)
  <2>1. /\ d \in CallRow /\ d.wager >= 1 /\ d.key >= 1 /\ d.id \in 1..minted.call
        /\ d.from \in 1..offer'.version
    BY <1>2 DEF Kin, CallIsSound
  <2>2. /\ d.stage \in QuoteStages => d.mutation = 0
        /\ d.stage \in PlacementStages => d.mutation # 0
        /\ d.stage # "answered"
    BY <1>2, <1>4 DEF Proceeds, CallIsSound, QuoteStages, PlacementStages
  <2>3. d.left > 0 => d.mutation # 0 BY <1>2, <1>4 DEF CallIsSound
  <2> QED BY <1>3, <1>4, <2>1, <2>2, <2>3 DEF CallIsSound, Proceeds
<1>6. ReplaysFind(d, wagers') BY <1>4 DEF ReplaysFind
<1>7. PlacerAdmits(d, wagers')
  BY <1>1, <1>4 DEF PlacerAdmits, Admits, Proceeds, QuoteStages, PlacementStages
<1>8. Becomes(c, {d}) BY AdvanceIs
<1>9. Stores(c) /\ Inserts(c) BY DEF Stores, Inserts
<1> QED BY <1>5, <1>6, <1>7, <1>8, <1>9, WorkerKeeps

-----------------------------------------------------------------------------
(* Each step of the Worker *)

LEMMA CallFacts ==
  ASSUME Inv, NEW c \in calls
  PROVE  /\ c \in CallRow /\ c.leg \in Leg /\ c.key \in Nat /\ Asked(c, quotes)
         /\ c.stage \in QuoteStages => c.mutation = 0 /\ ~c.placed
         /\ c.stage \in PlacementStages => c.mutation # 0
         /\ c.stage \in PlacementStages \ {"probe"} => ~c.placed
         /\ c.placed => Processed(c)
<1>1. CallIsSound(c, offer, quotes, minted) /\ ReplaysFind(c, wagers) BY DEF Inv, CallsAreSound
<1>2. c \in CallRow /\ c.leg \in Leg /\ c.key \in Nat BY <1>1 DEF CallIsSound, CallRow
<1>3. c.placed => Processed(c) BY <1>1 DEF ReplaysFind, Processed
<1>4. c.stage \in PlacementStages \ {"probe"} => ~c.placed
  BY <1>1 DEF ReplaysFind, Admits, PlacementStages
<1> QED BY <1>1, <1>2, <1>3, <1>4 DEF CallIsSound, ReplaysFind

LEMMA Still ==
  ASSUME Inv, UNCHANGED <<market, offer, open, pool, minted>>
  PROVE  WorldTypes' /\ OfferGrows(offer, offer')
<1>1. WorldTypes' BY DEF Inv, WorldTypes
<1>2. OfferGrows(offer, offer') BY Counters DEF OfferGrows
<1> QED BY <1>1, <1>2

LEMMA PublishedIs ==
  ASSUME Inv, offer.version < MaxOffers
  PROVE  /\ Published \in [lines : Seq(Terms), version : 1..MaxOffers, fresh : BOOLEAN,
                           covered : BOOLEAN]
         /\ Len(Published.lines) = Published.version
         /\ OfferGrows(offer, Published)
<1>1. /\ offer.version \in 1..MaxOffers /\ offer.lines \in Seq(Terms)
      /\ Len(offer.lines) = offer.version /\ market.terms \in Terms /\ MaxOffers \in Nat
  BY PlacementAssumption DEF Inv, WorldTypes
<1> DEFINE lines == Append(offer.lines, market.terms)
<1>2. /\ lines \in Seq(Terms) /\ Len(lines) = offer.version + 1
      /\ \A v \in 1..offer.version : lines[v] = offer.lines[v]
  BY <1>1
<1> HIDE DEF lines
<1>3. Published = [lines |-> lines, version |-> offer.version + 1, fresh |-> TRUE,
                   covered |-> TRUE]
  BY DEF Published, lines
<1> QED BY <1>1, <1>2, <1>3 DEF OfferGrows

LEMMA RefreshedGrows ==
  ASSUME Inv, Refreshed, UNCHANGED <<market, open, pool, minted>>
  PROVE  WorldTypes' /\ OfferGrows(offer, offer')
<1>1. CASE offer' = offer BY <1>1, Still
<1>2. CASE offer' = Published /\ offer.version < MaxOffers
  BY <1>2, PublishedIs DEF Inv, WorldTypes
<1> QED BY <1>1, <1>2 DEF Refreshed

\* A stage of a quote call answers: nothing was placed, and "ok" is of a stored quote.
LEMMA QuoteAnswers ==
  ASSUME Inv, NEW c \in calls, c.stage \in QuoteStages, NEW a, Kin(c, a), NEW code,
         Answer(a, code), browserStays, WorldTypes', OfferGrows(offer, offer'),
         Stores(c), wagers' = wagers, code = "ok" => IsQuoted(a, quotes')
  PROVE  Inv'
<1>1. ~c.placed /\ Inserts(c) /\ c.stage # "answered" BY CallFacts DEF Inserts, QuoteStages
<1> QED BY <1>1, AnswerKeeps

\* A stage of a placement answers and places nothing.
LEMMA PlacementAnswers ==
  ASSUME Inv, NEW c \in calls, c.stage \in PlacementStages, NEW code,
         Answer(c, code), browserStays, WorldTypes', OfferGrows(offer, offer'),
         quotes' = quotes, wagers' = wagers, c.placed => code \in AdmittingCodes
  PROVE  Inv'
<1>1. c.mutation # 0 /\ Inserts(c) /\ Stores(c) /\ c.stage # "answered" /\ Kin(c, c)
  BY CallFacts, Itself DEF Inserts, Stores, PlacementStages
<1> QED BY <1>1, AnswerKeeps

LEMMA QuoteAdvances ==
  ASSUME Inv, NEW c \in calls, c.stage \in QuoteStages, NEW d, Kin(c, d), d.stage \in QuoteStages,
         Advance(c, d), browserStays, WorldTypes', OfferGrows(offer, offer'),
         quotes' = quotes, wagers' = wagers
  PROVE  Inv'
<1>1. ~c.placed BY CallFacts
<1>2. Proceeds(c, d, offer') BY DEF Proceeds, QuoteStages
<1> QED BY <1>1, <1>2, AdvanceKeeps

LEMMA ReplayQuoteStep ==
  ASSUME Inv, NEW c \in calls, ReplayWagerQuote(c)
  PROVE  Inv'
<1>1. /\ c.stage \in QuoteStages /\ browserStays /\ WorldTypes' /\ OfferGrows(offer, offer')
      /\ quotes' = quotes /\ wagers' = wagers /\ Stores(c)
  BY Still DEF ReplayWagerQuote, QuoteStages, server, browser, browserStays, Stores
<1>2. c \in CallRow BY CallFacts
<1>3. CASE c.key \in DOMAIN quotes
  <2> DEFINE n == quotes[c.key].seen
             a == [c EXCEPT !.seen = n]
  <2>1. Answer(a, Stored(c)) BY <1>3 DEF ReplayWagerQuote
  <2>2. quotes[c.key] \in QuoteRow /\ n \in Nat BY <1>3 DEF Inv, TablesAreSound, QuoteRow
  <2>3. Kin(c, a) /\ a.seen = n BY <1>2, <2>2, Seen
  <2>4. quotes[c.key].wager = c.wager /\ quotes[c.key].leg = c.leg
    BY <1>3, CallFacts DEF Asked
  <2> HIDE DEF a
  <2>5. a.key = c.key /\ a.wager = c.wager /\ a.leg = c.leg BY <2>3 DEF Kin
  <2>6. quotes[c.key] = Row(a) BY <2>2, <2>3, <2>4, <2>5 DEF QuoteRow, Row
  <2>7. IsQuoted(a, quotes') BY <1>1, <1>3, <2>5, <2>6 DEF IsQuoted
  <2> QED BY <1>1, <2>1, <2>3, <2>7, QuoteAnswers
<1>4. CASE c.key \notin DOMAIN quotes
  <2> DEFINE d == [c EXCEPT !.stage = "canonicalize"]
  <2>1. Advance(c, d) BY <1>4 DEF ReplayWagerQuote
  <2>2. Kin(c, d) /\ d.stage \in QuoteStages BY <1>2, Turned DEF Stages, QuoteStages
  <2> HIDE DEF d
  <2> QED BY <1>1, <2>1, <2>2, QuoteAdvances
<1> QED BY <1>3, <1>4

LEMMA CanonicalizeStep ==
  ASSUME Inv, NEW c \in calls, canonicalizeWagerQuote(c)
  PROVE  Inv'
<1>1. /\ c.stage \in QuoteStages /\ browserStays /\ WorldTypes' /\ OfferGrows(offer, offer')
      /\ quotes' = quotes /\ wagers' = wagers /\ Stores(c)
  BY Still DEF canonicalizeWagerQuote, QuoteStages, server, browser, browserStays, Stores
<1>2. c \in CallRow /\ Kin(c, c) BY CallFacts, Itself
<1>3. ASSUME NEW st \in {"refresh", "view"}, Advance(c, [c EXCEPT !.stage = st]) PROVE Inv'
  <2> DEFINE d == [c EXCEPT !.stage = st]
  <2>1. Kin(c, d) /\ d.stage \in QuoteStages BY <1>2, Turned DEF Stages, QuoteStages
  <2>2. Advance(c, d) BY <1>3
  <2> HIDE DEF d
  <2> QED BY <1>1, <2>1, <2>2, QuoteAdvances
<1>4. ASSUME NEW code, code # "ok", Answer(c, code) PROVE Inv'
  BY <1>1, <1>2, <1>4, QuoteAnswers
<1>5. Unavailable # "ok" BY DEF Unavailable
<1>6. \/ Advance(c, [c EXCEPT !.stage = "refresh"]) \/ Advance(c, [c EXCEPT !.stage = "view"])
      \/ Answer(c, "LINE_CHANGED") \/ Answer(c, Unavailable)
  BY DEF canonicalizeWagerQuote
<1> QED BY <1>3, <1>4, <1>5, <1>6

LEMMA RefreshQuoteStep ==
  ASSUME Inv, NEW c \in calls, RefreshForQuote(c)
  PROVE  Inv'
<1>1. /\ c.stage \in QuoteStages /\ browserStays /\ quotes' = quotes /\ wagers' = wagers
      /\ Stores(c) /\ UNCHANGED <<market, open, pool, minted>>
  BY DEF RefreshForQuote, QuoteStages, browser, browserStays, Stores
<1>2. c \in CallRow /\ Kin(c, c) BY CallFacts, Itself
<1>3. ASSUME NEW code \in {"RATE_LIMITED", "MARKET_STALE"}, Answer(c, code), offer' = offer
      PROVE  Inv'
  <2>1. WorldTypes' /\ OfferGrows(offer, offer') BY <1>1, <1>3, Still
  <2> QED BY <1>1, <1>2, <1>3, <2>1, QuoteAnswers
<1>4. CASE Refreshed /\ Advance(c, [c EXCEPT !.stage = "canonicalize", !.live = market.terms])
  <2> DEFINE d == [c EXCEPT !.stage = "canonicalize", !.live = market.terms]
  <2>1. market.terms \in Terms BY DEF Inv, WorldTypes
  <2>2. Kin(c, d) /\ d.stage \in QuoteStages BY <1>2, <2>1 DEF Kin, CallRow, Stages, QuoteStages
  <2>3. WorldTypes' /\ OfferGrows(offer, offer') BY <1>1, <1>4, RefreshedGrows
  <2>4. Advance(c, d) BY <1>4
  <2> HIDE DEF d
  <2> QED BY <1>1, <2>2, <2>3, <2>4, QuoteAdvances
<1> QED BY <1>3, <1>4 DEF RefreshForQuote

LEMMA ViewStep ==
  ASSUME Inv, NEW c \in calls, ReadPoolView(c)
  PROVE  Inv'
<1> DEFINE d == [c EXCEPT !.stage = "store", !.seen = pool.version]
<1>1. /\ c.stage \in QuoteStages /\ browserStays /\ WorldTypes' /\ OfferGrows(offer, offer')
      /\ quotes' = quotes /\ wagers' = wagers /\ Advance(c, d)
  BY Still DEF ReadPoolView, QuoteStages, server, browser, browserStays
<1>2. pool.version \in Nat BY DEF Inv, WorldTypes
<1>3. Kin(c, d) /\ d.stage \in QuoteStages
  BY <1>2, CallFacts DEF Kin, CallRow, Stages, QuoteStages
<1> HIDE DEF d
<1> QED BY <1>1, <1>3, QuoteAdvances

LEMMA QuoteStep ==
  ASSUME Inv, NEW c \in calls, QuoteWager(c)
  PROVE  Inv'
<1>1. /\ c.stage \in QuoteStages /\ browserStays /\ WorldTypes' /\ OfferGrows(offer, offer')
      /\ wagers' = wagers
  BY Still DEF QuoteWager, QuoteStages, browser, browserStays
<1>2. c \in CallRow /\ Kin(c, c) BY CallFacts, Itself
<1>3. CASE c.key \in DOMAIN quotes
  <2> DEFINE n == quotes[c.key].seen
             a == [c EXCEPT !.seen = n]
  <2>1. Answer(a, Stored(c)) /\ quotes' = quotes BY <1>3 DEF QuoteWager
  <2>2. quotes[c.key] \in QuoteRow /\ n \in Nat BY <1>3 DEF Inv, TablesAreSound, QuoteRow
  <2>3. Kin(c, a) /\ a.seen = n BY <1>2, <2>2, Seen
  <2>4. quotes[c.key].wager = c.wager /\ quotes[c.key].leg = c.leg
    BY <1>3, CallFacts DEF Asked
  <2> HIDE DEF a
  <2>5. a.key = c.key /\ a.wager = c.wager /\ a.leg = c.leg BY <2>3 DEF Kin
  <2>6. quotes[c.key] = Row(a) BY <2>2, <2>3, <2>4, <2>5 DEF QuoteRow, Row
  <2>7. IsQuoted(a, quotes') BY <1>3, <2>1, <2>5, <2>6 DEF IsQuoted
  <2>8. Stores(c) BY <2>1 DEF Stores
  <2> QED BY <1>1, <2>1, <2>3, <2>7, <2>8, QuoteAnswers
<1>4. ASSUME NEW code \in {"BETTING_CLOSED", "ORDER_QUOTE_STALE"}, Answer(c, code),
             quotes' = quotes
      PROVE  Inv'
  <2>1. Stores(c) /\ code # "ok" BY <1>4 DEF Stores
  <2> QED BY <1>1, <1>2, <1>4, <2>1, QuoteAnswers
<1>5. ASSUME NEW code, Answer(c, code), quotes' = WithQuote(c), c.key \notin DOMAIN quotes
      PROVE  Inv'
  <2>1. IsQuoted(c, quotes') BY <1>5 DEF IsQuoted, WithQuote
  <2>2. Stores(c) BY <1>5 DEF Stores
  <2> QED BY <1>1, <1>2, <1>5, <2>1, <2>2, QuoteAnswers
<1>6. CASE c.key \notin DOMAIN quotes
  <2>1. \/ Answer(c, "BETTING_CLOSED") /\ quotes' = quotes
        \/ Answer(c, "ORDER_QUOTE_STALE") /\ quotes' = quotes
        \/ quotes' = WithQuote(c) /\ \E code \in {"ok", "POOL_UNAVAILABLE"} : Answer(c, code)
    BY <1>6 DEF QuoteWager
  <2> QED BY <1>4, <1>5, <1>6, <2>1
<1> QED BY <1>3, <1>6

LEMMA ProbeStep ==
  ASSUME Inv, NEW c \in calls, ProbePlacementReplay(c)
  PROVE  Inv'
<1>1. /\ c.stage \in PlacementStages /\ browserStays /\ WorldTypes' /\ OfferGrows(offer, offer')
      /\ quotes' = quotes /\ wagers' = wagers
  BY Still DEF ProbePlacementReplay, PlacementStages, server, browser, browserStays
<1>2. c \in CallRow /\ (c.placed => Processed(c)) BY CallFacts
<1>3. CASE Processed(c)
  <2>1. Answer(c, "ok") BY <1>3 DEF ProbePlacementReplay
  <2> QED BY <1>1, <2>1, PlacementAnswers DEF AdmittingCodes
<1>4. ASSUME NEW code, Answer(c, code), ~Processed(c) PROVE Inv'
  BY <1>1, <1>2, <1>4, PlacementAnswers
<1>5. CASE ~Processed(c) /\ Advance(c, [c EXCEPT !.stage = "live"])
  <2> DEFINE d == [c EXCEPT !.stage = "live"]
  <2>1. Kin(c, d) /\ d.stage = "live" /\ d.live = c.live BY <1>2, Turned DEF Stages
  <2>2. Advance(c, d) BY <1>5
  <2> HIDE DEF d
  <2>3. c.live = NoLeg
    BY DEF Inv, CallsAreSound, CallIsSound, ProbePlacementReplay
  <2>4. Proceeds(c, d, offer') BY <1>1, <2>1, <2>3 DEF Proceeds, PlacementStages
  <2> QED BY <1>1, <1>2, <1>5, <2>1, <2>2, <2>4, AdvanceKeeps
<1>6. \/ Processed(c)
      \/ ~Processed(c) /\ Advance(c, [c EXCEPT !.stage = "live"])
      \/ ~Processed(c) /\ Answer(c, assertStoredPlacementQuote(c))
  BY DEF ProbePlacementReplay
<1> QED BY <1>3, <1>4, <1>5, <1>6

LEMMA LiveStep ==
  ASSUME Inv, NEW c \in calls, RefreshPlacementOdds(c)
  PROVE  Inv'
<1>1. /\ c.stage = "live" /\ c.stage \in PlacementStages /\ browserStays
      /\ quotes' = quotes /\ wagers' = wagers /\ UNCHANGED <<market, open, pool, minted>>
  BY DEF RefreshPlacementOdds, PlacementStages, browser, browserStays
<1>2. c \in CallRow /\ ~c.placed BY <1>1, CallFacts DEF PlacementStages
<1>3. ASSUME NEW code, Answer(c, code), WorldTypes', OfferGrows(offer, offer') PROVE Inv'
  BY <1>1, <1>2, <1>3, PlacementAnswers
<1>4. ASSUME NEW d, Kin(c, d), d.stage = "revalidate", d.live \in {NoLeg, c.leg.terms},
             Advance(c, d), WorldTypes', OfferGrows(offer, offer')
      PROVE  Inv'
  <2>1. Proceeds(c, d, offer') BY <1>1, <1>4 DEF Proceeds, PlacementStages
  <2> QED BY <1>1, <1>2, <1>4, <2>1, AdvanceKeeps
<1>5. CASE Answer(c, "RATE_LIMITED") /\ offer' = offer
  <2>1. WorldTypes' /\ OfferGrows(offer, offer') BY <1>1, <1>5, Still
  <2> QED BY <1>3, <1>5, <2>1
<1>6. CASE Advance(c, [c EXCEPT !.stage = "revalidate"]) /\ offer' = offer
  <2> DEFINE d == [c EXCEPT !.stage = "revalidate"]
  <2>1. Kin(c, d) /\ d.stage = "revalidate" /\ d.live = c.live BY <1>2, Turned DEF Stages
  <2>2. Advance(c, d) BY <1>6
  <2> HIDE DEF d
  <2>3. c.live = NoLeg BY <1>1 DEF Inv, CallsAreSound, CallIsSound
  <2>4. WorldTypes' /\ OfferGrows(offer, offer') BY <1>1, <1>6, Still
  <2> QED BY <1>4, <2>1, <2>2, <2>3, <2>4
<1>7. CASE Refreshed /\ Answer(c, revalidateLiveWagerOffers(c))
  <2>1. WorldTypes' /\ OfferGrows(offer, offer') BY <1>1, <1>7, RefreshedGrows
  <2> QED BY <1>3, <1>7, <2>1
<1>8. CASE /\ Refreshed /\ revalidateLiveWagerOffers(c) = "available"
           /\ Advance(c, [c EXCEPT !.stage = "revalidate", !.live = market.terms])
  <2> DEFINE d == [c EXCEPT !.stage = "revalidate", !.live = market.terms]
  <2>1. market.terms \in Terms BY DEF Inv, WorldTypes
  <2>2. Kin(c, d) /\ d.stage = "revalidate" /\ d.live = market.terms
    BY <1>2, <2>1 DEF Kin, CallRow, Stages
  <2>3. Advance(c, d) BY <1>8
  <2> HIDE DEF d
  <2>4. market.terms = c.leg.terms BY <1>8 DEF revalidateLiveWagerOffers
  <2>5. WorldTypes' /\ OfferGrows(offer, offer') BY <1>1, <1>8, RefreshedGrows
  <2> QED BY <1>4, <2>2, <2>3, <2>4, <2>5
<1> QED BY <1>5, <1>6, <1>7, <1>8 DEF RefreshPlacementOdds

LEMMA RevalidateStep ==
  ASSUME Inv, NEW c \in calls, RevalidateWagerOffers(c)
  PROVE  Inv'
<1>1. /\ c.stage = "revalidate" /\ c.stage \in PlacementStages /\ browserStays
      /\ WorldTypes' /\ OfferGrows(offer, offer')
      /\ quotes' = quotes /\ wagers' = wagers /\ offer' = offer
  BY Still DEF RevalidateWagerOffers, PlacementStages, server, browser, browserStays
<1>2. c \in CallRow /\ ~c.placed BY <1>1, CallFacts DEF PlacementStages
<1>3. CASE revalidateLeg(c) # "available"
  <2>1. Answer(c, revalidateLeg(c)) BY <1>3 DEF RevalidateWagerOffers
  <2> QED BY <1>1, <1>2, <2>1, PlacementAnswers
<1>4. CASE revalidateLeg(c) = "available"
  <2> DEFINE d == [c EXCEPT !.stage = "dispatch"]
  <2>1. Advance(c, d) BY <1>4 DEF RevalidateWagerOffers
  <2>2. Kin(c, d) /\ d.stage = "dispatch" /\ d.live = c.live BY <1>2, Turned DEF Stages
  <2> HIDE DEF d
  <2>3. c.live \in {NoLeg, c.leg.terms} /\ c.from \in 1..offer.version
    BY <1>1 DEF Inv, CallsAreSound, CallIsSound
  <2>4. Current.terms = c.leg.terms BY <1>4 DEF revalidateLeg
  <2>5. Carried(c, offer')
    <3>1. offer.version \in c.from..offer.version BY <2>3, Counters
    <3> QED BY <1>1, <2>4, <3>1 DEF Carried, Current
  <2>6. Proceeds(c, d, offer') BY <1>1, <2>2, <2>3, <2>5 DEF Proceeds, PlacementStages
  <2> QED BY <1>1, <1>2, <2>1, <2>2, <2>6, AdvanceKeeps
<1> QED BY <1>3, <1>4

\* A wager that is inserted is a ticket's first, and none of its checks failed.
LEMMA Accepted ==
  ASSUME NEW c, Refusal(c) = "ok"
  PROVE  c.wager \notin DOMAIN wagers /\ open /\ pool.admits /\ ~market.started
<1>1. assertStoredPlacementQuote(c) = "ok" /\ placeWager(c) = "ok" /\ c.wager \notin DOMAIN wagers
  BY DEF Refusal
<1> QED BY <1>1 DEF placeWager

LEMMA PlaceStep ==
  ASSUME Inv, NEW c \in calls, PlaceWager(c)
  PROVE  Inv'
<1>1. /\ c.stage = "dispatch" /\ c.stage \in PlacementStages /\ browserStays
      /\ quotes' = quotes /\ UNCHANGED <<market, offer, open, minted>>
  BY DEF PlaceWager, PlacementStages, browser, browserStays
<1>2. c \in CallRow /\ ~c.placed /\ c.mutation # 0 /\ Kin(c, c)
  BY <1>1, CallFacts, Itself DEF PlacementStages
<1>3. CASE ~Processed(c) /\ Refusal(c) = "ok"
  <2>1. PICK code \in {"ok", "POOL_UNAVAILABLE"} : Answer(c, code)
    BY <1>3 DEF PlaceWager
  <2>2. wagers' = WithWager(c) /\ pool' = [pool EXCEPT !.version = pool.version + 1]
    BY <1>3 DEF PlaceWager
  <2>3. WorldTypes'
    <3>1. pool' \in [version : Nat \ {0}, admits : BOOLEAN] BY <2>2 DEF Inv, WorldTypes
    <3> QED BY <1>1, <3>1 DEF Inv, WorldTypes
  <2>4. OfferGrows(offer, offer') BY <1>1, Counters DEF OfferGrows
  <2>5. Stores(c) /\ Inserts(c) BY <1>1, <1>2, <1>3, <2>2, Accepted DEF Stores, Inserts
  <2>6. code \in AdmittingCodes BY DEF AdmittingCodes
  <2> QED BY <1>1, <1>2, <2>1, <2>3, <2>4, <2>5, <2>6, AnswerKeeps
<1>4. CASE ~(~Processed(c) /\ Refusal(c) = "ok")
  <2>1. wagers' = wagers /\ pool' = pool BY <1>4 DEF PlaceWager
  <2>2. PICK code : Answer(c, code) BY <1>4 DEF PlaceWager
  <2>3. WorldTypes' /\ OfferGrows(offer, offer') BY <1>1, <2>1, Still
  <2> QED BY <1>1, <1>2, <2>1, <2>2, <2>3, PlacementAnswers
<1> QED BY <1>3, <1>4

LEMMA UnreachableStep ==
  ASSUME Inv, NEW c \in calls, Unreachable(c)
  PROVE  Inv'
<1>1. /\ c.stage # "answered" /\ Answer(c, "POOL_UNAVAILABLE") /\ browserStays
      /\ WorldTypes' /\ OfferGrows(offer, offer') /\ quotes' = quotes /\ wagers' = wagers
  BY Still DEF Unreachable, server, browser, browserStays
<1>2. Kin(c, c) /\ Stores(c) /\ Inserts(c) /\ "POOL_UNAVAILABLE" \in AdmittingCodes
  BY <1>1, CallFacts, Itself DEF Stores, Inserts, AdmittingCodes
<1> QED BY <1>1, <1>2, AnswerKeeps

-----------------------------------------------------------------------------
(* The market, the clock and the other members *)

LEMMA WorldStep ==
  ASSUME Inv, World
  PROVE  Inv'
<1> USE DEF Turn
<1>1. /\ quotes' = quotes /\ wagers' = wagers /\ slip' = slip /\ page' = page /\ calls' = calls
      /\ failed' = failed
  BY DEF World, LineMoves, Kickoff, Poll, PollFails, OfferAges, WindowTurns, PoolMoves, server
<1>2. minted' = [minted EXCEPT !.turn = minted.turn + 1]
  BY DEF World, LineMoves, Kickoff, Poll, PollFails, OfferAges, WindowTurns, PoolMoves
<1>3. /\ minted' \in [ticket : 0..MaxTickets, key : 0..MaxKeys, call : Nat, turn : Nat]
      /\ minted' \in MintedRow /\ minted \in MintedRow
      /\ minted'.ticket = minted.ticket /\ minted'.key = minted.key /\ minted'.call = minted.call
      /\ MintedGrows(minted, minted')
  <2>1. minted \in [ticket : 0..MaxTickets, key : 0..MaxKeys, call : Nat, turn : Nat]
    BY DEF Inv, WorldTypes
  <2>2. /\ minted' \in [ticket : 0..MaxTickets, key : 0..MaxKeys, call : Nat, turn : Nat]
        /\ minted'.ticket = minted.ticket /\ minted'.key = minted.key
        /\ minted'.call = minted.call
    BY <1>2, <2>1
  <2>3. minted' \in MintedRow BY <2>2, PlacementAssumption DEF MintedRow
  <2> QED BY <2>2, <2>3, Counters DEF MintedGrows, MintedRow
<1> DEFINE Moved == /\ market' \in [terms : Terms, started : BOOLEAN] /\ open' \in BOOLEAN
                    /\ pool' \in [version : Nat \ {0}, admits : BOOLEAN]
                    /\ \/ offer' = offer
                       \/ offer' = Published /\ offer.version < MaxOffers
                       \/ offer' = [offer EXCEPT !.covered = FALSE]
                       \/ offer' = [offer EXCEPT !.fresh = FALSE]
<1>4. /\ market \in [terms : Terms, started : BOOLEAN] /\ open \in BOOLEAN
      /\ pool \in [version : Nat \ {0}, admits : BOOLEAN]
  BY DEF Inv, WorldTypes
<1>5. Moved
  <2>1. CASE LineMoves
    <3>1. PICK t \in Terms : market' = [market EXCEPT !.terms = t] BY <2>1 DEF LineMoves
    <3> QED BY <1>4, <2>1, <3>1 DEF LineMoves, server
  <2>2. CASE Kickoff BY <1>4, <2>2 DEF Kickoff, server
  <2>3. CASE Poll BY <1>4, <2>3 DEF Poll
  <2>4. CASE PollFails BY <1>4, <2>4 DEF PollFails
  <2>5. CASE OfferAges BY <1>4, <2>5 DEF OfferAges
  <2>6. CASE WindowTurns
    <3>1. open' \in BOOLEAN BY <2>6 DEF WindowTurns
    <3> QED BY <1>4, <2>6, <3>1 DEF WindowTurns
  <2>7. CASE PoolMoves
    <3>1. PICK a \in BOOLEAN : pool' = [version |-> pool.version + 1, admits |-> a]
      BY <2>7 DEF PoolMoves
    <3>2. pool.version + 1 \in Nat \ {0} BY <1>4
    <3> QED BY <1>4, <2>7, <3>1, <3>2 DEF PoolMoves
  <2> QED BY <2>1, <2>2, <2>3, <2>4, <2>5, <2>6, <2>7 DEF World
<1>6. /\ offer' \in [lines : Seq(Terms), version : 1..MaxOffers, fresh : BOOLEAN,
                     covered : BOOLEAN]
      /\ Len(offer'.lines) = offer'.version /\ OfferGrows(offer, offer')
  <2>1. /\ offer \in [lines : Seq(Terms), version : 1..MaxOffers, fresh : BOOLEAN,
                      covered : BOOLEAN]
        /\ Len(offer.lines) = offer.version
    BY DEF Inv, WorldTypes
  <2>2. CASE offer' = Published /\ offer.version < MaxOffers BY <2>2, PublishedIs
  <2>3. CASE \/ offer' = offer \/ offer' = [offer EXCEPT !.covered = FALSE]
             \/ offer' = [offer EXCEPT !.fresh = FALSE]
    <3>1. /\ offer' \in [lines : Seq(Terms), version : 1..MaxOffers, fresh : BOOLEAN,
                          covered : BOOLEAN]
          /\ offer'.lines = offer.lines /\ offer'.version = offer.version
      BY <2>1, <2>3
    <3> QED BY <2>1, <3>1, Counters DEF OfferGrows
  <2> QED BY <1>5, <2>2, <2>3
<1>7. WorldTypes' BY <1>3, <1>5, <1>6 DEF WorldTypes
<1>8. \A h \in calls \cup {page} : GrowsFor(h, quotes, quotes')
  BY <1>1 DEF GrowsFor, QuotesGrow, Inv, CallsAreSound, CallIsSound, PageIsSound
<1>9. CallsAreSound(calls', offer', quotes', wagers', minted')
  <2>1. offer.version \in Nat /\ offer'.version \in Nat BY <1>6, Counters, PlacementAssumption
  <2>2. ASSUME NEW c \in calls PROVE CallIsSound(c, offer', quotes', minted')
    <3>1. CallIsSound(c, offer, quotes, minted) BY DEF Inv, CallsAreSound
    <3> QED BY <1>3, <1>6, <1>8, <2>1, <3>1, CallStays DEF MintedRow
  <2> QED BY <1>1, <2>2 DEF Inv, CallsAreSound
<1>10. PageIsSound(page', quotes', minted') BY <1>1, <1>3, <1>8, PageStays DEF Inv
<1>11. TablesAreSound(quotes', wagers', minted') BY <1>1, <1>3 DEF Inv, TablesAreSound
<1>12. RefusalsAreTrue(failed', calls', wagers', minted')
  BY <1>1, <1>3 DEF Inv, RefusalsAreTrue
<1> QED BY <1>1, <1>7, <1>9, <1>10, <1>11, <1>12 DEF Inv

-----------------------------------------------------------------------------
(* The page *)

LEMMA CurrentIsLeg ==
  ASSUME Inv
  PROVE  Current \in Leg
<1>1. /\ offer.lines \in Seq(Terms) /\ Len(offer.lines) = offer.version
      /\ offer.version \in 1..MaxOffers /\ MaxOffers \in Nat
  BY PlacementAssumption DEF Inv, WorldTypes
<1>2. offer.lines[offer.version] \in Terms BY <1>1
<1> QED BY <1>1, <1>2 DEF Current, Leg

\* What the page leaves alone: everything that is not its own.
OnlyPage == UNCHANGED <<market, server>>

LEMMA PageFacts ==
  ASSUME Inv
  PROVE  /\ page \in PageRow /\ page.wager \in Nat /\ page.key \in Nat /\ page.mutation \in Nat
         /\ page.seen \in Nat /\ page.ticket = page.wager /\ page.leg \in Leg \cup {NoLeg}
         /\ page.wager <= minted.ticket /\ page.key <= minted.key
         /\ minted.ticket \in Nat /\ minted.key \in Nat /\ minted.call \in Nat
         /\ \A c \in calls : /\ c.id \in Nat /\ c.id >= 1 /\ c.id <= minted.call
                             /\ c.key \in Nat /\ c.key >= 1 /\ c.key <= minted.key
<1>1. PageIsSound(page, quotes, minted) BY DEF Inv
<1>2. /\ page \in PageRow /\ page.wager \in Nat /\ page.key \in Nat /\ page.mutation \in Nat
      /\ page.seen \in Nat /\ page.leg \in Leg \cup {NoLeg}
  BY <1>1 DEF PageIsSound, PageRow
<1>3. ASSUME NEW c \in calls
      PROVE  /\ c.id \in Nat /\ c.id >= 1 /\ c.id <= minted.call
             /\ c.key \in Nat /\ c.key >= 1 /\ c.key <= minted.key
  <2>1. CallIsSound(c, offer, quotes, minted) BY DEF Inv, CallsAreSound
  <2> QED BY <2>1 DEF CallIsSound, CallRow, Minted
<1> QED BY <1>1, <1>2, <1>3, Counters DEF PageIsSound, Minted, MintedRow

\* The counters move on.
MintsOn == /\ minted' \in [ticket : 0..MaxTickets, key : 0..MaxKeys, call : Nat, turn : Nat]
           /\ MintedGrows(minted, minted')

\* No call is added, some may be over.
LEMMA PageMoves ==
  ASSUME Inv, NEW cs \in SUBSET calls, calls' = cs, OnlyPage, MintsOn,
         slip' \in Leg \cup {NoLeg}, failed' \subseteq [wager : Nat, call : Nat],
         PageIsSound(page', quotes, minted'), PageWaits(page', cs),
         RefusalsAreTrue(failed', cs, wagers, minted')
  PROVE  Inv'
<1>1. /\ market' = market /\ offer' = offer /\ open' = open /\ pool' = pool
      /\ quotes' = quotes /\ wagers' = wagers
  BY DEF OnlyPage, server
<1>2. WorldTypes' BY <1>1 DEF Inv, WorldTypes, MintsOn
<1>3. minted \in MintedRow /\ minted' \in MintedRow /\ offer.version \in Nat
  BY Counters, PlacementAssumption DEF MintsOn, MintedRow
<1>4. CallsAreSound(calls', offer', quotes', wagers', minted')
  <2>1. OfferGrows(offer, offer) BY <1>3 DEF OfferGrows
  <2>2. ASSUME NEW c \in calls PROVE CallIsSound(c, offer, quotes, minted')
    <3>1. CallIsSound(c, offer, quotes, minted) BY DEF Inv, CallsAreSound
    <3>2. GrowsFor(c, quotes, quotes) BY <3>1 DEF GrowsFor, QuotesGrow, CallIsSound
    <3> QED BY <1>3, <2>1, <3>1, <3>2, CallStays DEF MintedRow, MintsOn
  <2> QED BY <1>1, <2>2 DEF Inv, CallsAreSound
<1>5. CallsAreApart(calls') BY DEF Inv, CallsAreApart
<1>6. TablesAreSound(quotes', wagers', minted')
  <2>1. TablesAreSound(quotes, wagers, minted) BY DEF Inv
  <2>2. \A v \in DOMAIN wagers : wagers[v].call \in Nat BY <2>1 DEF TablesAreSound, WagerRow
  <2> QED BY <1>1, <1>3, <2>1, <2>2 DEF TablesAreSound, MintsOn, MintedGrows, MintedRow
<1> QED BY <1>1, <1>2, <1>4, <1>5, <1>6 DEF Inv

\* A page that waits for nothing waits well.
LEMMA Idle ==
  ASSUME Inv, NEW cs \in SUBSET calls, NEW p, p.call = 0, \A c \in calls : Same(p, c)
  PROVE  PageWaits(p, cs)
BY PageFacts DEF PageWaits

LEMMA GoneIsRow ==
  Gone \in PageRow
<1>1. 0 \in 0..Replays BY PlacementAssumption
<1>2. "gone" \in PageTags BY DEF PageTags
<1> QED BY <1>1, <1>2 DEF Gone, PageRow

LEMMA GoneIs ==
  ASSUME Inv, NEW cs \in SUBSET calls
  PROVE  PageIsSound(Gone, quotes, minted) /\ PageWaits(Gone, cs)
<1>1. /\ Gone \in PageRow /\ Gone.tag = "gone" /\ Gone.key = 0 /\ Gone.wager = 0
      /\ Gone.ticket = 0 /\ Gone.mutation = 0 /\ Gone.call = 0
  BY GoneIsRow DEF Gone
<1>2. 0 \notin DOMAIN quotes
  <2>1. DOMAIN quotes \subseteq 1..minted.key BY DEF Inv, TablesAreSound
  <2> QED BY <2>1, PageFacts
<1>3. PageIsSound(Gone, quotes, minted)
  BY <1>1, <1>2, PageFacts DEF PageIsSound, Minted, Asked
<1>4. \A c \in calls : Same(Gone, c) BY <1>1, PageFacts DEF Same
<1> QED BY <1>1, <1>3, <1>4, Idle

\* The page of ticket w under a key of its own.
Editing(w, leg) == [Gone EXCEPT !.tag = "editing", !.wager = w, !.ticket = w,
                                !.key = minted.key + 1, !.leg = leg]

LEMMA NewKey ==
  ASSUME Inv, NEW cs \in SUBSET calls, NEW leg \in Leg \cup {NoLeg}, NEW w \in Nat, w >= 1,
         MintsOn, minted'.key = minted.key + 1, w <= minted'.ticket
  PROVE  PageIsSound(Editing(w, leg), quotes, minted') /\ PageWaits(Editing(w, leg), cs)
<1> DEFINE p == Editing(w, leg)
<1>1. minted.key \in Nat /\ MaxKeys \in Nat BY PageFacts, PlacementAssumption
<1>2. /\ p \in PageRow /\ p.tag = "editing" /\ p.wager = w /\ p.ticket = w
      /\ p.key = minted.key + 1 /\ p.mutation = 0 /\ p.call = 0
  <2>1. "editing" \in PageTags /\ minted.key + 1 \in Nat BY <1>1 DEF PageTags
  <2>2. p \in PageRow BY <2>1, GoneIsRow DEF PageRow, Editing
  <2> QED BY <2>2 DEF Gone, PageRow, Editing
<1> HIDE DEF p
<1>3. p.key \notin DOMAIN quotes
  <2>1. DOMAIN quotes \subseteq 1..minted.key BY DEF Inv, TablesAreSound
  <2> QED BY <1>1, <1>2, <2>1
<1>4. PageIsSound(p, quotes, minted')
  BY <1>1, <1>2, <1>3 DEF PageIsSound, Minted, Asked
<1>5. \A c \in calls : Same(p, c) BY <1>1, <1>2, PageFacts DEF Same
<1> QED BY <1>2, <1>4, <1>5, Idle DEF p

LEMMA FreshIs ==
  ASSUME Inv, NEW cs \in SUBSET calls, NEW leg \in Leg \cup {NoLeg}, MintTicket
  PROVE  /\ PageIsSound(Fresh(leg), quotes, minted') /\ PageWaits(Fresh(leg), cs)
         /\ MintsOn /\ minted'.call = minted.call
<1>1. /\ minted \in [ticket : 0..MaxTickets, key : 0..MaxKeys, call : Nat, turn : Nat]
      /\ minted.ticket < MaxTickets /\ minted.key < MaxKeys
      /\ minted' = [minted EXCEPT !.ticket = minted.ticket + 1, !.key = minted.key + 1]
  BY DEF MintTicket, CanMint, Inv, WorldTypes
<1>2. /\ minted' \in [ticket : 0..MaxTickets, key : 0..MaxKeys, call : Nat, turn : Nat]
      /\ minted'.ticket = minted.ticket + 1 /\ minted'.key = minted.key + 1
      /\ minted'.call = minted.call
  <2>1. minted.ticket + 1 \in 0..MaxTickets /\ minted.key + 1 \in 0..MaxKeys
    BY <1>1, PlacementAssumption
  <2> QED BY <1>1, <2>1
<1>3. MintsOn BY <1>2, PageFacts DEF MintsOn, MintedGrows
<1>4. minted.ticket + 1 \in Nat /\ minted.ticket + 1 >= 1 /\ minted.ticket + 1 <= minted'.ticket
  BY <1>2, PageFacts
<1>5. Fresh(leg) = Editing(minted.ticket + 1, leg) BY DEF Fresh, Editing
<1> QED BY <1>2, <1>3, <1>4, <1>5, NewKey

\* The page changes its mind about the ticket it has.
LEMMA Retagged ==
  ASSUME Inv, NEW cs \in SUBSET calls, NEW p \in PageRow, page.tag # "gone",
         p.wager = page.wager, p.ticket = page.ticket, p.key = page.key, p.leg = page.leg,
         p.seen = page.seen, p.mutation = page.mutation, p.call = 0,
         \/ p.tag = "editing" /\ page.mutation = 0
         \/ p.tag \in {"reviewing", "unknown"} /\ page.mutation # 0
         \/ p.tag = "recovering" /\ (p.back = "editing" <=> page.mutation = 0)
  PROVE  PageIsSound(p, quotes, minted) /\ PageWaits(p, cs)
<1>1. PageIsSound(page, quotes, minted) /\ PageWaits(page, calls) BY DEF Inv
<1>2. Asked(p, quotes) /\ Minted(p, minted) BY <1>1 DEF PageIsSound, Asked, Minted
<1>3. Row(p) = Row(page) BY DEF Row
<1>4. p.mutation # 0 => IsQuoted(p, quotes) BY <1>1, <1>3 DEF PageIsSound, IsQuoted
<1>5. PageIsSound(p, quotes, minted) BY <1>1, <1>2, <1>4 DEF PageIsSound
<1>6. \A c \in calls : Same(p, c) BY <1>1 DEF PageWaits, Same
<1> QED BY <1>5, <1>6, Idle

LEMMA RefusalsStay ==
  ASSUME Inv, NEW cs \in SUBSET calls, MintsOn
  PROVE  RefusalsAreTrue(failed, cs, wagers, minted')
<1>1. RefusalsAreTrue(failed, calls, wagers, minted) BY DEF Inv
<1>2. \A f \in failed : f.call \in Nat BY DEF Inv
<1>3. minted.call \in Nat /\ minted'.call \in Nat /\ minted.call <= minted'.call
  BY PageFacts DEF MintsOn, MintedGrows
<1> QED BY <1>1, <1>2, <1>3 DEF RefusalsAreTrue

LEMMA NothingMinted ==
  ASSUME Inv, minted' = minted
  PROVE  MintsOn
BY PageFacts DEF MintsOn, MintedGrows, Inv, WorldTypes

\* The page turns to another ticket.
LEMMA FreshPage ==
  ASSUME Inv, NEW cs \in SUBSET calls, calls' = cs, OnlyPage, MintTicket,
         NEW leg \in Leg \cup {NoLeg}, page' = Fresh(leg), slip' \in Leg \cup {NoLeg},
         failed' \subseteq [wager : Nat, call : Nat], RefusalsAreTrue(failed', cs, wagers, minted')
  PROVE  Inv'
BY FreshIs, PageMoves

\* The page keeps its ticket and mints nothing.
LEMMA SamePage ==
  ASSUME Inv, NEW cs \in SUBSET calls, calls' = cs, OnlyPage, minted' = minted, failed' = failed,
         slip' \in Leg \cup {NoLeg}, PageIsSound(page', quotes, minted), PageWaits(page', cs)
  PROVE  Inv'
<1>1. MintsOn BY NothingMinted
<1>2. RefusalsAreTrue(failed', cs, wagers, minted') BY <1>1, RefusalsStay
<1>3. failed' \subseteq [wager : Nat, call : Nat] BY DEF Inv
<1> QED BY <1>1, <1>2, <1>3, PageMoves

LEMMA BuildSlipStep ==
  ASSUME Inv, BuildSlip
  PROVE  Inv'
<1>1. OnlyPage /\ MintTicket /\ calls' = calls /\ failed' = failed /\ page' = Fresh(Current)
  BY DEF BuildSlip, OnlyPage
<1>2. Current \in Leg /\ slip' \in Leg \cup {NoLeg} BY CurrentIsLeg DEF BuildSlip
<1>3. MintsOn BY <1>1, <1>2, FreshIs
<1>4. RefusalsAreTrue(failed', calls, wagers, minted') BY <1>1, <1>3, RefusalsStay
<1>5. failed' \subseteq [wager : Nat, call : Nat] BY <1>1 DEF Inv
<1> QED BY <1>1, <1>2, <1>4, <1>5, FreshPage

LEMMA OpenBuilderStep ==
  ASSUME Inv, OpenBuilder
  PROVE  Inv'
<1>1. /\ OnlyPage /\ MintTicket /\ calls' = calls /\ failed' = failed /\ page' = Fresh(slip)
      /\ slip' = slip
  BY DEF OpenBuilder, OnlyPage
<1>2. slip \in Leg \cup {NoLeg} BY DEF Inv
<1>3. MintsOn BY <1>1, <1>2, FreshIs
<1>4. RefusalsAreTrue(failed', calls, wagers, minted') BY <1>1, <1>3, RefusalsStay
<1>5. failed' \subseteq [wager : Nat, call : Nat] BY <1>1 DEF Inv
<1> QED BY <1>1, <1>2, <1>4, <1>5, FreshPage

LEMMA EditTermsStep ==
  ASSUME Inv, EditTerms
  PROVE  Inv'
<1>1. /\ OnlyPage /\ MintTicket /\ calls' = calls /\ failed' = failed /\ page' = Fresh(page.leg)
      /\ slip' = slip
  BY DEF EditTerms, OnlyPage
<1>2. slip \in Leg \cup {NoLeg} /\ page.leg \in Leg \cup {NoLeg} BY PageFacts DEF Inv
<1>3. MintsOn BY <1>1, <1>2, FreshIs
<1>4. RefusalsAreTrue(failed', calls, wagers, minted') BY <1>1, <1>3, RefusalsStay
<1>5. failed' \subseteq [wager : Nat, call : Nat] BY <1>1 DEF Inv
<1> QED BY <1>1, <1>2, <1>4, <1>5, FreshPage

\* Others take the place of call c: the call itself, or its repetition.
LEMMA RenewedCalls ==
  ASSUME Inv, NEW c \in calls, NEW T, calls' = (calls \ {c}) \cup T, OnlyPage, MintsOn,
         slip' = slip, failed' = failed,
         page' = Gone \/ (page' = page /\ page.call # c.id),
         \A t \in T : /\ CallIsSound(t, offer, quotes, minted')
                      /\ ReplaysFind(t, wagers) /\ PlacerAdmits(t, wagers)
                      /\ t.key = c.key /\ t.wager = c.wager /\ t.leg = c.leg
                      /\ t.id = c.id \/ t.id = minted.call + 1,
         \A s, t \in T : s.id = t.id => s = t
  PROVE  Inv'
<1>1. /\ market' = market /\ offer' = offer /\ open' = open /\ pool' = pool
      /\ quotes' = quotes /\ wagers' = wagers
  BY DEF OnlyPage, server
<1>2. /\ minted \in MintedRow /\ minted' \in MintedRow /\ MintedGrows(minted, minted')
      /\ offer.version \in Nat
  BY Counters, PlacementAssumption DEF MintsOn, MintedRow
<1>3. \A e \in calls : e.id \in Nat /\ e.id # minted.call + 1 BY PageFacts
<1>4. ASSUME NEW e \in calls PROVE CallIsSound(e, offer, quotes, minted')
  <2>1. CallIsSound(e, offer, quotes, minted) BY DEF Inv, CallsAreSound
  <2>2. GrowsFor(e, quotes, quotes) BY <2>1 DEF GrowsFor, QuotesGrow, CallIsSound
  <2>3. OfferGrows(offer, offer) BY <1>2 DEF OfferGrows
  <2> QED BY <1>2, <2>1, <2>2, <2>3, CallStays DEF MintedRow
<1>5. CallsAreSound(calls', offer, quotes, wagers, minted') BY <1>4 DEF Inv, CallsAreSound
<1>6. CallsAreApart(calls')
  <2>1. \A e, f \in calls : (e.id = f.id => e = f) /\ Same(e, f) BY DEF Inv, CallsAreApart
  <2>2. \A e, f \in calls' : e.id = f.id => e = f BY <1>3, <2>1
  <2>3. \A e \in calls' : \E g \in calls : g.key = e.key /\ g.wager = e.wager /\ g.leg = e.leg
    OBVIOUS
  <2>4. \A e, f \in calls' : Same(e, f) BY <2>1, <2>3 DEF Same
  <2> QED BY <2>2, <2>4 DEF CallsAreApart
<1>7. PageIsSound(page', quotes, minted')
  <2>1. PageIsSound(page', quotes, minted)
    <3>1. PageIsSound(Gone, quotes, minted) BY GoneIs
    <3> QED BY <3>1 DEF Inv
  <2>2. GrowsFor(page', quotes, quotes) BY <2>1 DEF GrowsFor, QuotesGrow, PageIsSound
  <2> QED BY <1>2, <2>1, <2>2, PageStays
<1>8. PageWaits(page', calls')
  <2>1. CASE page' = Gone
    <3>1. PageWaits(Gone, calls) /\ Gone.call = 0 BY GoneIs DEF Gone
    <3>2. \A e \in calls' : Same(Gone, e) BY <3>1 DEF PageWaits, Same
    <3>3. \A e \in calls' : e.id # 0 BY <1>3, PageFacts
    <3> QED BY <2>1, <3>1, <3>2, <3>3 DEF PageWaits
  <2>2. CASE page' = page /\ page.call # c.id
    <3>1. PageWaits(page, calls) BY DEF Inv
    <3>2. \A e \in calls' : Same(page, e) BY <3>1 DEF PageWaits, Same
    <3>3. page.call # minted.call + 1
      <4>1. minted.call + 1 # 0 BY PageFacts
      <4> QED BY <1>3, <3>1, <4>1 DEF PageWaits
    <3>4. \A e \in calls' : e.id = page.call => e \in calls /\ e # c BY <2>2, <3>3
    <3>5. page.call # 0 => \E e \in calls' : e.id = page.call BY <2>2, <3>1 DEF PageWaits
    <3> QED BY <2>2, <3>1, <3>2, <3>4, <3>5 DEF PageWaits
  <2> QED BY <2>1, <2>2
<1>9. TablesAreSound(quotes, wagers, minted')
  <2>1. TablesAreSound(quotes, wagers, minted) BY DEF Inv
  <2>2. \A v \in DOMAIN wagers : wagers[v].call \in Nat BY <2>1 DEF TablesAreSound, WagerRow
  <2> QED BY <1>2, <2>1, <2>2 DEF TablesAreSound, MintedGrows, MintedRow
<1>10. RefusalsAreTrue(failed, calls', wagers, minted')
  <2>1. RefusalsAreTrue(failed, calls, wagers, minted) /\ \A f \in failed : f.call \in Nat
    BY DEF Inv
  <2>2. ASSUME NEW f \in failed
        PROVE  f.call <= minted'.call /\ f.call # minted.call + 1 /\ \A e \in calls : e.id # f.call
    BY <1>2, <2>1 DEF RefusalsAreTrue, MintedGrows, MintedRow
  <2> QED BY <2>1, <2>2 DEF RefusalsAreTrue
<1>11. WorldTypes' BY <1>1 DEF Inv, WorldTypes, MintsOn
<1> QED BY <1>1, <1>5, <1>6, <1>7, <1>8, <1>9, <1>10, <1>11 DEF Inv

\* A call is as sound whichever replays may follow it.
LEMMA OthersMayFollow ==
  ASSUME Inv, NEW c \in calls, NEW n \in 0..Replays, n > 0 => c.mutation # 0
  PROVE  /\ CallIsSound([c EXCEPT !.left = n], offer, quotes, minted)
         /\ ReplaysFind([c EXCEPT !.left = n], wagers) /\ PlacerAdmits([c EXCEPT !.left = n], wagers)
         /\ [c EXCEPT !.left = n].key = c.key /\ [c EXCEPT !.left = n].wager = c.wager
         /\ [c EXCEPT !.left = n].leg = c.leg /\ [c EXCEPT !.left = n].id = c.id
<1> DEFINE t == [c EXCEPT !.left = n]
<1>1. c \in CallRow BY CallFacts
<1>2. /\ t \in CallRow /\ t.id = c.id /\ t.wager = c.wager /\ t.ticket = c.ticket /\ t.key = c.key
      /\ t.leg = c.leg /\ t.seen = c.seen /\ t.mutation = c.mutation /\ t.stage = c.stage
      /\ t.answer = c.answer /\ t.live = c.live /\ t.left = n /\ t.from = c.from
      /\ t.placed = c.placed
  BY <1>1 DEF CallRow
<1> HIDE DEF t
<1>3. /\ CallIsSound(c, offer, quotes, minted)
      /\ ReplaysFind(c, wagers) /\ PlacerAdmits(c, wagers)
  BY DEF Inv, CallsAreSound
<1>4. Minted(t, minted) /\ Asked(t, quotes) /\ (IsQuoted(c, quotes) => IsQuoted(t, quotes))
      /\ (Carried(c, offer) => Carried(t, offer))
  BY <1>2, <1>3 DEF CallIsSound, Minted, Asked, IsQuoted, Row, Carried
<1>5. CallIsSound(t, offer, quotes, minted) BY <1>2, <1>3, <1>4 DEF CallIsSound
<1>6. ReplaysFind(t, wagers) /\ PlacerAdmits(t, wagers)
  BY <1>2, <1>3 DEF ReplaysFind, PlacerAdmits, Admits
<1> QED BY <1>2, <1>5, <1>6 DEF t

LEMMA LeavePageStep ==
  ASSUME Inv, LeavePage
  PROVE  Inv'
<1>1. OnlyPage /\ minted' = minted /\ failed' = failed /\ page' = Gone /\ slip' = slip
  BY DEF LeavePage, OnlyPage
<1>2. CASE calls' = calls
  <2>1. slip \in Leg \cup {NoLeg} BY DEF Inv
  <2>2. PageIsSound(Gone, quotes, minted) /\ PageWaits(Gone, calls) BY GoneIs
  <2> QED BY <1>1, <1>2, <2>1, <2>2, SamePage
<1>3. ASSUME page.tag = "submitting", NEW c \in calls, c.id = page.call,
             calls' = (calls \ {c}) \cup {[c EXCEPT !.left = page.tries]}
      PROVE  Inv'
  <2>1. page.tries \in 0..Replays BY PageFacts DEF PageRow
  <2>2. c.mutation # 0 BY <1>3 DEF Inv, PageWaits, PageIsSound
  <2>3. PICK n \in 0..Replays : n = page.tries BY <2>1
  <2>4. PICK t : t = [c EXCEPT !.left = n] OBVIOUS
  <2>5. /\ CallIsSound(t, offer, quotes, minted) /\ ReplaysFind(t, wagers)
        /\ PlacerAdmits(t, wagers) /\ t.key = c.key /\ t.wager = c.wager /\ t.leg = c.leg
        /\ t.id = c.id
    BY <2>2, <2>4, OthersMayFollow
  <2>6. PICK T : T = {t} OBVIOUS
  <2>7. calls' = (calls \ {c}) \cup T BY <1>3, <2>3, <2>4, <2>6
  <2>8. MintsOn BY <1>1, NothingMinted
  <2>9. \A s \in T : /\ CallIsSound(s, offer, quotes, minted')
                     /\ ReplaysFind(s, wagers) /\ PlacerAdmits(s, wagers)
                     /\ s.key = c.key /\ s.wager = c.wager /\ s.leg = c.leg
                     /\ s.id = c.id \/ s.id = minted.call + 1
    BY <1>1, <2>5, <2>6
  <2>10. \A s, u \in T : s.id = u.id => s = u BY <2>6
  <2> QED BY <1>1, <2>7, <2>8, <2>9, <2>10, RenewedCalls
<1> QED BY <1>2, <1>3 DEF LeavePage

LEMMA RecoverStep ==
  ASSUME Inv, Recover
  PROVE  Inv'
<1>1. OnlyPage /\ calls' = calls /\ failed' = failed /\ page.tag = "recovering"
  BY DEF Recover, OnlyPage
<1>2. /\ PageIsSound(page, quotes, minted) /\ slip \in Leg \cup {NoLeg}
      /\ failed \subseteq [wager : Nat, call : Nat]
  BY DEF Inv
<1>3. CASE /\ CanMint /\ page' = Recovered /\ slip' = Current
           /\ minted' = [minted EXCEPT
                !.ticket = IF Recovered.wager > minted.ticket THEN minted.ticket + 1
                           ELSE minted.ticket,
                !.key = minted.key + 1]
  <2>1. Recovered = Editing(page.wager, Current)
    BY <1>2, PageFacts DEF Recovered, Editing
  <2>2. Recovered.wager = page.wager BY DEF Recovered, Gone
  <2>3. ~(Recovered.wager > minted.ticket) /\ page.wager >= 1
    BY <1>1, <1>2, <2>2, PageFacts DEF PageIsSound
  <2>4. minted' = [minted EXCEPT !.ticket = minted.ticket, !.key = minted.key + 1]
    BY <1>3, <2>3
  <2>5. /\ minted \in [ticket : 0..MaxTickets, key : 0..MaxKeys, call : Nat, turn : Nat]
        /\ minted.key + 1 \in 0..MaxKeys
    BY <1>3, PlacementAssumption DEF CanMint, Inv, WorldTypes
  <2>6. /\ minted' \in [ticket : 0..MaxTickets, key : 0..MaxKeys, call : Nat, turn : Nat]
        /\ minted'.ticket = minted.ticket /\ minted'.key = minted.key + 1
        /\ minted'.call = minted.call
    BY <2>4, <2>5
  <2>7. MintsOn BY <2>6, PageFacts DEF MintsOn, MintedGrows
  <2>8. Current \in Leg /\ slip' \in Leg \cup {NoLeg} BY <1>3, CurrentIsLeg
  <2>9. PageIsSound(page', quotes, minted') /\ PageWaits(page', calls)
    BY <1>3, <2>1, <2>3, <2>6, <2>7, <2>8, PageFacts, NewKey
  <2>10. RefusalsAreTrue(failed', calls, wagers, minted') BY <1>1, <2>7, RefusalsStay
  <2> QED BY <1>1, <1>2, <2>7, <2>8, <2>9, <2>10, PageMoves
<1>4. CASE page' = Fresh(NoLeg) /\ slip' = NoLeg /\ MintTicket
  <2>1. MintsOn BY <1>4, FreshIs
  <2>2. RefusalsAreTrue(failed', calls, wagers, minted') BY <1>1, <2>1, RefusalsStay
  <2> QED BY <1>1, <1>2, <1>4, <2>2, FreshPage
<1>5. CASE page' = [page EXCEPT !.tag = page.back] /\ slip' = slip /\ minted' = minted
  <2> DEFINE p == [page EXCEPT !.tag = page.back]
  <2>1. page \in PageRow /\ page.back \in {"editing", "reviewing", "unknown"}
    BY PageFacts DEF PageRow
  <2>2. /\ p \in PageRow /\ p.wager = page.wager /\ p.ticket = page.ticket /\ p.key = page.key
        /\ p.leg = page.leg /\ p.seen = page.seen /\ p.mutation = page.mutation
        /\ p.call = page.call /\ p.tag = page.back
    BY <2>1 DEF PageRow, PageTags
  <2>3. page.call = 0 /\ (page.back = "editing" <=> page.mutation = 0)
    BY <1>1, <1>2 DEF PageIsSound
  <2> HIDE DEF p
  <2>4. PageIsSound(p, quotes, minted) /\ PageWaits(p, calls)
    BY <1>1, <2>1, <2>2, <2>3, Retagged
  <2>5. page' = p BY <1>5 DEF p
  <2> QED BY <1>1, <1>2, <1>5, <2>4, <2>5, SamePage
<1> QED BY <1>3, <1>4, <1>5 DEF Recover

-----------------------------------------------------------------------------
(* What the page hears *)

LEMMA HeardIs ==
  ASSUME Inv, NEW c \in calls, NEW outcome, Heard(c, outcome)
  PROVE  /\ calls' \in SUBSET calls /\ c.id = page.call /\ page.call # 0
         /\ c.key = page.key /\ c.wager = page.wager /\ c.leg = page.leg
         /\ c.mutation = page.mutation
         /\ outcome # "retryable" => /\ c.stage = "answered" /\ c.answer = outcome
                                     /\ calls' = calls \ {c}
<1>1. calls' \in SUBSET calls /\ c.id = page.call BY DEF Heard
<1>2. page.call # 0 BY <1>1, PageFacts
<1>3. PageWaits(page, calls) BY DEF Inv
<1> QED BY <1>1, <1>2, <1>3 DEF Heard, PageWaits

LEMMA QuoteHeardStep ==
  ASSUME Inv, NEW c \in calls, QuoteHeard(c)
  PROVE  Inv'
<1>1. /\ OnlyPage /\ slip' = slip /\ failed' = failed /\ page.tag = "quoting"
      /\ slip \in Leg \cup {NoLeg} /\ failed \subseteq [wager : Nat, call : Nat]
      /\ PageIsSound(page, quotes, minted) /\ PageWaits(page, calls)
  BY DEF QuoteHeard, OnlyPage, Inv
<1>2. page.mutation = 0 /\ page \in PageRow BY <1>1 DEF PageIsSound
<1>3. CASE /\ Heard(c, "ok") /\ minted.key < MaxKeys
           /\ page' = [page EXCEPT !.tag = "reviewing", !.call = 0, !.seen = c.seen,
                                   !.mutation = minted.key + 1]
           /\ minted' = [minted EXCEPT !.key = minted.key + 1]
  <2> DEFINE p == [page EXCEPT !.tag = "reviewing", !.call = 0, !.seen = c.seen,
                               !.mutation = minted.key + 1]
  <2>1. /\ calls' \in SUBSET calls /\ c.key = page.key /\ c.wager = page.wager
        /\ c.leg = page.leg /\ c.mutation = page.mutation
        /\ c.stage = "answered" /\ c.answer = "ok"
    BY <1>3, HeardIs
  <2>2. c \in CallRow /\ c.seen \in Nat /\ IsQuoted(c, quotes)
    <3>1. CallIsSound(c, offer, quotes, minted) BY DEF Inv, CallsAreSound
    <3> QED BY <1>2, <2>1, <3>1 DEF CallIsSound, CallRow
  <2>3. /\ minted \in [ticket : 0..MaxTickets, key : 0..MaxKeys, call : Nat, turn : Nat]
        /\ minted.key + 1 \in 0..MaxKeys /\ minted.key + 1 \in Nat /\ minted.key + 1 # 0
    BY <1>3, PageFacts, PlacementAssumption DEF Inv, WorldTypes
  <2>4. /\ minted' \in [ticket : 0..MaxTickets, key : 0..MaxKeys, call : Nat, turn : Nat]
        /\ minted'.ticket = minted.ticket /\ minted'.key = minted.key + 1
        /\ minted'.call = minted.call
    BY <1>3, <2>3
  <2>5. MintsOn BY <2>4, PageFacts DEF MintsOn, MintedGrows
  <2>6. /\ p \in PageRow /\ p.tag = "reviewing" /\ p.call = 0 /\ p.seen = c.seen
        /\ p.mutation = minted.key + 1 /\ p.wager = page.wager /\ p.ticket = page.ticket
        /\ p.key = page.key /\ p.leg = page.leg
    BY <1>2, <2>2, <2>3 DEF PageRow, PageTags
  <2> HIDE DEF p
  <2>7. IsQuoted(p, quotes)
    <3>1. Row(p) = Row(c) BY <2>1, <2>6 DEF Row
    <3> QED BY <2>1, <2>2, <2>6, <3>1 DEF IsQuoted
  <2>8. Asked(p, quotes) BY <1>1, <2>6 DEF Asked, PageIsSound
  <2>9. Minted(p, minted') BY <1>1, <2>4, <2>6, PageFacts DEF Minted
  <2>10. PageIsSound(p, quotes, minted')
    BY <1>1, <2>3, <2>6, <2>7, <2>8, <2>9 DEF PageIsSound
  <2>11. \A e \in calls : Same(p, e) BY <1>1, <2>6 DEF PageWaits, Same
  <2>12. PageWaits(p, calls') BY <2>1, <2>6, <2>11, Idle
  <2>13. page' = p BY <1>3 DEF p
  <2>14. RefusalsAreTrue(failed', calls', wagers, minted') BY <1>1, <2>1, <2>5, RefusalsStay
  <2> QED BY <1>1, <2>1, <2>5, <2>10, <2>12, <2>13, <2>14, PageMoves
<1>4. ASSUME NEW outcome \in {"stale", "retryable", "terminal"}, Heard(c, outcome),
             minted' = minted, NEW p, page' = p, p \in PageRow, p.call = 0,
             p.wager = page.wager, p.ticket = page.ticket, p.key = page.key,
             p.leg = page.leg, p.seen = page.seen, p.mutation = page.mutation,
             p.tag \in {"editing", "recovering"}, p.tag = "recovering" => p.back = "editing"
      PROVE  Inv'
  <2>1. calls' \in SUBSET calls BY <1>4, HeardIs
  <2>2. PageIsSound(p, quotes, minted) /\ PageWaits(p, calls')
    BY <1>1, <1>2, <1>4, <2>1, Retagged
  <2> QED BY <1>1, <1>4, <2>1, <2>2, SamePage
<1>5. CASE /\ Heard(c, "stale") /\ minted' = minted
           /\ page' = [page EXCEPT !.tag = "recovering", !.call = 0, !.back = "editing"]
  <2> DEFINE p == [page EXCEPT !.tag = "recovering", !.call = 0, !.back = "editing"]
  <2>1. /\ p \in PageRow /\ p.tag = "recovering" /\ p.call = 0 /\ p.back = "editing"
        /\ p.mutation = page.mutation /\ p.wager = page.wager /\ p.ticket = page.ticket
        /\ p.key = page.key /\ p.leg = page.leg /\ p.seen = page.seen
    BY <1>2 DEF PageRow, PageTags
  <2>2. page' = p BY <1>5
  <2> HIDE DEF p
  <2> QED BY <1>4, <1>5, <2>1, <2>2
<1>6. ASSUME NEW outcome \in {"retryable", "terminal"}, Heard(c, outcome), minted' = minted,
             page' = [page EXCEPT !.tag = "editing", !.call = 0]
      PROVE  Inv'
  <2> DEFINE p == [page EXCEPT !.tag = "editing", !.call = 0]
  <2>1. /\ p \in PageRow /\ p.tag = "editing" /\ p.call = 0
        /\ p.mutation = page.mutation /\ p.wager = page.wager /\ p.ticket = page.ticket
        /\ p.key = page.key /\ p.leg = page.leg /\ p.seen = page.seen
    BY <1>2 DEF PageRow, PageTags
  <2>2. page' = p BY <1>6
  <2> HIDE DEF p
  <2> QED BY <1>4, <1>6, <2>1, <2>2
<1>7. PICK outcome \in {"ok", "stale", "retryable", "terminal"} :
        /\ Heard(c, outcome)
        /\ CASE outcome = "ok" ->
                  /\ minted.key < MaxKeys
                  /\ page' = [page EXCEPT !.tag = "reviewing", !.call = 0, !.seen = c.seen,
                                          !.mutation = minted.key + 1]
                  /\ minted' = [minted EXCEPT !.key = minted.key + 1]
             [] outcome = "stale" ->
                  /\ page' = [page EXCEPT !.tag = "recovering", !.call = 0, !.back = "editing"]
                  /\ UNCHANGED minted
             [] OTHER ->
                  /\ page' = [page EXCEPT !.tag = "editing", !.call = 0]
                  /\ UNCHANGED minted
  BY DEF QuoteHeard
<1>8. CASE outcome = "ok" BY <1>3, <1>7, <1>8
<1>9. CASE outcome = "stale" BY <1>5, <1>7, <1>9
<1>10. CASE outcome \in {"retryable", "terminal"} BY <1>6, <1>7, <1>10
<1> QED BY <1>7, <1>8, <1>9, <1>10

LEMMA PlacementHeardStep ==
  ASSUME Inv, NEW c \in calls, PlacementHeard(c)
  PROVE  Inv'
<1>1. /\ OnlyPage /\ page.tag = "submitting" /\ slip \in Leg \cup {NoLeg}
      /\ failed \subseteq [wager : Nat, call : Nat]
      /\ PageIsSound(page, quotes, minted) /\ PageWaits(page, calls)
  BY DEF PlacementHeard, OnlyPage, Inv
<1>2. page.mutation # 0 /\ page.back # "editing" /\ page \in PageRow BY <1>1 DEF PageIsSound
<1>3. CASE Heard(c, "ok") /\ slip' = NoLeg /\ page' = Gone /\ UNCHANGED <<minted, failed>>
  <2>1. calls' \in SUBSET calls BY <1>3, HeardIs
  <2>2. PageIsSound(Gone, quotes, minted) /\ PageWaits(Gone, calls') BY <2>1, GoneIs
  <2> QED BY <1>1, <1>3, <2>1, <2>2, SamePage
<1>4. ASSUME NEW outcome, Heard(c, outcome), NEW tag \in {"recovering", "unknown"},
             page' = [page EXCEPT !.tag = tag, !.call = 0], UNCHANGED <<slip, minted, failed>>
      PROVE  Inv'
  <2> DEFINE p == [page EXCEPT !.tag = tag, !.call = 0]
  <2>1. /\ p \in PageRow /\ p.tag = tag /\ p.call = 0 /\ p.back = page.back
        /\ p.mutation = page.mutation /\ p.wager = page.wager /\ p.ticket = page.ticket
        /\ p.key = page.key /\ p.leg = page.leg /\ p.seen = page.seen
    BY <1>2 DEF PageRow, PageTags
  <2>2. page' = p BY <1>4
  <2> HIDE DEF p
  <2>3. calls' \in SUBSET calls BY <1>4, HeardIs
  <2>4. PageIsSound(p, quotes, minted) /\ PageWaits(p, calls')
    BY <1>1, <1>2, <2>1, <2>3, Retagged
  <2> QED BY <1>1, <1>4, <2>2, <2>3, <2>4, SamePage
<1>5. CASE /\ Heard(c, "terminal") /\ page' = Fresh(page.leg) /\ MintTicket /\ slip' = slip
           /\ failed' = failed \cup {[wager |-> page.wager, call |-> c.id]}
  <2> DEFINE r == [wager |-> page.wager, call |-> c.id]
  <2>1. /\ calls' \in SUBSET calls /\ calls' = calls \ {c} /\ c.stage = "answered"
        /\ c.answer = "terminal"
    BY <1>5, HeardIs
  <2>2. page.leg \in Leg \cup {NoLeg} /\ c.id \in Nat /\ page.wager \in Nat /\ c.id <= minted.call
    BY PageFacts
  <2>3. MintsOn /\ minted'.call = minted.call BY <1>5, <2>1, <2>2, FreshIs
  <2>4. RefusalsAreTrue(failed, calls', wagers, minted') BY <2>1, <2>3, RefusalsStay
  <2>5. \A e \in calls' : e.id # c.id BY <2>1 DEF Inv, CallsAreApart
  <2>6. page.wager \in DOMAIN wagers => wagers[page.wager].call # c.id
    <3>1. PlacerAdmits(c, wagers) BY DEF Inv, CallsAreSound
    <3> QED BY <2>1, <3>1 DEF PlacerAdmits, Admits
  <2>7. r.wager = page.wager /\ r.call = c.id /\ r \in [wager : Nat, call : Nat] BY <2>2
  <2>8. failed' = failed \cup {r} BY <1>5
  <2> HIDE DEF r
  <2>9. RefusalsAreTrue(failed', calls', wagers, minted')
    BY <2>2, <2>3, <2>4, <2>5, <2>6, <2>7, <2>8 DEF RefusalsAreTrue
  <2>10. failed' \subseteq [wager : Nat, call : Nat] BY <1>1, <2>7, <2>8
  <2> QED BY <1>1, <1>5, <2>1, <2>2, <2>9, <2>10, FreshPage
<1>6. \/ Heard(c, "ok") /\ slip' = NoLeg /\ page' = Gone /\ UNCHANGED <<minted, failed>>
      \/ /\ Heard(c, "stale") /\ page' = [page EXCEPT !.tag = "recovering", !.call = 0]
         /\ UNCHANGED <<slip, minted, failed>>
      \/ /\ Heard(c, "terminal") /\ page' = Fresh(page.leg) /\ MintTicket /\ slip' = slip
         /\ failed' = failed \cup {[wager |-> page.wager, call |-> c.id]}
      \/ /\ Heard(c, "retryable") /\ page' = [page EXCEPT !.tag = "unknown", !.call = 0]
         /\ UNCHANGED <<slip, minted, failed>>
  BY DEF PlacementHeard
<1> QED BY <1>3, <1>4, <1>5, <1>6

-----------------------------------------------------------------------------
(* What the page sends *)

\* The page p waits for a quote of its ticket, or for its placement.
Sends(p, st) ==
  /\ p \in PageRow /\ p.wager = page.wager /\ p.ticket = page.ticket /\ p.key = page.key
  /\ p.leg = page.leg /\ p.seen = page.seen /\ p.mutation = page.mutation
  /\ p.call = minted.call + 1
  /\ \/ st = "replay" /\ page.tag = "editing" /\ p.tag = "quoting" /\ page.leg # NoLeg
     \/ /\ st = "probe" /\ page.tag \in {"reviewing", "submitting", "unknown"}
        /\ p.tag = "submitting" /\ p.back # "editing"

LEMMA SendKeeps ==
  ASSUME Inv, NEW cs \in SUBSET calls, NEW st, calls' = cs \cup {Call(page, st)},
         OnlyPage, slip' = slip, failed' = failed,
         minted' = [minted EXCEPT !.call = minted.call + 1], Sends(page', st)
  PROVE  Inv'
<1> DEFINE d == Call(page, st)
           p == page'
<1>1. /\ market' = market /\ offer' = offer /\ open' = open /\ pool' = pool
      /\ quotes' = quotes /\ wagers' = wagers
  BY DEF OnlyPage, server
<1>2. /\ minted \in [ticket : 0..MaxTickets, key : 0..MaxKeys, call : Nat, turn : Nat]
      /\ minted' \in [ticket : 0..MaxTickets, key : 0..MaxKeys, call : Nat, turn : Nat]
      /\ minted'.ticket = minted.ticket /\ minted'.key = minted.key
      /\ minted'.call = minted.call + 1
  BY DEF Inv, WorldTypes
<1>3. /\ minted \in MintedRow /\ minted' \in MintedRow /\ MintedGrows(minted, minted')
      /\ offer.version \in Nat /\ offer.version \in 1..offer.version
  <2>1. minted' \in MintedRow BY <1>2, PlacementAssumption DEF MintedRow
  <2>2. offer.version \in 1..MaxOffers /\ offer.version \in Nat
    BY Counters, PlacementAssumption DEF Inv, WorldTypes
  <2> QED BY <1>2, <2>1, <2>2, Counters, PageFacts DEF MintedGrows
<1>4. PageIsSound(page, quotes, minted) /\ PageWaits(page, calls) /\ page.tag # "gone"
  BY DEF Inv, Sends
<1>5. st \in {"replay", "probe"} /\ page.leg \in Leg
  <2>1. CASE st = "replay" BY <2>1, PageFacts DEF Sends
  <2>2. CASE st = "probe"
    <3>1. IsQuoted(page, quotes) BY <1>4, <2>2 DEF Sends, PageIsSound
    <3>2. quotes[page.key] \in QuoteRow BY <3>1 DEF IsQuoted, Inv, TablesAreSound
    <3> QED BY <2>2, <3>1, <3>2 DEF IsQuoted, Row, QuoteRow
  <2> QED BY <2>1, <2>2 DEF Sends
<1>6. /\ d.id = minted.call + 1 /\ d.wager = page.wager /\ d.ticket = page.ticket
      /\ d.key = page.key /\ d.leg = page.leg /\ d.seen = page.seen
      /\ d.mutation = page.mutation /\ d.stage = st /\ d.live = NoLeg /\ d.left = 0
      /\ d.from = offer.version
      /\ d.placed = (page.wager \in DOMAIN wagers /\ wagers[page.wager].mutation = page.mutation)
  BY DEF Call
<1>7. d \in CallRow
  <2>1. minted.call + 1 \in Nat /\ page.ticket \in Nat BY PageFacts
  <2>2. (page.wager \in DOMAIN wagers /\ wagers[page.wager].mutation = page.mutation) \in BOOLEAN
    OBVIOUS
  <2>3. 0 \in 0..Replays BY PlacementAssumption
  <2> QED BY <1>3, <1>5, <2>1, <2>2, <2>3, PageFacts DEF Call, CallRow, Stages
<1> HIDE DEF d, p
<1>8. CallIsSound(d, offer, quotes, minted')
  <2>1. Minted(d, minted') BY <1>2, <1>4, <1>6 DEF PageIsSound, Minted
  <2>2. Asked(d, quotes) BY <1>4, <1>6 DEF PageIsSound, Asked
  <2>3. d.wager >= 1 /\ d.key >= 1 BY <1>4, <1>6 DEF PageIsSound
  <2>4. d.id \in 1..minted'.call /\ d.from \in 1..offer.version BY <1>2, <1>3, <1>6, PageFacts
  <2>5. /\ st = "replay" => page.mutation = 0
        /\ st = "probe" => page.mutation # 0
    BY <1>4 DEF Sends, PageIsSound
  <2> QED BY <1>5, <1>6, <1>7, <2>1, <2>2, <2>3, <2>4, <2>5
      DEF CallIsSound, QuoteStages, PlacementStages
<1>9. ReplaysFind(d, wagers)
  <2>1. \A v \in DOMAIN wagers : wagers[v].mutation # 0 BY DEF Inv, TablesAreSound
  <2>2. st = "replay" => page.mutation = 0 BY <1>4 DEF Sends, PageIsSound
  <2> QED BY <1>5, <1>6, <2>1, <2>2 DEF ReplaysFind
<1>10. PlacerAdmits(d, wagers)
  <2>1. \A v \in DOMAIN wagers : wagers[v].call \in Nat /\ wagers[v].call <= minted.call
    BY DEF Inv, TablesAreSound, WagerRow
  <2> QED BY <1>6, <2>1, PageFacts DEF PlacerAdmits
<1>11. ASSUME NEW e \in calls
       PROVE  CallIsSound(e, offer, quotes, minted') /\ e.id # d.id /\ Same(d, e) /\ Same(e, d)
  <2>1. CallIsSound(e, offer, quotes, minted) BY DEF Inv, CallsAreSound
  <2>2. GrowsFor(e, quotes, quotes) BY <2>1 DEF GrowsFor, QuotesGrow, CallIsSound
  <2>3. OfferGrows(offer, offer) BY <1>3 DEF OfferGrows
  <2>4. CallIsSound(e, offer, quotes, minted') BY <1>3, <2>1, <2>2, <2>3, CallStays DEF MintedRow
  <2>5. e.id # d.id BY <1>6, PageFacts
  <2>6. Same(d, e) /\ Same(e, d) BY <1>4, <1>6 DEF PageWaits, Same
  <2> QED BY <2>4, <2>5, <2>6
<1>12. calls' = cs \cup {d} BY DEF d
<1>13. WorldTypes' BY <1>1, <1>2 DEF Inv, WorldTypes
<1>14. CallsAreSound(calls', offer', quotes', wagers', minted')
  BY <1>1, <1>8, <1>9, <1>10, <1>11, <1>12 DEF Inv, CallsAreSound
<1>15. CallsAreApart(calls')
  <2>1. \A e, f \in cs : (e.id = f.id => e = f) /\ Same(e, f) BY DEF Inv, CallsAreApart
  <2>2. Same(d, d) BY DEF Same
  <2> QED BY <1>11, <1>12, <2>1, <2>2 DEF CallsAreApart
<1>16. /\ p \in PageRow /\ p.wager = page.wager /\ p.ticket = page.ticket /\ p.key = page.key
       /\ p.leg = page.leg /\ p.seen = page.seen /\ p.mutation = page.mutation
       /\ p.call = minted.call + 1
       /\ p.tag = "quoting" \/ (p.tag = "submitting" /\ p.back # "editing")
       /\ p.tag = "quoting" => page.mutation = 0
       /\ p.tag = "submitting" => page.mutation # 0
  BY <1>4 DEF Sends, PageIsSound, p
<1>17. PageIsSound(p, quotes, minted')
  <2>1. Asked(p, quotes) /\ Minted(p, minted') BY <1>2, <1>4, <1>16 DEF PageIsSound, Asked, Minted
  <2>2. Row(p) = Row(page) BY <1>16 DEF Row
  <2>3. p.mutation # 0 => IsQuoted(p, quotes) BY <1>4, <1>16, <2>2 DEF PageIsSound, IsQuoted
  <2>4. p.wager >= 1 /\ p.key >= 1 BY <1>4, <1>16 DEF PageIsSound
  <2> QED BY <1>16, <2>1, <2>3, <2>4 DEF PageIsSound
<1>18. PageWaits(p, calls')
  <2>1. \A e \in cs : Same(p, e) /\ e.id # p.call
    BY <1>4, <1>11, <1>6, <1>16 DEF PageWaits, Same
  <2>2. Same(p, d) /\ d.id = p.call BY <1>6, <1>16 DEF Same
  <2> QED BY <1>6, <1>12, <1>16, <2>1, <2>2 DEF PageWaits
<1>19. page' = p BY DEF p
<1>20. TablesAreSound(quotes', wagers', minted')
  <2>1. TablesAreSound(quotes, wagers, minted) BY DEF Inv
  <2>2. \A v \in DOMAIN wagers : wagers[v].call \in Nat BY <2>1 DEF TablesAreSound, WagerRow
  <2> QED BY <1>1, <1>2, <2>1, <2>2, PageFacts DEF TablesAreSound
<1>21. RefusalsAreTrue(failed', calls', wagers', minted')
  <2>1. RefusalsAreTrue(failed, calls, wagers, minted) /\ \A f \in failed : f.call \in Nat
    BY DEF Inv
  <2>2. \A f \in failed : f.call <= minted'.call /\ d.id # f.call
    BY <1>2, <1>6, <2>1, PageFacts DEF RefusalsAreTrue
  <2> QED BY <1>1, <1>12, <2>1, <2>2 DEF RefusalsAreTrue
<1>22. slip' \in Leg \cup {NoLeg} /\ failed' \subseteq [wager : Nat, call : Nat] BY DEF Inv
<1> QED BY <1>1, <1>13, <1>14, <1>15, <1>17, <1>18, <1>19, <1>20, <1>21, <1>22 DEF Inv

LEMMA ReviewStep ==
  ASSUME Inv, Review
  PROVE  Inv'
<1>1. /\ OnlyPage /\ slip' = slip /\ failed' = failed /\ page.tag = "editing" /\ page.leg # NoLeg
      /\ calls' = calls \cup {Call(page, "replay")} /\ page' = Waits(page, "quoting")
      /\ minted' = [minted EXCEPT !.call = minted.call + 1]
  BY DEF Review, OnlyPage
<1>2. page \in PageRow /\ minted.call + 1 \in Nat BY PageFacts
<1>3. Sends(Waits(page, "quoting"), "replay") BY <1>1, <1>2 DEF Sends, Waits, PageRow, PageTags
<1> QED BY <1>1, <1>3, SendKeeps

LEMMA PlaceButtonStep ==
  ASSUME Inv, Place
  PROVE  Inv'
<1> DEFINE p == [page EXCEPT !.tag = "submitting", !.call = minted.call + 1,
                             !.tries = Replays, !.back = page.tag]
<1>1. /\ OnlyPage /\ slip' = slip /\ failed' = failed /\ page.tag \in {"reviewing", "unknown"}
      /\ calls' = calls \cup {Call(page, "probe")}
      /\ minted' = [minted EXCEPT !.call = minted.call + 1]
      /\ page' = p
  BY DEF Place, OnlyPage, Waits
<1>2. page \in PageRow /\ minted.call + 1 \in Nat /\ Replays \in 0..Replays
  BY PageFacts, PlacementAssumption
<1>3. Sends(p, "probe") BY <1>1, <1>2 DEF Sends, PageRow, PageTags
<1> HIDE DEF p
<1> QED BY <1>1, <1>3, SendKeeps

LEMMA RetryStep ==
  ASSUME Inv, NEW c \in calls, retryWagerPlacement(c)
  PROVE  Inv'
<1> DEFINE p == [page EXCEPT !.tag = "submitting", !.call = minted.call + 1,
                             !.tries = page.tries - 1]
<1>1. /\ OnlyPage /\ slip' = slip /\ failed' = failed /\ page.tag = "submitting"
      /\ minted' = [minted EXCEPT !.call = minted.call + 1] /\ page.tries > 0
      /\ page' = p
  BY DEF retryWagerPlacement, OnlyPage, Waits
<1>2. page \in PageRow /\ minted.call + 1 \in Nat /\ page.tries - 1 \in 0..Replays
  <2>1. page \in PageRow BY PageFacts
  <2>2. page.tries \in 0..Replays BY <2>1 DEF PageRow
  <2> QED BY <1>1, <2>1, <2>2, PageFacts, PlacementAssumption
<1>3. page.back # "editing" BY <1>1 DEF Inv, PageIsSound
<1>4. Sends(p, "probe") BY <1>1, <1>2, <1>3 DEF Sends, PageRow, PageTags
<1> HIDE DEF p
<1>5. \E cs \in SUBSET calls : calls' = cs \cup {Call(page, "probe")}
  BY DEF retryWagerPlacement
<1> QED BY <1>1, <1>4, <1>5, SendKeeps

LEMMA ReplayUnheardStep ==
  ASSUME Inv, NEW c \in calls, ReplayUnheard(c)
  PROVE  Inv'
<1> DEFINE m == c.left - 1
           d == [Call(c, "probe") EXCEPT !.left = m]
           z == [c EXCEPT !.left = 0]
           T == {d} \cup IF c.stage = "answered" THEN {} ELSE {z}
<1>1. /\ OnlyPage /\ failed' = failed /\ page' = page /\ slip' = slip /\ c.left > 0
      /\ minted' = [minted EXCEPT !.call = minted.call + 1] /\ calls' = (calls \ {c}) \cup T
  BY DEF ReplayUnheard, OnlyPage
<1>2. CallIsSound(c, offer, quotes, minted) /\ c \in CallRow BY DEF Inv, CallsAreSound, CallIsSound
<1>3. m \in 0..Replays /\ 0 \in 0..Replays /\ c.mutation # 0
  BY <1>1, <1>2, PlacementAssumption DEF CallIsSound, CallRow
<1>4. /\ minted \in [ticket : 0..MaxTickets, key : 0..MaxKeys, call : Nat, turn : Nat]
      /\ minted' \in [ticket : 0..MaxTickets, key : 0..MaxKeys, call : Nat, turn : Nat]
      /\ minted'.ticket = minted.ticket /\ minted'.key = minted.key
      /\ minted'.call = minted.call + 1 /\ minted.call \in Nat
  BY <1>1 DEF Inv, WorldTypes
<1>5. MintsOn BY <1>4, PlacementAssumption, Counters DEF MintsOn, MintedGrows, MintedRow
<1>6. offer.version \in Nat /\ offer.version \in 1..offer.version
  BY Counters, PlacementAssumption DEF Inv, WorldTypes
<1> DEFINE found == c.wager \in DOMAIN wagers /\ wagers[c.wager].mutation = c.mutation
<1> HIDE DEF m
<1>7. /\ d = [id |-> minted.call + 1, wager |-> c.wager, ticket |-> c.ticket, key |-> c.key,
              leg |-> c.leg, seen |-> c.seen, mutation |-> c.mutation, stage |-> "probe",
              answer |-> "none", live |-> NoLeg, left |-> m, from |-> offer.version,
              placed |-> found]
  BY DEF Call
<1>8. found \in BOOLEAN OBVIOUS
<1> HIDE DEF found, d
<1>9. /\ d \in CallRow /\ d.id = minted.call + 1 /\ d.wager = c.wager /\ d.ticket = c.ticket
      /\ d.key = c.key /\ d.leg = c.leg /\ d.mutation = c.mutation /\ d.stage = "probe"
      /\ d.live = NoLeg /\ d.from = offer.version /\ d.placed = found
  BY <1>2, <1>3, <1>4, <1>6, <1>7, <1>8 DEF CallRow, Stages
<1>10. CallIsSound(d, offer, quotes, minted')
  <2>1. Minted(d, minted') /\ Asked(d, quotes) /\ d.wager >= 1 /\ d.key >= 1
    BY <1>2, <1>4, <1>9 DEF CallIsSound, Minted, Asked
  <2>2. d.id \in 1..minted'.call BY <1>4, <1>9
  <2> QED BY <1>3, <1>6, <1>9, <2>1, <2>2 DEF CallIsSound, QuoteStages, PlacementStages
<1>11. ReplaysFind(d, wagers) BY <1>3, <1>9 DEF ReplaysFind, found
<1>12. PlacerAdmits(d, wagers)
  <2>1. \A v \in DOMAIN wagers : wagers[v].call \in Nat /\ wagers[v].call <= minted.call
    BY DEF Inv, TablesAreSound, WagerRow
  <2> QED BY <1>4, <1>9, <2>1 DEF PlacerAdmits
<1>13. /\ CallIsSound(z, offer, quotes, minted) /\ ReplaysFind(z, wagers)
       /\ PlacerAdmits(z, wagers) /\ z.key = c.key /\ z.wager = c.wager /\ z.leg = c.leg
       /\ z.id = c.id
  BY <1>3, OthersMayFollow
<1> HIDE DEF z
<1>14. CallIsSound(z, offer, quotes, minted')
  <2>1. minted \in MintedRow /\ minted' \in MintedRow /\ MintedGrows(minted, minted')
    BY <1>5, Counters, PlacementAssumption DEF MintsOn, MintedRow
  <2>2. GrowsFor(z, quotes, quotes) BY <1>13 DEF GrowsFor, QuotesGrow, CallIsSound
  <2>3. OfferGrows(offer, offer) BY <1>6 DEF OfferGrows
  <2> QED BY <1>6, <1>13, <2>1, <2>2, <2>3, CallStays DEF MintedRow
<1>15. c.id # minted.call + 1 /\ page.call # c.id
  <2>1. page.call # c.id BY <1>1, <1>3 DEF Inv, PageWaits
  <2> QED BY <2>1, PageFacts
<1>16. \A t \in T : t = d \/ t = z OBVIOUS
<1> HIDE DEF T
<1> QED BY <1>1, <1>5, <1>9, <1>10, <1>11, <1>12, <1>13, <1>14, <1>15, <1>16, RenewedCalls

LEMMA PageStep ==
  ASSUME Inv, Page
  PROVE  Inv'
<1>1. CASE BuildSlip BY <1>1, BuildSlipStep
<1>2. CASE OpenBuilder BY <1>2, OpenBuilderStep
<1>3. CASE LeavePage BY <1>3, LeavePageStep
<1>4. CASE EditTerms BY <1>4, EditTermsStep
<1>5. CASE Review BY <1>5, ReviewStep
<1>6. CASE Place BY <1>6, PlaceButtonStep
<1>7. CASE Recover BY <1>7, RecoverStep
<1>8. CASE \E c \in calls : QuoteHeard(c) \/ PlacementHeard(c) \/ retryWagerPlacement(c)
                             \/ ReplayUnheard(c)
  BY <1>8, QuoteHeardStep, PlacementHeardStep, RetryStep, ReplayUnheardStep
<1> QED BY <1>1, <1>2, <1>3, <1>4, <1>5, <1>6, <1>7, <1>8 DEF Page

LEMMA WorkerStep ==
  ASSUME Inv, NEW c \in calls, Worker(c)
  PROVE  Inv'
<1>1. CASE \/ ReplayWagerQuote(c) \/ canonicalizeWagerQuote(c) \/ RefreshForQuote(c)
           \/ ReadPoolView(c) \/ QuoteWager(c)
  BY <1>1, ReplayQuoteStep, CanonicalizeStep, RefreshQuoteStep, ViewStep, QuoteStep
<1>2. CASE \/ ProbePlacementReplay(c) \/ RefreshPlacementOdds(c) \/ RevalidateWagerOffers(c)
           \/ PlaceWager(c) \/ Unreachable(c)
  BY <1>2, ProbeStep, LiveStep, RevalidateStep, PlaceStep, UnreachableStep
<1> QED BY <1>1, <1>2 DEF Worker

LEMMA IdleStep ==
  ASSUME Inv, UNCHANGED vars
  PROVE  Inv'
<1>1. /\ market' = market /\ offer' = offer /\ open' = open /\ pool' = pool
      /\ quotes' = quotes /\ wagers' = wagers /\ slip' = slip /\ page' = page
      /\ calls' = calls /\ minted' = minted /\ failed' = failed
  BY DEF vars, server
<1> QED BY <1>1 DEF Inv, WorldTypes

LEMMA InitInv ==
  ASSUME Init
  PROVE  Inv
<1>1. /\ market \in [terms : Terms, started : BOOLEAN]
      /\ offer = [lines |-> <<market.terms>>, version |-> 1, fresh |-> TRUE, covered |-> TRUE]
      /\ open = TRUE /\ pool = [version |-> 1, admits |-> TRUE]
      /\ quotes = <<>> /\ wagers = <<>> /\ slip = NoLeg /\ page = Gone /\ calls = {}
      /\ minted = [ticket |-> 0, key |-> 0, call |-> 0, turn |-> 0] /\ failed = {}
  BY DEF Init
<1>2. offer \in [lines : Seq(Terms), version : 1..MaxOffers, fresh : BOOLEAN, covered : BOOLEAN]
  <2>1. 1 \in 1..MaxOffers BY PlacementAssumption
  <2>2. <<market.terms>> \in Seq(Terms) BY <1>1
  <2> QED BY <1>1, <2>1, <2>2
<1>3. Len(offer.lines) = offer.version BY <1>1
<1>4. minted \in [ticket : 0..MaxTickets, key : 0..MaxKeys, call : Nat, turn : Nat]
  <2>1. 0 \in 0..MaxTickets /\ 0 \in 0..MaxKeys BY PlacementAssumption
  <2> QED BY <1>1, <2>1
<1>5. WorldTypes BY <1>1, <1>2, <1>3, <1>4 DEF WorldTypes
<1>6. DOMAIN quotes = {} /\ DOMAIN wagers = {} BY <1>1
<1>7. PageIsSound(page, quotes, minted)
  <2>1. /\ Gone.tag = "gone" /\ Gone.wager = 0 /\ Gone.ticket = 0 /\ Gone.key = 0
        /\ Gone.mutation = 0 /\ Gone.call = 0
    BY DEF Gone
  <2> QED BY <1>1, <1>6, <2>1, GoneIsRow DEF PageIsSound, Minted, Asked
<1>8. PageWaits(page, calls) BY <1>1 DEF PageWaits, Gone
<1>9. TablesAreSound(quotes, wagers, minted)
  <2>1. quotes \in [DOMAIN quotes -> QuoteRow] /\ wagers \in [DOMAIN wagers -> WagerRow]
    BY <1>1, <1>6
  <2> QED BY <1>6, <2>1 DEF TablesAreSound
<1>10. CallsAreSound(calls, offer, quotes, wagers, minted) /\ CallsAreApart(calls)
  BY <1>1 DEF CallsAreSound, CallsAreApart
<1>11. RefusalsAreTrue(failed, calls, wagers, minted) BY <1>1 DEF RefusalsAreTrue
<1> QED BY <1>1, <1>5, <1>7, <1>8, <1>9, <1>10, <1>11 DEF Inv

LEMMA NextInv ==
  Inv /\ [Next]_vars => Inv'
<1> SUFFICES ASSUME Inv, [Next]_vars PROVE Inv'
  OBVIOUS
<1> QED BY WorldStep, PageStep, WorkerStep, IdleStep DEF Next

-----------------------------------------------------------------------------
(* What the invariant gives *)

LEMMA InvTypes ==
  ASSUME Inv
  PROVE  TypeOK
<1>1. WorldTypes /\ slip \in Leg \cup {NoLeg} BY DEF Inv
<1>2. TablesAreSound(quotes, wagers, minted) BY DEF Inv
<1>3. page \in PageRow BY PageFacts
<1>4. page.call \in {0} \cup {c.id : c \in calls}
  <2>1. page.call # 0 => \E c \in calls : c.id = page.call BY DEF Inv, PageWaits
  <2> QED BY <2>1
<1>5. \A c \in calls : /\ c.stage \in Stages /\ c.leg \in Leg /\ c.live \in Terms \cup {NoLeg}
                      /\ c.left \in 0..Replays
  BY Counters DEF CallRow
<1>6. \A k \in DOMAIN quotes : quotes[k] \in [wager : 1..MaxTickets, leg : Leg, seen : Nat]
  BY <1>2 DEF TablesAreSound, QuoteRow
<1>7. /\ page.leg \in Leg \cup {NoLeg} /\ page.tag \in PageTags /\ page.tries \in 0..Replays
  BY <1>3 DEF PageRow
<1>8. /\ market \in [terms : Terms, started : BOOLEAN]
      /\ offer.version \in 1..MaxOffers /\ Len(offer.lines) = offer.version
      /\ offer.fresh \in BOOLEAN /\ offer.covered \in BOOLEAN /\ open \in BOOLEAN
      /\ pool.version \in Nat \ {0} /\ pool.admits \in BOOLEAN
  BY <1>1 DEF WorldTypes
<1> QED BY <1>1, <1>2, <1>4, <1>5, <1>6, <1>7, <1>8 DEF TypeOK, TablesAreSound, PageTags

LEMMA InvTicket ==
  ASSUME Inv
  PROVE  TicketIsOne
<1>1. OneWagerPerTicket BY DEF Inv, TablesAreSound, OneWagerPerTicket
<1>2. ReviewIsStored
  <2>1. PageIsSound(page, quotes, minted) BY DEF Inv
  <2> QED BY <2>1 DEF PageIsSound, IsQuoted, Row, ReviewIsStored
<1>3. KeyNamesRequest
  <2>1. \A c \in calls : Asked(c, quotes) BY CallFacts
  <2> QED BY <2>1 DEF Asked, KeyNamesRequest
<1> QED BY <1>1, <1>2, <1>3 DEF TicketIsOne

LEMMA InvAnswers ==
  ASSUME Inv
  PROVE  AnswersAreTrue
<1>1. ReplayFindsPlacement
  BY DEF Inv, CallsAreSound, ReplaysFind, Admits, ReplayFindsPlacement
<1>2. RefusedIsNotPlaced BY DEF Inv, RefusalsAreTrue, RefusedIsNotPlaced
<1> QED BY <1>1, <1>2 DEF AnswersAreTrue

\* What a wager that appears was placed under.
WasOffered(w) ==
  /\ open /\ ~market.started /\ pool.admits
  /\ \E c \in calls : /\ c.id = wagers'[w].call
                      /\ \E v \in c.from..offer.version : offer.lines[v] = wagers'[w].leg.terms
                      /\ c.live \in {NoLeg, wagers'[w].leg.terms}

LEMMA OnlyPlacing ==
  ASSUME [Next]_vars, wagers' # wagers
  PROVE  \E c \in calls : PlaceWager(c)
<1>1. CASE World
  BY <1>1 DEF World, LineMoves, Kickoff, Poll, PollFails, OfferAges, WindowTurns, PoolMoves, server
<1>2. CASE Page
  <2>1. CASE BuildSlip \/ OpenBuilder \/ LeavePage \/ EditTerms BY <2>1
          DEF BuildSlip, OpenBuilder, LeavePage, EditTerms, server
  <2>2. CASE Review \/ Place BY <2>2 DEF Review, Place, server
  <2>3. CASE Recover BY <2>3 DEF Recover, server
  <2>4. ASSUME NEW c \in calls PROVE ~QuoteHeard(c) BY DEF QuoteHeard, server
  <2>5. ASSUME NEW c \in calls PROVE ~PlacementHeard(c) BY DEF PlacementHeard, server
  <2>6. ASSUME NEW c \in calls PROVE ~retryWagerPlacement(c) /\ ~ReplayUnheard(c)
    BY DEF retryWagerPlacement, ReplayUnheard, server
  <2> QED BY <1>2, <2>1, <2>2, <2>3, <2>4, <2>5, <2>6 DEF Page
<1>3. ASSUME NEW c \in calls, Worker(c) PROVE PlaceWager(c)
  BY <1>3 DEF Worker, ReplayWagerQuote, canonicalizeWagerQuote, RefreshForQuote, ReadPoolView,
              QuoteWager, ProbePlacementReplay, RefreshPlacementOdds, RevalidateWagerOffers,
              Unreachable, server
<1>4. CASE UNCHANGED vars BY <1>4 DEF vars, server
<1> QED BY <1>1, <1>2, <1>3, <1>4 DEF Next

LEMMA PlacedIsOffered ==
  ASSUME Inv, [Next]_vars, NEW w \in DOMAIN wagers' \ DOMAIN wagers
  PROVE  WasOffered(w)
<1>1. wagers' # wagers OBVIOUS
<1>2. PICK c \in calls : PlaceWager(c) BY <1>1, OnlyPlacing
<1>3. /\ c.stage = "dispatch" /\ ~Processed(c) /\ Refusal(c) = "ok"
      /\ wagers' = WithWager(c)
  BY <1>1, <1>2 DEF PlaceWager
<1>4. c.wager \notin DOMAIN wagers /\ open /\ pool.admits /\ ~market.started
  BY <1>3, Accepted
<1>5. c.mutation # 0 BY <1>3, CallFacts DEF PlacementStages
<1>6. Inserts(c) BY <1>3, <1>4, <1>5 DEF Inserts
<1>7. wagers'[w].call = c.id /\ wagers'[w].leg = c.leg BY <1>6, InsertedGrows
<1>8. CallIsSound(c, offer, quotes, minted) BY DEF Inv, CallsAreSound
<1>9. Carried(c, offer) /\ c.live \in {NoLeg, c.leg.terms} BY <1>3, <1>8 DEF CallIsSound
<1> QED BY <1>4, <1>7, <1>9 DEF WasOffered, Carried

-----------------------------------------------------------------------------
(* The theorems *)

\* The page, the calls at work and the object's tables keep the invariant above in
\* every reachable state, whatever number of tickets, calls and polls there are.
THEOREM PlacementInvariant == Spec => []Inv
<1>1. Init => Inv BY InitInv
<1> QED BY <1>1, NextInv, PTL DEF Spec

\* The browser and the service range over the states the code gives them.
THEOREM TypeCorrect == Spec => []TypeOK
BY PlacementInvariant, InvTypes, PTL

\* A ticket is placed at most once, a page that offers to place holds the quote the
\* object stored, and a quote key never stands for two requests.
THEOREM TicketStaysOne == Spec => []TicketIsOne
BY PlacementInvariant, InvTicket, PTL

\* A repeated placement finds the wager that the first one made, and a placement
\* that the page reports as refused did not place.
THEOREM AnswersStayTrue == Spec => []AnswersAreTrue
BY PlacementInvariant, InvAnswers, PTL

\* A wager is inserted only while betting is open, before kickoff, within the account,
\* and at a line that the offer carried during the call and no fetched line refuted.
THEOREM PlacementsAreOffered == Spec => PlacedAsOffered
<1>1. Inv /\ [Next]_vars =>
        [\A w \in DOMAIN wagers' \ DOMAIN wagers :
           /\ open /\ ~market.started /\ pool.admits
           /\ \E c \in calls : /\ c.id = wagers'[w].call
                               /\ \E v \in c.from..offer.version :
                                    offer.lines[v] = wagers'[w].leg.terms
                               /\ c.live \in {NoLeg, wagers'[w].leg.terms}]_vars
  BY PlacedIsOffered DEF WasOffered
<1> QED BY <1>1, PlacementInvariant, PTL DEF Spec, PlacedAsOffered

-----------------------------------------------------------------------------
(* WagerRules: fractions *)

LEMMA LeastNatural ==
  ASSUME NEW S \in SUBSET Nat, S # {}
  PROVE  \E t \in S : \A u \in S : t <= u
<1>1. IsWellFoundedOn(OpToRel(<, Nat), Nat) BY NatLessThanWellFounded
<1>2. PICK t \in S : \A u \in S : ~ (<<u, t>> \in OpToRel(<, Nat)) BY <1>1, WFMin
<1>3. ASSUME NEW u \in S PROVE t <= u
  <2>1. t \in Nat /\ u \in Nat OBVIOUS
  <2>2. ~ (u < t) BY <1>2, <2>1 DEF OpToRel
  <2> QED BY <2>1, <2>2
<1> QED BY <1>3

\* Euclid's equation, and where a function satisfies it.
Euclid(g, a, b)  == IF b = 0 THEN a ELSE g[<<b, a % b>>]
EuclidTo(g, n)   == \A a \in Nat, b \in 0..n : g[<<a, b>>] = Euclid(g, a, b)
EuclidOf(g)      == [p \in Nat \X Nat |-> Euclid(g, p[1], p[2])]
Reaches(n)       == \E g : g = [p \in Nat \X Nat |-> g[p]] /\ EuclidTo(g, n)

LEMMA ModuloIsLess ==
  ASSUME NEW a \in Nat, NEW b \in Nat, b # 0
  PROVE  a % b \in Nat /\ a % b < b
OBVIOUS

LEMMA EuclidReaches ==
  ASSUME NEW n \in Nat
  PROVE  Reaches(n)
<1> DEFINE bad == {m \in Nat : ~Reaches(m)}
<1>1. SUFFICES ASSUME bad # {} PROVE FALSE OBVIOUS
<1>2. PICK m \in bad : \A u \in bad : m <= u
  <2>1. bad \in SUBSET Nat OBVIOUS
  <2> HIDE DEF bad
  <2> QED BY <1>1, <2>1, LeastNatural
<1>3. m \in Nat /\ ~Reaches(m) OBVIOUS
<1>4. CASE m = 0
  <2> DEFINE g == [p \in Nat \X Nat |-> p[1]]
  <2>1. g = [p \in Nat \X Nat |-> g[p]] OBVIOUS
  <2>2. EuclidTo(g, m)
    <3>1. SUFFICES ASSUME NEW a \in Nat, NEW b \in 0..m PROVE g[<<a, b>>] = Euclid(g, a, b) BY DEF EuclidTo
    <3>2. b = 0 BY <1>4
    <3> QED BY <3>2 DEF Euclid
  <2> HIDE DEF g
  <2> QED BY <1>3, <2>1, <2>2 DEF Reaches
<1>5. CASE m # 0
  <2>1. m - 1 \in Nat /\ ~ (m <= m - 1) BY <1>3, <1>5
  <2>2. Reaches(m - 1) BY <1>2, <2>1
  <2>3. PICK g : EuclidTo(g, m - 1) BY <2>2 DEF Reaches
  <2> DEFINE h == EuclidOf(g)
  <2>4. \A a \in Nat, b \in Nat : h[<<a, b>>] = Euclid(g, a, b) BY DEF EuclidOf
  <2>5. h = [p \in Nat \X Nat |-> h[p]] BY DEF EuclidOf
  <2> HIDE DEF h
  <2>6. ASSUME NEW a \in Nat, NEW b \in 0..m PROVE h[<<a, b>>] = Euclid(h, a, b)
    <3>1. b \in Nat BY <1>3
    <3>2. CASE b = 0 BY <2>4, <3>1, <3>2 DEF Euclid
    <3>3. CASE b # 0
      <4>1. a % b \in Nat /\ a % b < b BY <3>1, <3>3, ModuloIsLess
      <4>2. a % b \in 0..(m - 1) BY <1>3, <4>1, <3>1
      <4>3. g[<<b, a % b>>] = Euclid(g, b, a % b) BY <2>3, <3>1, <4>2 DEF EuclidTo
      <4>4. h[<<b, a % b>>] = Euclid(g, b, a % b) BY <2>4, <3>1, <4>1
      <4>5. h[<<a, b>>] = g[<<b, a % b>>] BY <2>4, <3>1, <3>3 DEF Euclid
      <4> QED BY <3>3, <4>3, <4>4, <4>5 DEF Euclid
    <3> QED BY <3>2, <3>3
  <2> QED BY <1>3, <2>5, <2>6 DEF Reaches, EuclidTo
<1> QED BY <1>4, <1>5

LEMMA EuclidIsUnique ==
  ASSUME NEW n \in Nat, NEW m \in Nat, NEW g, NEW h, EuclidTo(g, n), EuclidTo(h, m)
  PROVE  \A b \in Nat : b <= n /\ b <= m => \A a \in Nat : g[<<a, b>>] = h[<<a, b>>]
<1> DEFINE bad == {b \in Nat : b <= n /\ b <= m /\ ~ \A a \in Nat : g[<<a, b>>] = h[<<a, b>>]}
<1>1. SUFFICES ASSUME bad # {} PROVE FALSE OBVIOUS
<1>2. PICK b \in bad : \A u \in bad : b <= u
  <2>1. bad \in SUBSET Nat OBVIOUS
  <2> HIDE DEF bad
  <2> QED BY <1>1, <2>1, LeastNatural
<1>3. b \in Nat /\ b <= n /\ b <= m OBVIOUS
<1>4. PICK a \in Nat : g[<<a, b>>] # h[<<a, b>>] OBVIOUS
<1>5. b \in 0..n /\ b \in 0..m BY <1>3
<1>6. g[<<a, b>>] = Euclid(g, a, b) /\ h[<<a, b>>] = Euclid(h, a, b) BY <1>5 DEF EuclidTo
<1>7. b # 0 BY <1>4, <1>6 DEF Euclid
<1>8. a % b \in Nat /\ a % b < b BY <1>3, <1>7, ModuloIsLess
<1>9. a % b <= n /\ a % b <= m /\ ~ (b <= a % b) BY <1>3, <1>8
<1>10. a % b \notin bad BY <1>2, <1>9
<1>11. g[<<b, a % b>>] = h[<<b, a % b>>] BY <1>3, <1>8, <1>9, <1>10
<1> QED BY <1>4, <1>6, <1>7, <1>11 DEF Euclid

LEMMA GcdIsEuclid == gcd = EuclidOf(gcd)
<1> DEFINE at(n) == CHOOSE g : g = [p \in Nat \X Nat |-> g[p]] /\ EuclidTo(g, n)
           all   == [p \in Nat \X Nat |-> at(p[2])[p]]
<1>1. ASSUME NEW n \in Nat PROVE EuclidTo(at(n), n)
  <2>1. \E g : g = [p \in Nat \X Nat |-> g[p]] /\ EuclidTo(g, n) BY EuclidReaches DEF Reaches
  <2> QED BY <2>1
<1>2. all = [p \in Nat \X Nat |-> all[p]] OBVIOUS
<1>3. \A a \in Nat, b \in Nat : all[<<a, b>>] = at(b)[<<a, b>>] OBVIOUS
<1> HIDE DEF at, all
<1>4. ASSUME NEW a \in Nat, NEW b \in Nat PROVE all[<<a, b>>] = Euclid(all, a, b)
  <2>1. EuclidTo(at(b), b) BY <1>1
  <2>2. at(b)[<<a, b>>] = Euclid(at(b), a, b)
    <3>1. b \in 0..b OBVIOUS
    <3> QED BY <2>1, <3>1 DEF EuclidTo
  <2>3. CASE b = 0 BY <1>3, <2>2, <2>3 DEF Euclid
  <2>4. CASE b # 0
    <3> DEFINE c == a % b
    <3>1. c \in Nat /\ c < b BY <2>4, ModuloIsLess
    <3>2. EuclidTo(at(c), c) BY <1>1, <3>1
    <3> HIDE DEF c
    <3>3. c <= b /\ c <= c BY <3>1
    <3>4. at(b)[<<b, c>>] = at(c)[<<b, c>>] BY <2>1, <3>1, <3>2, <3>3, EuclidIsUnique
    <3>5. all[<<b, c>>] = at(c)[<<b, c>>] BY <1>3, <3>1
    <3>6. at(b)[<<a, b>>] = at(b)[<<b, c>>] BY <2>2, <2>4 DEF Euclid, c
    <3>7. all[<<a, b>>] = all[<<b, c>>] BY <1>3, <3>4, <3>5, <3>6
    <3> QED BY <2>4, <3>7 DEF Euclid, c
  <2> QED BY <2>3, <2>4
<1>5. all = EuclidOf(all)
  <2>1. ASSUME NEW p \in Nat \X Nat PROVE all[p] = Euclid(all, p[1], p[2])
    <3>1. p[1] \in Nat /\ p[2] \in Nat /\ p = <<p[1], p[2]>> OBVIOUS
    <3> QED BY <1>4, <3>1
  <2> QED BY <1>2, <2>1 DEF EuclidOf
<1>6. gcd = CHOOSE g : g = [p \in Nat \X Nat |-> IF p[2] = 0 THEN p[1] ELSE g[<<p[2], p[1] % p[2]>>]]
  BY DEF gcd
<1>7. gcd = CHOOSE g : g = EuclidOf(g) BY <1>6 DEF EuclidOf, Euclid
<1> QED BY <1>5, <1>7

LEMMA TimesKeepsOrder ==
  ASSUME NEW a \in Int, NEW b \in Int, NEW c \in Int, c > 0
  PROVE  /\ c * a <= c * b <=> a <= b
         /\ c * a < c * b <=> a < b
         /\ c * a = c * b <=> a = b
<1>1. a <= b => c * a <= c * b OBVIOUS
<1>2. a < b => c * a < c * b OBVIOUS
<1>3. a < b \/ a = b \/ b < a OBVIOUS
<1>4. b < a => c * b < c * a OBVIOUS
<1>5. c * a \in Int /\ c * b \in Int OBVIOUS
<1> QED BY <1>1, <1>2, <1>3, <1>4, <1>5

LEMMA DividesWithRest ==
  ASSUME NEW a \in Int, NEW b \in Int, b > 0
  PROVE  a = b * (a \div b) + (a % b)
OBVIOUS

LEMMA QuotientIs ==
  ASSUME NEW a \in Nat, NEW b \in Nat, b # 0
  PROVE  a \div b \in Nat /\ a % b \in Nat /\ a % b < b /\ a = b * (a \div b) + (a % b)
<1>1. a % b \in Nat /\ a % b < b BY ModuloIsLess
<1>2. a \div b \in Nat
  <2> DEFINE q == a \div b
  <2>1. q \in Int /\ a < b * q + b OBVIOUS
  <2> HIDE DEF q
  <2>2. b * q + b = b * (q + 1) /\ b * 0 = 0 BY <2>1
  <2>3. b * 0 < b * (q + 1) BY <2>1, <2>2
  <2>4. 0 < q + 1
    <3>1. q + 1 \in Int /\ 0 \in Int /\ b \in Int /\ b > 0 BY <2>1
    <3> QED BY <2>3, <3>1, TimesKeepsOrder
  <2>5. q \in Nat BY <2>1, <2>4
  <2> QED BY <2>5 DEF q
<1>3. a = b * (a \div b) + (a % b)
  <2>1. a \in Int /\ b \in Int /\ b > 0 OBVIOUS
  <2> QED BY <2>1, DividesWithRest
<1> QED BY <1>1, <1>2, <1>3

Divides(g, a) == \E i \in Nat : a = g * i

LEMMA GcdDivides ==
  ASSUME NEW a \in Nat, NEW b \in Nat, a > 0 \/ b > 0
  PROVE  gcd[<<a, b>>] \in Nat /\ gcd[<<a, b>>] > 0 /\ Divides(gcd[<<a, b>>], a) /\ Divides(gcd[<<a, b>>], b)
<1> DEFINE Good(u, v) == LET g == gcd[<<u, v>>] IN g \in Nat /\ g > 0 /\ Divides(g, u) /\ Divides(g, v)
           bad == {v \in Nat : ~ \A u \in Nat : u > 0 \/ v > 0 => Good(u, v)}
<1>0. \A u \in Nat, v \in Nat : gcd[<<u, v>>] = IF v = 0 THEN u ELSE gcd[<<v, u % v>>]
  <2>1. \A p \in Nat \X Nat : EuclidOf(gcd)[p] = Euclid(gcd, p[1], p[2]) BY DEF EuclidOf
  <2>2. \A u \in Nat, v \in Nat : EuclidOf(gcd)[<<u, v>>] = Euclid(gcd, u, v) BY <2>1
  <2> QED BY <2>2, GcdIsEuclid DEF Euclid
<1>1. SUFFICES ASSUME bad # {} PROVE FALSE OBVIOUS
<1>2. PICK v \in bad : \A w \in bad : v <= w
  <2>1. bad \in SUBSET Nat OBVIOUS
  <2> HIDE DEF bad
  <2> QED BY <1>1, <2>1, LeastNatural
<1>3. v \in Nat OBVIOUS
<1>4. PICK u \in Nat : (u > 0 \/ v > 0) /\ ~Good(u, v) OBVIOUS
<1>5. CASE v = 0
  <2>1. gcd[<<u, v>>] = u BY <1>0, <1>3, <1>5
  <2>2. u = u * 1 /\ v = u * 0 BY <1>5
  <2>3. Divides(u, u) /\ Divides(u, v) BY <2>2 DEF Divides
  <2>4. u > 0 BY <1>4, <1>5
  <2> QED BY <1>4, <2>1, <2>3, <2>4
<1>6. CASE v # 0
  <2> DEFINE c == u % v
             q == u \div v
  <2>1. c \in Nat /\ c < v /\ q \in Nat /\ u = v * q + c BY <1>3, <1>6, QuotientIs
  <2> HIDE DEF c, q
  <2>2. ~ (v <= c) BY <1>3, <2>1
  <2>3. c \notin bad BY <1>2, <2>2
  <2>4. v > 0 BY <1>3, <1>6
  <2>5. Good(v, c) BY <1>3, <2>1, <2>3, <2>4
  <2> DEFINE g == gcd[<<v, c>>]
  <2>6. g \in Nat /\ g > 0 /\ Divides(g, v) /\ Divides(g, c) BY <2>5
  <2>7. gcd[<<u, v>>] = g BY <1>0, <1>3, <1>6 DEF c
  <2> HIDE DEF g
  <2>8. PICK i \in Nat : v = g * i BY <2>6 DEF Divides
  <2>9. PICK j \in Nat : c = g * j BY <2>6 DEF Divides
  <2>10. u = g * (i * q + j)
    <3>1. u = (g * i) * q + g * j BY <2>1, <2>8, <2>9
    <3>2. (g * i) * q = g * (i * q) BY <2>1, <2>6
    <3>3. i * q \in Nat BY <2>1
    <3>4. g * (i * q) + g * j = g * (i * q + j) BY <2>6, <3>3
    <3> QED BY <3>1, <3>2, <3>4
  <2>11. i * q + j \in Nat BY <2>1
  <2>12. Divides(g, u) BY <2>10, <2>11 DEF Divides
  <2> QED BY <1>4, <2>6, <2>7, <2>12
<1> QED BY <1>5, <1>6

Fraction == {x \in [n : Nat, d : Nat] : x.n > 0 /\ x.d > 0}

\* Reducing leaves the ratio.
LEMMA ReduceIs ==
  ASSUME NEW n \in Nat, NEW d \in Nat, n > 0, d > 0
  PROVE  /\ reduce(n, d) \in Fraction
         /\ \E g \in Nat : g > 0 /\ n = g * reduce(n, d).n /\ d = g * reduce(n, d).d
<1> DEFINE g == gcd[<<n, d>>]
<1>1. g \in Nat /\ g > 0 /\ Divides(g, n) /\ Divides(g, d) BY GcdDivides
<1>2. reduce(n, d) = [n |-> n \div g, d |-> d \div g] BY DEF reduce
<1> HIDE DEF g
<1>3. ASSUME NEW a \in Nat, a > 0, Divides(g, a) PROVE a \div g \in Nat /\ a \div g > 0 /\ a = g * (a \div g)
  <2>1. PICK i \in Nat : a = g * i BY <1>3 DEF Divides
  <2> DEFINE q == a \div g
             r == a % g
  <2>2. q \in Nat /\ r \in Nat /\ r < g /\ a = g * q + r BY <1>1, QuotientIs
  <2> HIDE DEF q, r
  <2>3. g * q <= g * i /\ g * i < g * q + g
    <3>1. g * q \in Nat /\ g * i \in Nat BY <1>1, <2>2
    <3> QED BY <1>1, <2>1, <2>2, <3>1
  <2>4. g * q + g = g * (q + 1) BY <1>1, <2>2
  <2>5. q <= i /\ i < q + 1
    <3>1. q \in Int /\ i \in Int /\ q + 1 \in Int /\ g \in Int BY <1>1, <2>2
    <3>2. g * i < g * (q + 1) BY <2>3, <2>4
    <3> QED BY <1>1, <2>3, <3>1, <3>2, TimesKeepsOrder
  <2>6. q = i BY <2>2, <2>5
  <2>7. q # 0
    <3>1. q = 0 => g * q = 0 BY <1>1
    <3>2. a # 0 BY <1>3
    <3> QED BY <2>1, <2>6, <3>1, <3>2
  <2>8. q > 0 BY <2>2, <2>7
  <2> QED BY <2>1, <2>2, <2>6, <2>8 DEF q
<1>4. n \div g \in Nat /\ n \div g > 0 /\ n = g * (n \div g) BY <1>1, <1>3
<1>5. d \div g \in Nat /\ d \div g > 0 /\ d = g * (d \div g) BY <1>1, <1>3
<1>6. reduce(n, d) \in Fraction BY <1>2, <1>4, <1>5 DEF Fraction
<1>7. reduce(n, d).n = n \div g /\ reduce(n, d).d = d \div g BY <1>2
<1> QED BY <1>1, <1>4, <1>5, <1>6, <1>7

LEMMA ScaledRatio ==
  ASSUME NEW g \in Int, g > 0, NEW a \in Int, NEW b \in Int, NEW u \in Int, NEW v \in Int
  PROVE  /\ (g * a) * v <= u * (g * b) <=> a * v <= u * b
         /\ u * (g * b) <= (g * a) * v <=> u * b <= a * v
         /\ (g * a) < (g * b) <=> a < b
<1>1. (g * a) * v = g * (a * v) /\ u * (g * b) = g * (u * b) OBVIOUS
<1>2. a * v \in Int /\ u * b \in Int OBVIOUS
<1> QED BY <1>1, <1>2, TimesKeepsOrder

\* Comparing reduced fractions is comparing the fractions.
LEMMA ReducedCompares ==
  ASSUME NEW n \in Nat, NEW d \in Nat, n > 0, d > 0, NEW x \in Fraction
  PROVE  /\ NoMore(reduce(n, d), x) <=> n * x.d <= x.n * d
         /\ NoMore(x, reduce(n, d)) <=> x.n * d <= n * x.d
         /\ n > d => reduce(n, d).n > reduce(n, d).d
         /\ n >= d => reduce(n, d).n >= reduce(n, d).d
<1> DEFINE a == reduce(n, d).n
           b == reduce(n, d).d
<1>1. a \in Nat /\ b \in Nat BY ReduceIs DEF Fraction
<1>2. PICK g \in Nat : g > 0 /\ n = g * a /\ d = g * b BY ReduceIs
<1>3. x.n \in Nat /\ x.d \in Nat BY DEF Fraction
<1>4. NoMore(reduce(n, d), x) <=> a * x.d <= x.n * b BY DEF NoMore
<1>5. NoMore(x, reduce(n, d)) <=> x.n * b <= a * x.d BY DEF NoMore
<1> HIDE DEF a, b
<1>6. a \in Int /\ b \in Int /\ g \in Int /\ x.n \in Int /\ x.d \in Int BY <1>1, <1>3
<1>7. n * x.d <= x.n * d <=> a * x.d <= x.n * b BY <1>2, <1>6, ScaledRatio
<1>8. x.n * d <= n * x.d <=> x.n * b <= a * x.d BY <1>2, <1>6, ScaledRatio
<1>9. d < n <=> b < a BY <1>2, <1>6, TimesKeepsOrder
<1>10. d <= n <=> b <= a BY <1>2, <1>6, TimesKeepsOrder
<1>11. (n > d => a > b) /\ (n >= d => a >= b) BY <1>1, <1>9, <1>10
<1> QED BY <1>4, <1>5, <1>7, <1>8, <1>11 DEF a, b

Numerator(odds)   == IF odds > 0 THEN odds + 100 ELSE 100 - odds
Denominator(odds) == IF odds > 0 THEN 100 ELSE -odds

LEMMA MultiplierIs ==
  ASSUME NEW odds \in Int \ {0}
  PROVE  /\ americanMultiplier(odds) \in Fraction
         /\ americanMultiplier(odds).n > americanMultiplier(odds).d
         /\ \A x \in Fraction :
              /\ NoMore(americanMultiplier(odds), x) <=> Numerator(odds) * x.d <= x.n * Denominator(odds)
              /\ NoMore(x, americanMultiplier(odds)) <=> x.n * Denominator(odds) <= Numerator(odds) * x.d
<1> DEFINE n == Numerator(odds)
           d == Denominator(odds)
<1>1. n \in Nat /\ d \in Nat /\ n > 0 /\ d > 0 /\ n > d BY DEF Numerator, Denominator
<1>2. americanMultiplier(odds) = reduce(n, d) BY DEF americanMultiplier, Numerator, Denominator
<1> HIDE DEF n, d
<1>3. reduce(n, d) \in Fraction BY <1>1, ReduceIs
<1>4. \A x \in Fraction : /\ NoMore(reduce(n, d), x) <=> n * x.d <= x.n * d
                          /\ NoMore(x, reduce(n, d)) <=> x.n * d <= n * x.d
  BY <1>1, ReducedCompares
<1>5. reduce(n, d).n > reduce(n, d).d BY <1>1, <1>3, ReducedCompares
<1> QED BY <1>2, <1>3, <1>4, <1>5 DEF n, d

LEMMA QuotientBounds ==
  ASSUME NEW a \in Int, NEW b \in Int, b > 0
  PROVE  a \div b \in Int /\ b * (a \div b) <= a /\ a < b * (a \div b) + b
OBVIOUS

\* A parlay's price is the best American price that pays no more than the product.
LEMMA PriceIsTight ==
  ASSUME NEW x \in Fraction, x.n > x.d, conservativeAmericanOdds(x) # OutOfRange
  PROVE  /\ NoMore(americanMultiplier(conservativeAmericanOdds(x)), x)
         /\ ~NoMore(americanMultiplier(Better(conservativeAmericanOdds(x))), x)
<1> DEFINE p == x.n - x.d
           odds == conservativeAmericanOdds(x)
<1>1. x.n \in Int /\ x.d \in Int /\ x.d > 0 /\ p \in Int /\ p > 0 /\ x.n = p + x.d BY DEF Fraction
<1>2. CASE x.n >= 2 * x.d
  <2> DEFINE q == (100 * p) \div x.d
  <2>1. odds = q BY <1>2 DEF conservativeAmericanOdds, OutOfRange
  <2>2. 100 * p \in Int /\ 100 * x.d <= 100 * p BY <1>1, <1>2
  <2>3. q \in Int /\ x.d * q <= 100 * p /\ 100 * p < x.d * q + x.d BY <1>1, <2>2, QuotientBounds
  <2> HIDE DEF odds, q, p
  <2>4. q >= 100
    <3>1. x.d * q + x.d = x.d * (q + 1) /\ 100 * x.d = x.d * 100 BY <1>1, <2>3
    <3>2. x.d * 100 < x.d * (q + 1) BY <1>1, <2>2, <2>3, <3>1
    <3>3. 100 \in Int /\ q + 1 \in Int BY <2>3
    <3>4. 100 < q + 1 BY <1>1, <3>2, <3>3, TimesKeepsOrder
    <3> QED BY <2>3, <3>4
  <2>5. Better(q) = q + 1 BY <2>3, <2>4 DEF Better
  <2>6. q \in Int \ {0} /\ q + 1 \in Int \ {0} BY <2>3, <2>4
  <2>7. NoMore(americanMultiplier(q), x) <=> (q + 100) * x.d <= x.n * 100
    BY <2>4, <2>6, MultiplierIs DEF Numerator, Denominator
  <2>8. NoMore(americanMultiplier(q + 1), x) <=> (q + 1 + 100) * x.d <= x.n * 100
    <3>1. q + 1 > 0 BY <2>3, <2>4
    <3> QED BY <2>6, <3>1, MultiplierIs DEF Numerator, Denominator
  <2>9. /\ x.d * q \in Int /\ (q + 100) * x.d = x.d * q + 100 * x.d
        /\ (q + 1 + 100) * x.d = x.d * q + 101 * x.d /\ x.n * 100 = 100 * p + 100 * x.d
    BY <1>1, <2>3
  <2>10. (q + 100) * x.d <= x.n * 100 /\ ~ ((q + 1 + 100) * x.d <= x.n * 100) BY <1>1, <2>2, <2>3, <2>9
  <2> QED BY <2>1, <2>5, <2>7, <2>8, <2>10 DEF odds
<1>3. CASE ~ (x.n >= 2 * x.d)
  <2> DEFINE c == (100 * x.d + p - 1) \div p
  <2>1. odds = -c BY <1>3 DEF conservativeAmericanOdds, OutOfRange
  <2>2. 100 * x.d + p - 1 \in Int /\ p < x.d BY <1>1, <1>3
  <2>3. c \in Int /\ p * c <= 100 * x.d + p - 1 /\ 100 * x.d + p - 1 < p * c + p
    BY <1>1, <2>2, QuotientBounds
  <2> HIDE DEF odds, c, p
  <2>4. p * c \in Int /\ 100 * x.d <= p * c /\ p * c < 100 * x.d + p BY <1>1, <2>3
  <2>5. c > 100
    <3>1. 100 * p < 100 * x.d /\ p * 100 = 100 * p BY <1>1, <2>2
    <3>2. p * 100 < p * c BY <1>1, <2>4, <3>1
    <3>3. 100 \in Int /\ c \in Int /\ p \in Int /\ p > 0 BY <1>1, <2>3
    <3> QED BY <3>2, <3>3, TimesKeepsOrder
  <2>6. NoMore(americanMultiplier(-c), x) <=> (100 + c) * x.d <= x.n * c
    <3>1. -c \in Int \ {0} /\ ~ (-c > 0) /\ 100 - (-c) = 100 + c /\ -(-c) = c BY <2>3, <2>5
    <3> QED BY <3>1, MultiplierIs DEF Numerator, Denominator
  <2>7. (100 + c) * x.d <= x.n * c
    <3>1. (100 + c) * x.d = 100 * x.d + c * x.d /\ x.n * c = p * c + c * x.d /\ c * x.d \in Int
      BY <1>1, <2>3
    <3> QED BY <1>1, <2>4, <3>1
  <2>8. ~NoMore(americanMultiplier(Better(-c)), x)
    <3>1. CASE c = 101
      <4>1. Better(-c) = 100 BY <3>1 DEF Better
      <4>2. 100 \in Int \ {0} OBVIOUS
      <4>3. NoMore(americanMultiplier(100), x) <=> 200 * x.d <= x.n * 100
        BY <4>2, MultiplierIs DEF Numerator, Denominator
      <4>4. ~ (200 * x.d <= x.n * 100) BY <1>1, <1>3
      <4> QED BY <4>1, <4>3, <4>4
    <3>2. CASE c # 101
      <4> DEFINE b == c - 1
      <4>1. b \in Int /\ b > 100 /\ c = b + 1 BY <2>3, <2>5, <3>2
      <4>2. Better(-c) = -b BY <2>3, <3>2 DEF Better
      <4> HIDE DEF b
      <4>3. -b \in Int \ {0} /\ ~ (-b > 0) /\ 100 - (-b) = 100 + b /\ -(-b) = b BY <4>1
      <4>4. NoMore(americanMultiplier(-b), x) <=> (100 + b) * x.d <= x.n * b
        BY <4>3, MultiplierIs DEF Numerator, Denominator
      <4>5. p * b < 100 * x.d
        <5>1. p * c = p * b + p BY <1>1, <4>1
        <5>2. p * b \in Int BY <1>1, <4>1
        <5> QED BY <1>1, <2>4, <5>1, <5>2
      <4>6. (100 + b) * x.d = 100 * x.d + b * x.d /\ x.n * b = p * b + b * x.d
            /\ b * x.d \in Int /\ p * b \in Int
        BY <1>1, <4>1
      <4>7. ~ ((100 + b) * x.d <= x.n * b) BY <1>1, <4>5, <4>6
      <4> QED BY <4>2, <4>4, <4>7
    <3> QED BY <3>1, <3>2
  <2> QED BY <2>1, <2>6, <2>7, <2>8 DEF odds
<1> QED BY <1>2, <1>3

(* Products of the legs *)

One == [n |-> 1, d |-> 1]

\* The fold's equation, and where a function satisfies it.
Product(fun, g, s)   == IF s = {} THEN One ELSE LET x == CHOOSE y \in s : TRUE IN multiply(fun[x], g[s \ {x}])
ProductTo(fun, g, n) == \A s \in SUBSET DOMAIN fun : Cardinality(s) <= n => g[s] = Product(fun, g, s)
ProductOf(fun, g)    == [s \in SUBSET DOMAIN fun |-> Product(fun, g, s)]
Multiplies(fun, n)   == \E g : g = [s \in SUBSET DOMAIN fun |-> g[s]] /\ ProductTo(fun, g, n)

LEMMA WithoutOne ==
  ASSUME NEW D, IsFiniteSet(D), NEW s \in SUBSET D, s # {}
  PROVE  LET x == CHOOSE y \in s : TRUE
         IN  /\ x \in s /\ s \ {x} \in SUBSET D
             /\ Cardinality(s) \in Nat /\ Cardinality(s \ {x}) \in Nat
             /\ Cardinality(s \ {x}) = Cardinality(s) - 1
<1> DEFINE x == CHOOSE y \in s : TRUE
<1>1. x \in s OBVIOUS
<1> HIDE DEF x
<1>2. IsFiniteSet(s) BY FS_Subset
<1>3. Cardinality(s \ {x}) = Cardinality(s) - 1 /\ IsFiniteSet(s \ {x}) BY <1>1, <1>2, FS_RemoveElement
<1>4. Cardinality(s) \in Nat /\ Cardinality(s \ {x}) \in Nat BY <1>2, <1>3, FS_CardinalityType
<1>5. s \ {x} \in SUBSET D OBVIOUS
<1> QED BY <1>1, <1>3, <1>4, <1>5 DEF x

LEMMA ProductReaches ==
  ASSUME NEW fun, IsFiniteSet(DOMAIN fun), NEW n \in Nat
  PROVE  Multiplies(fun, n)
<1> DEFINE bad == {m \in Nat : ~Multiplies(fun, m)}
           D   == DOMAIN fun
<1>1. SUFFICES ASSUME bad # {} PROVE FALSE OBVIOUS
<1>2. PICK m \in bad : \A u \in bad : m <= u
  <2>1. bad \in SUBSET Nat OBVIOUS
  <2> HIDE DEF bad
  <2> QED BY <1>1, <2>1, LeastNatural
<1>3. m \in Nat /\ ~Multiplies(fun, m) OBVIOUS
<1>4. ASSUME NEW g, NEW k \in Int, k < m,
             \A s \in SUBSET D : Cardinality(s) <= k => g[s] = Product(fun, g, s),
             m <= k + 1
      PROVE  FALSE
  <2> DEFINE h == ProductOf(fun, g)
  <2>1. \A s \in SUBSET D : h[s] = Product(fun, g, s) BY DEF ProductOf
  <2>2. h = [s \in SUBSET D |-> h[s]] BY DEF ProductOf
  <2> HIDE DEF h
  <2>3. ASSUME NEW s \in SUBSET D, Cardinality(s) <= m PROVE h[s] = Product(fun, h, s)
    <3>1. CASE s = {} BY <2>1, <3>1 DEF Product
    <3>2. CASE s # {}
      <4> DEFINE x == CHOOSE y \in s : TRUE
                 r == s \ {x}
      <4>1. r \in SUBSET D /\ Cardinality(s) \in Nat /\ Cardinality(r) \in Nat
            /\ Cardinality(r) = Cardinality(s) - 1
        BY <3>2, WithoutOne
      <4>2. Product(fun, g, s) = multiply(fun[x], g[r]) /\ Product(fun, h, s) = multiply(fun[x], h[r])
        BY <3>2 DEF Product
      <4> HIDE DEF x, r
      <4>3. Cardinality(r) <= k BY <1>3, <1>4, <2>3, <4>1
      <4>4. g[r] = h[r] BY <1>4, <2>1, <4>1, <4>3
      <4> QED BY <2>1, <4>2, <4>4
    <3> QED BY <3>1, <3>2
  <2>4. ProductTo(fun, h, m) BY <2>3 DEF ProductTo
  <2> QED BY <1>3, <2>2, <2>4 DEF Multiplies
<1>5. CASE m = 0
  <2> DEFINE g == [s \in SUBSET D |-> One]
  <2>1. \A s \in SUBSET D : ~ (Cardinality(s) <= -1)
    <3>1. ASSUME NEW s \in SUBSET D PROVE Cardinality(s) \in Nat BY FS_Subset, FS_CardinalityType
    <3> QED BY <3>1
  <2>2. -1 \in Int /\ -1 < m /\ m <= -1 + 1 BY <1>5
  <2> HIDE DEF g
  <2> QED BY <1>4, <2>1, <2>2
<1>6. CASE m # 0
  <2>1. m - 1 \in Nat /\ ~ (m <= m - 1) BY <1>3, <1>6
  <2>2. Multiplies(fun, m - 1) BY <1>2, <2>1
  <2>3. PICK g : ProductTo(fun, g, m - 1) BY <2>2 DEF Multiplies
  <2>4. \A s \in SUBSET D : Cardinality(s) <= m - 1 => g[s] = Product(fun, g, s) BY <2>3 DEF ProductTo
  <2>5. m - 1 \in Int /\ m - 1 < m /\ m <= m - 1 + 1 BY <1>3
  <2> QED BY <1>4, <2>4, <2>5
<1> QED BY <1>5, <1>6

LEMMA FoldIsProduct ==
  ASSUME NEW fun, IsFiniteSet(DOMAIN fun)
  PROVE  \E g : /\ g = ProductOf(fun, g)
                /\ FoldFunction(multiply, [n |-> 1, d |-> 1], fun) = g[DOMAIN fun]
<1> DEFINE n == Cardinality(DOMAIN fun)
           G == CHOOSE g : g = ProductOf(fun, g)
<1>1. n \in Nat BY FS_CardinalityType
<1>2. PICK g : g = [s \in SUBSET DOMAIN fun |-> g[s]] /\ ProductTo(fun, g, n)
  BY <1>1, ProductReaches DEF Multiplies
<1>3. g = ProductOf(fun, g)
  <2>1. ASSUME NEW s \in SUBSET DOMAIN fun PROVE g[s] = Product(fun, g, s)
    <3>1. Cardinality(s) <= n BY FS_Subset
    <3> QED BY <1>2, <3>1 DEF ProductTo
  <2> QED BY <1>2, <2>1 DEF ProductOf
<1>4. G = ProductOf(fun, G) BY <1>3
<1>5. FoldFunction(multiply, [n |-> 1, d |-> 1], fun) = G[DOMAIN fun]
  BY DEF FoldFunction, FoldFunctionOnSet, MapThenFoldSet, ProductOf, Product, One
<1> HIDE DEF G
<1> QED BY <1>4, <1>5

LEMMA ProductOfTwo ==
  ASSUME NEW x \in Fraction, NEW y \in Fraction, x.n > x.d, y.n >= y.d
  PROVE  multiply(x, y) \in Fraction /\ multiply(x, y).n > multiply(x, y).d
<1> DEFINE n == x.n * y.n
           d == x.d * y.d
<1>1. x.n \in Nat /\ x.d \in Nat /\ y.n \in Nat /\ y.d \in Nat /\ x.n > 0 /\ x.d > 0 /\ y.n > 0 /\ y.d > 0
  BY DEF Fraction
<1>2. n \in Nat /\ d \in Nat /\ n > 0 /\ d > 0
  <2>1. \A a, b \in Nat : a > 0 /\ b > 0 => a * b \in Nat /\ a * b > 0 OBVIOUS
  <2> QED BY <1>1, <2>1
<1>3. n > d
  <2>1. x.d * y.d <= x.d * y.n BY <1>1, TimesKeepsOrder
  <2>2. y.n * x.d < y.n * x.n BY <1>1, TimesKeepsOrder
  <2>3. y.n * x.d = x.d * y.n /\ y.n * x.n = x.n * y.n BY <1>1
  <2>4. x.d * y.d \in Int /\ x.d * y.n \in Int /\ x.n * y.n \in Int BY <1>1
  <2> QED BY <2>1, <2>2, <2>3, <2>4
<1>4. multiply(x, y) = reduce(n, d) BY DEF multiply
<1> HIDE DEF n, d
<1>5. reduce(n, d) \in Fraction /\ reduce(n, d).n > reduce(n, d).d BY <1>2, <1>3, ReduceIs, ReducedCompares
<1> QED BY <1>4, <1>5

Pays(x)   == x \in Fraction /\ x.n > x.d
AtPar(x)  == x \in Fraction /\ x.n >= x.d

LEMMA FoldPays ==
  ASSUME NEW fun, IsFiniteSet(DOMAIN fun), DOMAIN fun # {}, \A i \in DOMAIN fun : Pays(fun[i])
  PROVE  Pays(FoldFunction(multiply, [n |-> 1, d |-> 1], fun))
<1> DEFINE D == DOMAIN fun
<1>1. PICK g : g = ProductOf(fun, g) /\ FoldFunction(multiply, [n |-> 1, d |-> 1], fun) = g[D]
  BY FoldIsProduct
<1>2. \A s \in SUBSET D : g[s] = Product(fun, g, s) BY <1>1 DEF ProductOf
<1> DEFINE Good(s) == AtPar(g[s]) /\ (s # {} => Pays(g[s]))
           bad     == {n \in Nat : \E s \in SUBSET D : Cardinality(s) = n /\ ~Good(s)}
<1>3. bad = {}
  <2>1. SUFFICES ASSUME bad # {} PROVE FALSE OBVIOUS
  <2>2. PICK n \in bad : \A u \in bad : n <= u
    <3>1. bad \in SUBSET Nat OBVIOUS
    <3> HIDE DEF bad
    <3> QED BY <2>1, <3>1, LeastNatural
  <2>3. PICK s \in SUBSET D : Cardinality(s) = n /\ ~Good(s) OBVIOUS
  <2>4. CASE s = {}
    <3>1. g[s] = One BY <1>2, <2>4 DEF Product
    <3>2. AtPar(One) BY DEF AtPar, One, Fraction
    <3> QED BY <2>3, <2>4, <3>1, <3>2
  <2>5. CASE s # {}
    <3> DEFINE x == CHOOSE y \in s : TRUE
               r == s \ {x}
    <3>1. x \in s /\ r \in SUBSET D /\ Cardinality(s) \in Nat /\ Cardinality(r) \in Nat
          /\ Cardinality(r) = Cardinality(s) - 1
      BY <2>5, WithoutOne
    <3>2. g[s] = multiply(fun[x], g[r]) BY <1>2, <2>5 DEF Product
    <3> HIDE DEF x, r
    <3>3. ~ (n <= Cardinality(r)) BY <2>3, <3>1
    <3>4. Cardinality(r) \notin bad BY <2>2, <3>3
    <3>5. Good(r) BY <3>1, <3>4
    <3>6. x \in DOMAIN fun BY <3>1
    <3>7. Pays(fun[x]) /\ AtPar(g[r]) BY <3>5, <3>6
    <3>8. Pays(g[s]) BY <3>2, <3>7, ProductOfTwo DEF Pays, AtPar
    <3>9. AtPar(g[s]) BY <3>8 DEF Pays, AtPar, Fraction
    <3> QED BY <2>3, <3>8, <3>9
  <2> QED BY <2>4, <2>5
<1>4. Good(D)
  <2>1. Cardinality(D) \in Nat BY FS_CardinalityType
  <2>2. Cardinality(D) \notin bad BY <1>3
  <2> QED BY <2>1, <2>2
<1> QED BY <1>1, <1>4

(* Legs *)

LEMMA LegIs ==
  ASSUME NEW leg \in TicketLeg
  PROVE  /\ leg.game \in Game /\ leg.market \in {"spread", "moneyline", "total"}
         /\ leg.side \in Sides(leg.market)
         /\ leg = [game |-> leg.game, market |-> leg.market, side |-> leg.side]
<1>1. PICK m \in {"spread", "moneyline", "total"} : leg \in [game : Game, market : {m}, side : Sides(m)]
  BY DEF TicketLeg, Directional
<1> QED BY <1>1

LEMMA AgainstIs ==
  ASSUME NEW leg \in TicketLeg
  PROVE  /\ Against(leg) \in TicketLeg
         /\ Against(leg).game = leg.game /\ Against(leg).market = leg.market
         /\ Against(leg).side = Opposed[leg.side] /\ Against(leg).side \in Sides(leg.market)
         /\ Against(leg).side # leg.side
<1> DEFINE m == leg.market
           o == Opposed[leg.side]
<1>1. leg.game \in Game /\ m \in {"spread", "moneyline", "total"} /\ leg.side \in Sides(m)
      /\ leg = [game |-> leg.game, market |-> leg.market, side |-> leg.side]
  BY LegIs
<1>2. o \in Sides(m) /\ o # leg.side BY <1>1 DEF Sides, Opposed
<1>3. Against(leg) = [game |-> leg.game, market |-> m, side |-> o] BY <1>1 DEF Against
<1> HIDE DEF o
<1>4. Against(leg) \in [game : Game, market : {m}, side : Sides(m)] BY <1>1, <1>2, <1>3
<1>5. Against(leg) \in TicketLeg BY <1>1, <1>4 DEF TicketLeg, Directional
<1> QED BY <1>2, <1>3, <1>5 DEF o

\* A leg on the same line is the leg itself or the one against it.
LEMMA SameLine ==
  ASSUME NEW x \in TicketLeg, NEW y \in TicketLeg, x.game = y.game, x.market = y.market
  PROVE  x = y \/ x = Against(y)
<1>1. x = [game |-> x.game, market |-> x.market, side |-> x.side] /\ x.side \in Sides(y.market) BY LegIs
<1>2. y = [game |-> y.game, market |-> y.market, side |-> y.side] /\ y.side \in Sides(y.market) BY LegIs
<1>3. Against(y) = [game |-> y.game, market |-> y.market, side |-> Opposed[y.side]] BY <1>2 DEF Against
<1>4. y.market \in {"spread", "moneyline", "total"} BY LegIs
<1>5. x.side = y.side \/ x.side = Opposed[y.side] BY <1>1, <1>2, <1>4 DEF Sides, Opposed
<1> QED BY <1>1, <1>2, <1>3, <1>5

\* No two legs of one game are on one market, or both directional.
Apart(legs) ==
  \A x, y \in legs : x # y /\ x.game = y.game => x.market # y.market /\ ~({x.market, y.market} \subseteq Directional)

LEMMA ParlayGrows ==
  ASSUME NEW legs \in SUBSET TicketLeg, IsFiniteSet(legs), Cardinality(legs) < MaxLegs,
         NEW leg \in TicketLeg, leg \notin legs, Apart(legs)
  PROVE  /\ addParlayLeg(legs, leg) <=> Apart(legs \cup {leg})
         /\ Cardinality(legs \cup {leg}) = Cardinality(legs) + 1
         /\ IsFiniteSet(legs \cup {leg})
<1>1. Cardinality(legs \cup {leg}) = Cardinality(legs) + 1 /\ IsFiniteSet(legs \cup {leg}) BY FS_AddElement
<1>2. leg.game \in Game /\ leg.market \in {"spread", "moneyline", "total"} BY LegIs
<1>3. ASSUME addParlayLeg(legs, leg) PROVE Apart(legs \cup {leg})
  <2>1. ASSUME NEW x \in legs, x.game = leg.game
        PROVE  x.market # leg.market /\ ~({x.market, leg.market} \subseteq Directional)
    <3>1. x \in TicketLeg /\ x # leg OBVIOUS
    <3>2. x # Against(leg) BY <1>3 DEF addParlayLeg
    <3>3. x.market # leg.market BY <2>1, <3>1, <3>2, SameLine
    <3>4. ~ (leg.market \in Directional /\ x.market \in Directional \ {leg.market})
      BY <1>3, <2>1 DEF addParlayLeg
    <3> QED BY <3>3, <3>4
  <2> QED BY <2>1 DEF Apart
<1>4. ASSUME Apart(legs \cup {leg}) PROVE addParlayLeg(legs, leg)
  <2>1. Against(leg) \notin legs
    <3>1. Against(leg).game = leg.game /\ Against(leg).market = leg.market /\ Against(leg).side # leg.side
      BY AgainstIs
    <3>2. Against(leg) # leg BY <3>1
    <3> QED BY <1>4, <3>1, <3>2 DEF Apart
  <2>2. leg.market \in Directional => ~\E other \in legs :
          other.game = leg.game /\ other.market \in Directional \ {leg.market}
    BY <1>4 DEF Apart
  <2> QED BY <2>1, <2>2 DEF addParlayLeg
<1> QED BY <1>1, <1>3, <1>4

\* No leg is beside the one against it, and none is a moneyline.
Teasable(legs) == \A leg \in legs : leg.market # "moneyline" /\ Against(leg) \notin legs

LEMMA AgainstTwice ==
  ASSUME NEW leg \in TicketLeg
  PROVE  Against(Against(leg)) = leg
<1>1. leg = [game |-> leg.game, market |-> leg.market, side |-> leg.side]
      /\ leg.market \in {"spread", "moneyline", "total"} /\ leg.side \in Sides(leg.market)
  BY LegIs
<1>2. Opposed[Opposed[leg.side]] = leg.side BY <1>1 DEF Sides, Opposed
<1>4. Against(leg) = [game |-> leg.game, market |-> leg.market, side |-> Opposed[leg.side]] BY <1>1 DEF Against
<1>3. Against(Against(leg)) = [game |-> leg.game, market |-> leg.market, side |-> Opposed[Opposed[leg.side]]]
  <2> DEFINE other == Against(leg)
  <2> HIDE DEF other
  <2>1. other = [game |-> leg.game, market |-> leg.market, side |-> Opposed[leg.side]] BY <1>4 DEF other
  <2>2. Against(other) = [game |-> leg.game, market |-> leg.market, side |-> Opposed[Opposed[leg.side]]]
    BY <2>1 DEF Against
  <2> QED BY <2>2 DEF other
<1> QED BY <1>1, <1>2, <1>3

LEMMA TeaserGrows ==
  ASSUME NEW legs \in SUBSET TicketLeg, NEW leg \in TicketLeg, Teasable(legs), addTeaserLeg(legs, leg)
  PROVE  Teasable(legs \cup {leg})
<1>1. leg.market # "moneyline" /\ Against(leg) \notin legs BY DEF addTeaserLeg, teaserSelectionConflict
<1>2. Against(leg) # leg BY AgainstIs
<1>3. \A x \in legs : Against(x) # leg BY <1>1, AgainstTwice
<1> QED BY <1>1, <1>2, <1>3 DEF Teasable

LEMMA NoConflict ==
  ASSUME NEW legs \in SUBSET TicketLeg, NEW leg \in legs
  PROVE  ~teaserSelectionConflict(legs \ {leg}, leg) <=> Against(leg) \notin legs
<1>1. Against(leg) # leg BY AgainstIs
<1> QED BY <1>1 DEF teaserSelectionConflict

(* The teaser card *)

LEMMA RowIs ==
  ASSUME NEW a, NEW b, NEW c, NEW d, NEW e
  PROVE  /\ CardRow(a, b, c, d, e)[12] = a /\ CardRow(a, b, c, d, e)[13] = b
         /\ CardRow(a, b, c, d, e)[14] = c /\ CardRow(a, b, c, d, e)[15] = d
         /\ CardRow(a, b, c, d, e)[20] = e
BY DEF CardRow, TeaserPoints

LEMMA CardIs ==
  /\ teaserOdds(2, 12) = -110 /\ teaserOdds(2, 13) = -120 /\ teaserOdds(2, 14) = -130
  /\ teaserOdds(2, 15) = -150 /\ teaserOdds(2, 20) = OffCard
  /\ teaserOdds(3, 12) = 165 /\ teaserOdds(3, 13) = 150 /\ teaserOdds(3, 14) = 135
  /\ teaserOdds(3, 15) = 105 /\ teaserOdds(3, 20) = -110
  /\ teaserOdds(4, 12) = 265 /\ teaserOdds(4, 13) = 235 /\ teaserOdds(4, 14) = 215
  /\ teaserOdds(4, 15) = 140 /\ teaserOdds(4, 20) = OffCard
  /\ teaserOdds(5, 12) = 405 /\ teaserOdds(5, 13) = 350 /\ teaserOdds(5, 14) = 320
  /\ teaserOdds(5, 15) = 235 /\ teaserOdds(5, 20) = OffCard
  /\ teaserOdds(6, 12) = 595 /\ teaserOdds(6, 13) = 550 /\ teaserOdds(6, 14) = 500
  /\ teaserOdds(6, 15) = 325 /\ teaserOdds(6, 20) = OffCard
  /\ \A n \in Nat \ 2..6, p \in TeaserPoints : teaserOdds(n, p) = OffCard
<1>1. \A p : /\ teaserOdds(2, p) = CardRow(-110, -120, -130, -150, OffCard)[p]
             /\ teaserOdds(3, p) = CardRow(165, 150, 135, 105, -110)[p]
             /\ teaserOdds(4, p) = CardRow(265, 235, 215, 140, OffCard)[p]
             /\ teaserOdds(5, p) = CardRow(405, 350, 320, 235, OffCard)[p]
             /\ teaserOdds(6, p) = CardRow(595, 550, 500, 325, OffCard)[p]
  BY DEF teaserOdds
<1>3. /\ teaserOdds(2, 12) = -110 /\ teaserOdds(2, 13) = -120 /\ teaserOdds(2, 14) = -130
      /\ teaserOdds(2, 15) = -150 /\ teaserOdds(2, 20) = OffCard
  BY <1>1, RowIs
<1>4. /\ teaserOdds(3, 12) = 165 /\ teaserOdds(3, 13) = 150 /\ teaserOdds(3, 14) = 135
      /\ teaserOdds(3, 15) = 105 /\ teaserOdds(3, 20) = -110
  BY <1>1, RowIs
<1>5. /\ teaserOdds(4, 12) = 265 /\ teaserOdds(4, 13) = 235 /\ teaserOdds(4, 14) = 215
      /\ teaserOdds(4, 15) = 140 /\ teaserOdds(4, 20) = OffCard
  BY <1>1, RowIs
<1>6. /\ teaserOdds(5, 12) = 405 /\ teaserOdds(5, 13) = 350 /\ teaserOdds(5, 14) = 320
      /\ teaserOdds(5, 15) = 235 /\ teaserOdds(5, 20) = OffCard
  BY <1>1, RowIs
<1>7. /\ teaserOdds(6, 12) = 595 /\ teaserOdds(6, 13) = 550 /\ teaserOdds(6, 14) = 500
      /\ teaserOdds(6, 15) = 325 /\ teaserOdds(6, 20) = OffCard
  BY <1>1, RowIs
<1>8. \A n \in Nat \ 2..6, p \in TeaserPoints : teaserOdds(n, p) = OffCard BY DEF teaserOdds
<1> QED BY <1>3, <1>4, <1>5, <1>6, <1>7, <1>8

LEMMA CardHas ==
  ASSUME NEW n \in Nat, NEW p \in TeaserPoints
  PROVE  /\ teaserOdds(n, p) # OffCard <=> n \in 2..6 /\ (p = 20 => n = 3)
         /\ teaserOdds(n, p) \in Int
<1>1. CASE n \notin 2..6 BY <1>1, CardIs DEF OffCard
<1>2. CASE n = 2 BY <1>2, CardIs DEF OffCard, TeaserPoints
<1>3. CASE n = 3 BY <1>3, CardIs DEF OffCard, TeaserPoints
<1>4. CASE n = 4 BY <1>4, CardIs DEF OffCard, TeaserPoints
<1>5. CASE n = 5 BY <1>5, CardIs DEF OffCard, TeaserPoints
<1>6. CASE n = 6 BY <1>6, CardIs DEF OffCard, TeaserPoints
<1> QED BY <1>1, <1>2, <1>3, <1>4, <1>5, <1>6

\* Fewer legs pay no more.
LEMMA CardGrows ==
  ASSUME NEW n \in Nat, NEW m \in Nat, n <= m, NEW p \in TeaserPoints,
         teaserOdds(n, p) # OffCard, teaserOdds(m, p) # OffCard
  PROVE  NoMore(americanMultiplier(teaserOdds(n, p)), americanMultiplier(teaserOdds(m, p)))
<1> DEFINE less == teaserOdds(n, p)
           more == teaserOdds(m, p)
           x == americanMultiplier(less)
           y == [n |-> Numerator(more), d |-> Denominator(more)]
<1>1. n \in 2..6 /\ m \in 2..6 /\ (p = 20 => n = 3 /\ m = 3) BY CardHas
<1>2. less \in Int \ {0} /\ more \in Int \ {0} BY CardHas DEF OffCard
<1>3. less = more \/ (more > 0 /\ less > 0 /\ less < more) \/ (less < 0 /\ less <= -105 /\ more > 100)
      \/ (less < 0 /\ more < 0 /\ less <= more)
  <2>1. CASE p = 12 BY <1>1, <2>1, CardIs
  <2>2. CASE p = 13 BY <1>1, <2>2, CardIs
  <2>3. CASE p = 14 BY <1>1, <2>3, CardIs
  <2>4. CASE p = 15 BY <1>1, <2>4, CardIs
  <2>5. CASE p = 20 BY <1>1, <2>5, CardIs
  <2> QED BY <2>1, <2>2, <2>3, <2>4, <2>5 DEF TeaserPoints
<1> HIDE DEF less, more
<1>4. Numerator(less) * Denominator(more) <= Numerator(more) * Denominator(less)
  <2>1. CASE less = more BY <1>2, <2>1 DEF Numerator, Denominator
  <2>2. CASE more > 0 /\ less > 0 /\ less < more BY <1>2, <2>2 DEF Numerator, Denominator
  <2>3. CASE less < 0 /\ less <= -105 /\ more > 100
    <3>1. Numerator(less) = 100 - less /\ Denominator(less) = -less /\ Numerator(more) = more + 100
          /\ Denominator(more) = 100
      BY <1>2, <2>3 DEF Numerator, Denominator
    <3> DEFINE a == -less
    <3>2. a \in Int /\ a > 100 /\ less = -a BY <1>2, <2>3
    <3>3. a * 200 <= a * (more + 100)
      <4>1. a > 0 /\ 200 \in Int /\ more + 100 \in Int /\ 200 <= more + 100 BY <1>2, <2>3, <3>2
      <4> QED BY <3>2, <4>1, TimesKeepsOrder
    <3>4. (100 - less) * 100 <= 200 * a BY <3>2
    <3> HIDE DEF a
    <3>5. (more + 100) * (-less) = a * (more + 100) /\ a * 200 = 200 * a BY <1>2, <3>2
    <3>6. a * (more + 100) \in Int BY <1>2, <3>2
    <3> QED BY <1>2, <3>1, <3>2, <3>3, <3>4, <3>5, <3>6
  <2>4. CASE less < 0 /\ more < 0 /\ less <= more
    <3>1. Numerator(less) = 100 - less /\ Denominator(less) = -less /\ Numerator(more) = 100 - more
          /\ Denominator(more) = -more
      BY <1>2, <2>4 DEF Numerator, Denominator
    <3>2. (100 - less) * (-more) = -(100 * more) + less * more
          /\ (100 - more) * (-less) = -(100 * less) + less * more /\ less * more \in Int
      BY <1>2
    <3> QED BY <1>2, <2>4, <3>1, <3>2
  <2> QED BY <1>3, <2>1, <2>2, <2>3, <2>4
<1>5. y \in Fraction BY <1>2 DEF Fraction, Numerator, Denominator
<1>6. x \in Fraction /\ (NoMore(x, y) <=> Numerator(less) * Denominator(more) <= Numerator(more) * Denominator(less))
  BY <1>2, <1>5, MultiplierIs
<1>7. NoMore(x, americanMultiplier(more)) <=> x.n * Denominator(more) <= Numerator(more) * x.d
  BY <1>2, <1>6, MultiplierIs
<1>8. NoMore(x, y) <=> x.n * Denominator(more) <= Numerator(more) * x.d BY DEF NoMore
<1>9. NoMore(x, americanMultiplier(more)) BY <1>4, <1>6, <1>7, <1>8
<1> QED BY <1>9 DEF less, more

(* Grades *)

Known == Score \cup {Cancelled, Unplayed}

LEMMA ScoreIs ==
  ASSUME NEW r \in Known
  PROVE  /\ r = Unplayed \/ r = Cancelled \/ r \in Score
         /\ r \in Score => r # Unplayed /\ r # Cancelled /\ r.home \in Nat /\ r.away \in Nat
BY RulesAssumption DEF Known

LEMMA GradeIs ==
  ASSUME NEW leg \in TicketLeg, NEW line, NEW r \in Known
  PROVE  /\ gradeLeg(leg, line, r) \in {"pending", "void", "push", "win", "loss"}
         /\ gradeLeg(leg, line, r) = "pending" <=> r = Unplayed
<1>1. CASE r = Unplayed BY <1>1, RulesAssumption DEF gradeLeg, Known
<1>2. CASE r = Cancelled BY <1>2, RulesAssumption DEF gradeLeg, Known
<1>3. CASE r \in Score
  <2>1. r # Unplayed /\ r # Cancelled BY <1>3, ScoreIs
  <2>2. leg.market \in {"spread", "moneyline", "total"} BY LegIs
  <2>3. CASE leg.market = "spread"
    <3>1. gradeLeg(leg, line, r) = SpreadGrade(leg, line, r) BY <1>3, <2>1, <2>3 DEF gradeLeg
    <3>2. SpreadGrade(leg, line, r) \in {"push", "win", "loss"} BY DEF SpreadGrade
    <3> QED BY <2>1, <3>1, <3>2
  <2>4. CASE leg.market = "moneyline"
    <3>1. gradeLeg(leg, line, r) \in {"void", "win", "loss"} BY <1>3, <2>1, <2>4 DEF gradeLeg
    <3> QED BY <2>1, <3>1
  <2>5. CASE leg.market = "total"
    <3>1. gradeLeg(leg, line, r) \in {"push", "win", "loss"} BY <1>3, <2>1, <2>5 DEF gradeLeg
    <3> QED BY <2>1, <3>1
  <2> QED BY <2>2, <2>3, <2>4, <2>5
<1> QED BY <1>1, <1>2, <1>3, ScoreIs

\* The margin by which a score is on a leg's side of a line.
Margin(leg, line, r) ==
  CASE leg.market = "spread" /\ leg.side = "home" -> 2 * (r.home - r.away) + line
    [] leg.market = "spread" /\ leg.side = "away" -> 2 * (r.away - r.home) + line
    [] leg.market = "total" /\ leg.side = "over"  -> 2 * (r.home + r.away) - line
    [] leg.market = "total" /\ leg.side = "under" -> line - 2 * (r.home + r.away)
    [] leg.market = "moneyline" /\ leg.side = "home" -> r.home - r.away
    [] leg.market = "moneyline" /\ leg.side = "away" -> r.away - r.home

LEMMA GradeByMargin ==
  ASSUME NEW leg \in TicketLeg, NEW line \in Int, NEW r \in Score
  PROVE  /\ Margin(leg, line, r) \in Int
         /\ gradeLeg(leg, line, r) =
              IF Margin(leg, line, r) = 0 THEN (IF leg.market = "moneyline" THEN "void" ELSE "push")
              ELSE IF Margin(leg, line, r) > 0 THEN "win" ELSE "loss"
<1>1. r # Unplayed /\ r # Cancelled /\ r.home \in Nat /\ r.away \in Nat
  <2>1. r \in Known BY DEF Known
  <2> QED BY <2>1, ScoreIs
<1>2. leg.market \in {"spread", "moneyline", "total"} /\ leg.side \in Sides(leg.market) BY LegIs
<1>3. CASE leg.market = "spread"
  <2>1. gradeLeg(leg, line, r) = SpreadGrade(leg, line, r) BY <1>1, <1>3 DEF gradeLeg
  <2>2. CASE leg.side = "home"
    <3>1. Margin(leg, line, r) = 2 * (r.home - r.away) + line BY <1>3, <2>2 DEF Margin
    <3> QED BY <1>1, <1>3, <2>1, <2>2, <3>1 DEF SpreadGrade
  <2>3. CASE leg.side = "away"
    <3>1. Margin(leg, line, r) = 2 * (r.away - r.home) + line BY <1>3, <2>3 DEF Margin
    <3> QED BY <1>1, <1>3, <2>1, <2>3, <3>1 DEF SpreadGrade
  <2> QED BY <1>2, <1>3, <2>2, <2>3 DEF Sides
<1>4. CASE leg.market = "total"
  <2>1. CASE leg.side = "over"
    <3>1. Margin(leg, line, r) = 2 * (r.home + r.away) - line BY <1>4, <2>1 DEF Margin
    <3> QED BY <1>1, <1>4, <2>1, <3>1 DEF gradeLeg
  <2>2. CASE leg.side = "under"
    <3>1. Margin(leg, line, r) = line - 2 * (r.home + r.away) BY <1>4, <2>2 DEF Margin
    <3> QED BY <1>1, <1>4, <2>2, <3>1 DEF gradeLeg
  <2> QED BY <1>2, <1>4, <2>1, <2>2 DEF Sides
<1>5. CASE leg.market = "moneyline"
  <2>1. CASE leg.side = "home"
    <3>1. Margin(leg, line, r) = r.home - r.away BY <1>5, <2>1 DEF Margin
    <3> QED BY <1>1, <1>5, <2>1, <3>1 DEF gradeLeg
  <2>2. CASE leg.side = "away"
    <3>1. Margin(leg, line, r) = r.away - r.home BY <1>5, <2>2 DEF Margin
    <3> QED BY <1>1, <1>5, <2>2, <3>1 DEF gradeLeg
  <2> QED BY <1>2, <1>5, <2>1, <2>2 DEF Sides
<1> QED BY <1>2, <1>3, <1>4, <1>5

LEMMA LineIs ==
  ASSUME NEW leg \in TicketLeg
  PROVE  LineOf(leg) \in Int
<1>1. leg.market \in {"spread", "moneyline", "total"} BY LegIs
<1>2. Spread \in Int /\ Total \in Int BY RulesAssumption
<1> QED BY <1>1, <1>2 DEF LineOf, NoLine

\* Opposite legs have opposite margins; points add to a leg's own.
LEMMA MarginsAreOpposite ==
  ASSUME NEW leg \in TicketLeg, NEW r \in Score
  PROVE  Margin(Against(leg), LineOf(Against(leg)), r) = -Margin(leg, LineOf(leg), r)
<1> DEFINE o == Against(leg)
<1>1. leg.market \in {"spread", "moneyline", "total"} /\ leg.side \in Sides(leg.market) BY LegIs
<1>2. o.market = leg.market /\ o.side = Opposed[leg.side] BY AgainstIs
<1>3. r.home \in Nat /\ r.away \in Nat /\ Spread \in Int /\ Total \in Int BY RulesAssumption
<1> HIDE DEF o
<1>4. CASE leg.market = "spread" BY <1>1, <1>2, <1>3, <1>4 DEF Margin, LineOf, Sides, Opposed, o
<1>5. CASE leg.market = "total" BY <1>1, <1>2, <1>3, <1>5 DEF Margin, LineOf, Sides, Opposed, o
<1>6. CASE leg.market = "moneyline" BY <1>1, <1>2, <1>3, <1>6 DEF Margin, LineOf, Sides, Opposed, o
<1> QED BY <1>1, <1>4, <1>5, <1>6

LEMMA PointsHelp ==
  ASSUME NEW leg \in TicketLeg, leg.market # "moneyline", NEW r \in Score, NEW points \in TeaserPoints
  PROVE  /\ adjustTeaserLine(leg, points) \in Int
         /\ Margin(leg, adjustTeaserLine(leg, points), r) = Margin(leg, LineOf(leg), r) + points
<1>1. leg.market \in {"spread", "total"} /\ leg.side \in Sides(leg.market) BY LegIs
<1>2. r.home \in Nat /\ r.away \in Nat /\ Spread \in Int /\ Total \in Int BY RulesAssumption
<1>3. points \in Int /\ LineOf(leg) \in Int BY LineIs DEF TeaserPoints
<1>4. adjustTeaserLine(leg, points) \in Int BY <1>3 DEF adjustTeaserLine
<1>5. CASE leg.market = "spread" BY <1>1, <1>2, <1>3, <1>5 DEF Margin, adjustTeaserLine, Sides
<1>6. CASE leg.market = "total" BY <1>1, <1>2, <1>3, <1>6 DEF Margin, adjustTeaserLine, Sides
<1> QED BY <1>1, <1>4, <1>5, <1>6

LEMMA OppositeLegs ==
  ASSUME NEW leg \in TicketLeg, NEW r \in Known
  PROVE  LET one   == gradeLeg(leg, LineOf(leg), r)
             other == gradeLeg(Against(leg), LineOf(Against(leg)), r)
         IN  /\ one = "win" <=> other = "loss"
             /\ one \notin {"win", "loss"} => one = other
             /\ leg.market # "moneyline" => \A points \in TeaserPoints :
                  "loss" # gradeLeg(leg, adjustTeaserLine(leg, points), r)
                    \/ "loss" # gradeLeg(Against(leg), adjustTeaserLine(Against(leg), points), r)
<1> DEFINE o == Against(leg)
<1>1. o \in TicketLeg /\ o.market = leg.market BY AgainstIs
<1>2. CASE r \in Score
  <2> DEFINE m == Margin(leg, LineOf(leg), r)
             w == Margin(o, LineOf(o), r)
  <2>1. m \in Int /\ w \in Int /\ w = -m BY <1>1, <1>2, LineIs, GradeByMargin, MarginsAreOpposite
  <2> HIDE DEF o
  <2>2. gradeLeg(leg, LineOf(leg), r)
          = IF m = 0 THEN (IF leg.market = "moneyline" THEN "void" ELSE "push") ELSE IF m > 0 THEN "win" ELSE "loss"
    BY <1>2, LineIs, GradeByMargin
  <2>3. gradeLeg(o, LineOf(o), r)
          = IF w = 0 THEN (IF o.market = "moneyline" THEN "void" ELSE "push") ELSE IF w > 0 THEN "win" ELSE "loss"
    BY <1>1, <1>2, LineIs, GradeByMargin
  <2> HIDE DEF m, w
  <2>4. ASSUME leg.market # "moneyline", NEW points \in TeaserPoints
        PROVE  \/ "loss" # gradeLeg(leg, adjustTeaserLine(leg, points), r)
               \/ "loss" # gradeLeg(o, adjustTeaserLine(o, points), r)
    <3> DEFINE x == adjustTeaserLine(leg, points)
               y == adjustTeaserLine(o, points)
    <3>1. x \in Int /\ Margin(leg, x, r) = m + points BY <1>2, <2>4, PointsHelp DEF m
    <3>2. y \in Int /\ Margin(o, y, r) = w + points BY <1>1, <1>2, <2>4, PointsHelp DEF w
    <3>3. points \in Nat BY DEF TeaserPoints
    <3> HIDE DEF x, y
    <3>4. gradeLeg(leg, x, r) = "loss" => m + points < 0 BY <1>2, <2>1, <3>1, <3>3, GradeByMargin
    <3>5. gradeLeg(o, y, r) = "loss" => w + points < 0 BY <1>1, <1>2, <2>1, <3>2, <3>3, GradeByMargin
    <3>6. ~ (m + points < 0 /\ w + points < 0) BY <2>1, <3>3
    <3> QED BY <3>4, <3>5, <3>6 DEF x, y
  <2> QED BY <1>1, <2>1, <2>2, <2>3, <2>4 DEF o
<1>3. CASE r \notin Score
  <2>1. \A line : /\ gradeLeg(leg, line, r) = IF r = Unplayed THEN "pending" ELSE "void"
                  /\ gradeLeg(o, line, r) = IF r = Unplayed THEN "pending" ELSE "void"
    BY <1>3, ScoreIs, RulesAssumption DEF gradeLeg
  <2> QED BY <2>1
<1> QED BY <1>2, <1>3

(* Prices of legs *)

LEMMA LegOddsAre ==
  ASSUME NEW leg \in TicketLeg, NEW legs
  PROVE  effectiveLegOdds(leg, legs) \in Int \ {0}
<1>1. leg.game \in Game /\ leg.market \in {"spread", "moneyline", "total"} /\ leg.side \in Sides(leg.market)
  BY LegIs
<1>2. leg.market = "moneyline" => Strike[leg.game][leg.side] \in Int \ {0}
  <2>1. ASSUME leg.market = "moneyline" PROVE Strike[leg.game][leg.side] \in Int \ {0}
    <3>1. leg.side \in {"home", "away"} BY <1>1, <2>1 DEF Sides
    <3>2. Strike[leg.game] \in [{"home", "away"} -> Int \ {0}] BY <1>1, RulesAssumption
    <3> QED BY <3>1, <3>2
  <2> QED BY <2>1
<1> QED BY <1>1, <1>2 DEF effectiveLegOdds

Multipliers(legs) == [leg \in legs |-> americanMultiplier(effectiveLegOdds(leg, legs))]
ProductOfLegs(legs) == FoldFunction(multiply, [n |-> 1, d |-> 1], Multipliers(legs))

LEMMA LegsPay ==
  ASSUME NEW legs \in SUBSET TicketLeg, IsFiniteSet(legs), legs # {}
  PROVE  Pays(ProductOfLegs(legs)) /\ priceLegs(legs) = conservativeAmericanOdds(ProductOfLegs(legs))
<1> DEFINE fun == Multipliers(legs)
<1>1. DOMAIN fun = legs BY DEF Multipliers
<1>2. \A i \in DOMAIN fun : Pays(fun[i])
  <2>1. SUFFICES ASSUME NEW i \in legs PROVE Pays(fun[i]) BY <1>1
  <2>2. effectiveLegOdds(i, legs) \in Int \ {0} BY LegOddsAre
  <2>3. fun[i] = americanMultiplier(effectiveLegOdds(i, legs)) BY DEF Multipliers
  <2> QED BY <2>2, <2>3, MultiplierIs DEF Pays
<1> HIDE DEF fun
<1>3. Pays(FoldFunction(multiply, [n |-> 1, d |-> 1], fun)) BY <1>1, <1>2, FoldPays
<1>4. priceLegs(legs) = conservativeAmericanOdds(ProductOfLegs(legs))
  BY DEF priceLegs, ProductOfLegs, Multipliers
<1> QED BY <1>3, <1>4 DEF ProductOfLegs, fun

LEMMA PriceIs ==
  ASSUME NEW x, Pays(x)
  PROVE  conservativeAmericanOdds(x) \in Int
<1> DEFINE p == x.n - x.d
<1>1. x.n \in Int /\ x.d \in Int /\ x.d > 0 /\ p \in Int /\ p > 0 BY DEF Pays, Fraction
<1>2. 100 * p \in Int /\ 100 * x.d + p - 1 \in Int BY <1>1
<1> HIDE DEF p
<1>3. (100 * p) \div x.d \in Int /\ (100 * x.d + p - 1) \div p \in Int BY <1>1, <1>2, QuotientBounds
<1> DEFINE american == IF x.n >= 2 * x.d THEN (100 * p) \div x.d ELSE -((100 * x.d + p - 1) \div p)
<1>4. american \in Int BY <1>3
<1>5. conservativeAmericanOdds(x) = IF american > MaxOdds \/ american < -MaxOdds THEN OutOfRange ELSE american
  BY DEF conservativeAmericanOdds, p
<1> HIDE DEF american
<1> QED BY <1>4, <1>5 DEF OutOfRange

(* Decisions *)

Grades(t, known) == [leg \in t.legs |-> gradeLeg(leg, HeldLine(t, leg), known[leg.game])]

\* What is known only grows.
Grows(known, more) == \A g \in Game : known[g] # Unplayed => more[g] = known[g]

LEMMA GradeKept ==
  ASSUME NEW t, t.legs \in SUBSET TicketLeg, NEW known \in [Game -> Known], NEW more \in [Game -> Known],
         Grows(known, more), NEW leg \in t.legs, Grades(t, known)[leg] # "pending"
  PROVE  Grades(t, more)[leg] = Grades(t, known)[leg]
<1>1. leg \in TicketLeg /\ leg.game \in Game BY LegIs
<1>2. Grades(t, known)[leg] = gradeLeg(leg, HeldLine(t, leg), known[leg.game])
      /\ Grades(t, more)[leg] = gradeLeg(leg, HeldLine(t, leg), more[leg.game])
  BY DEF Grades
<1>3. known[leg.game] \in Known BY <1>1
<1>4. known[leg.game] # Unplayed BY <1>1, <1>2, <1>3, GradeIs
<1> QED BY <1>1, <1>2, <1>4 DEF Grows

LEMMA DecisionKept ==
  ASSUME NEW t, t.legs \in SUBSET TicketLeg, NEW known \in [Game -> Known], NEW more \in [Game -> Known],
         Grows(known, more), gradeResults(t, known) # Undecided
  PROVE  gradeResults(t, more) = gradeResults(t, known)
<1> DEFINE a == Grades(t, known)
           b == Grades(t, more)
           Decided(grade) ==
             LET left == {leg \in t.legs : grade[leg] = "win"}
             IN  IF left = {} THEN Refund
                 ELSE CASE t.kind = "straight" -> Won(t.odds)
                        [] t.kind = "parlay"   -> Won(priceLegs(left))
                        [] t.kind = "teaser"   ->
                             LET odds == teaserOdds(Cardinality(left), t.points)
                             IN  IF odds = OffCard THEN Refund ELSE Won(odds)
           Lost == [outcome |-> "loss", odds |-> 0]
           Graded(grade) == IF "loss" \in Range(grade) THEN Lost
                            ELSE IF "pending" \in Range(grade) THEN Undecided ELSE Decided(grade)
<1>1. gradeResults(t, known) = Graded(a) /\ gradeResults(t, more) = Graded(b)
  BY DEF gradeResults, Grades
<1>2. a = [leg \in t.legs |-> a[leg]] /\ b = [leg \in t.legs |-> b[leg]] BY DEF Grades
<1>3. Range(a) = {a[leg] : leg \in t.legs} /\ Range(b) = {b[leg] : leg \in t.legs}
  BY DEF Range, Grades
<1>4. \A leg \in t.legs : a[leg] # "pending" => b[leg] = a[leg] BY GradeKept
<1> HIDE DEF a, b, Decided
<1>5. CASE "loss" \in Range(a)
  <2>1. "loss" \in Range(b) BY <1>3, <1>4, <1>5
  <2> QED BY <1>1, <1>5, <2>1
<1>6. CASE "loss" \notin Range(a)
  <2>1. "pending" \notin Range(a) BY <1>1, <1>6
  <2>2. \A leg \in t.legs : b[leg] = a[leg] BY <1>3, <1>4, <2>1
  <2>3. b = a BY <1>2, <2>2
  <2> QED BY <1>1, <2>3
<1> QED BY <1>5, <1>6

(* The inductive invariant *)

TicketType == [kind : {"straight", "parlay", "teaser"}, legs : SUBSET TicketLeg,
               points : TeaserPoints \cup {0}, odds : Int, accepted : BOOLEAN]

\* Whatever refunds leave of the ticket has a price.
Priced(t) ==
  /\ t.legs # {} /\ t.odds # 0
  /\ t.kind = "parlay" => /\ t.odds = priceLegs(t.legs)
                          /\ \A left \in (SUBSET t.legs) \ {{}} : priceLegs(left) # OutOfRange
  /\ t.kind = "teaser" => t.points \in TeaserPoints /\ t.odds = teaserOdds(Cardinality(t.legs), t.points)

RulesInv ==
  /\ ticket \in TicketType /\ IsFiniteSet(ticket.legs)
  /\ result \in [Game -> Known]
  /\ ticket.kind # "straight" => Cardinality(ticket.legs) <= MaxLegs
  /\ ticket.kind = "parlay" => Apart(ticket.legs)
  /\ ticket.kind = "teaser" => Teasable(ticket.legs)
  /\ ticket.accepted => Priced(ticket)

LEMMA AddKeeps ==
  ASSUME RulesInv, NEW kind \in {"straight", "parlay", "teaser"}, NEW leg \in TicketLeg, AddLeg(kind, leg)
  PROVE  RulesInv'
<1> DEFINE legs == ticket.legs
           more == legs \cup {leg}
<1>1. ticket \in TicketType /\ IsFiniteSet(legs) /\ result \in [Game -> Known] /\ legs \in SUBSET TicketLeg
  BY DEF RulesInv, TicketType
<1>2. /\ ~ticket.accepted /\ (legs = {} \/ kind = ticket.kind)
      /\ ticket' = [ticket EXCEPT !.kind = kind, !.legs = more] /\ result' = result
  BY DEF AddLeg
<1>3. /\ kind = "parlay" => addParlayLeg(legs, leg)
      /\ kind = "teaser" => addTeaserLeg(legs, leg)
  BY DEF AddLeg
<1>4. MaxLegs \in 2..6 BY RulesAssumption
<1> HIDE DEF legs, more
<1>5. more \in SUBSET TicketLeg BY <1>1 DEF more
<1>6. ticket' \in TicketType /\ ticket'.kind = kind /\ ticket'.legs = more /\ ~ticket'.accepted
  BY <1>1, <1>2, <1>5 DEF TicketType
<1>7. IsFiniteSet(more) BY <1>1, FS_AddElement DEF more
<1>8. ASSUME Cardinality(legs) < MaxLegs PROVE Cardinality(more) <= MaxLegs
  <2>1. Cardinality(legs) \in Nat BY <1>1, FS_CardinalityType
  <2>2. Cardinality(more) <= Cardinality(legs) + 1
    <3>1. Cardinality(more) = IF leg \in legs THEN Cardinality(legs) ELSE Cardinality(legs) + 1
      BY <1>1, FS_AddElement DEF more
    <3> QED BY <2>1, <3>1
  <2>3. Cardinality(more) \in Nat BY <1>7, FS_CardinalityType
  <2> QED BY <1>4, <1>8, <2>1, <2>2, <2>3
<1>9. kind # "straight" => Cardinality(more) <= MaxLegs
  BY <1>3, <1>8 DEF addParlayLeg, addTeaserLeg
<1>10. ASSUME kind = "parlay" PROVE Apart(more)
  <2>1. Apart(legs) BY <1>2, <1>10 DEF RulesInv, Apart, legs
  <2>2. leg \notin legs /\ Cardinality(legs) < MaxLegs BY <1>3, <1>10 DEF addParlayLeg
  <2> QED BY <1>1, <1>3, <1>10, <2>1, <2>2, ParlayGrows DEF more
<1>11. ASSUME kind = "teaser" PROVE Teasable(more)
  <2>1. Teasable(legs) BY <1>2, <1>11 DEF RulesInv, Teasable, legs
  <2> QED BY <1>1, <1>3, <1>11, <2>1, TeaserGrows DEF more
<1> QED BY <1>1, <1>2, <1>6, <1>7, <1>9, <1>10, <1>11 DEF RulesInv

LEMMA AcceptKeeps ==
  ASSUME RulesInv, NEW odds \in Int, NEW points \in TeaserPoints \cup {0}, Accept(odds, points),
         ticket.legs # {},
         ticket.kind = "parlay" => /\ odds = priceLegs(ticket.legs)
                                   /\ \A left \in (SUBSET ticket.legs) \ {{}} : priceLegs(left) # OutOfRange,
         ticket.kind = "teaser" => points \in TeaserPoints /\ odds = teaserOdds(Cardinality(ticket.legs), points)
  PROVE  RulesInv'
<1>1. ticket \in TicketType BY DEF RulesInv
<1>2. odds # 0 /\ ticket' = [ticket EXCEPT !.odds = odds, !.points = points, !.accepted = TRUE] /\ result' = result
  BY DEF Accept, OutOfRange
<1>3. /\ ticket' \in TicketType /\ ticket'.kind = ticket.kind /\ ticket'.legs = ticket.legs
      /\ ticket'.odds = odds /\ ticket'.points = points
  BY <1>1, <1>2 DEF TicketType
<1>4. Priced(ticket') BY <1>2, <1>3 DEF Priced
<1> QED BY <1>2, <1>3, <1>4 DEF RulesInv

LEMMA StraightKeeps ==
  ASSUME RulesInv, AcceptStraight
  PROVE  RulesInv'
<1>1. PICK leg \in ticket.legs : Accept(effectiveLegOdds(leg, {leg}), 0) BY DEF AcceptStraight
<1>2. leg \in TicketLeg BY DEF RulesInv, TicketType
<1>3. effectiveLegOdds(leg, {leg}) \in Int BY <1>2, LegOddsAre
<1>4. ticket.kind = "straight" /\ ticket.legs # {} /\ 0 \in TeaserPoints \cup {0} BY DEF AcceptStraight
<1> QED BY <1>1, <1>3, <1>4, AcceptKeeps

LEMMA ParlayKeeps ==
  ASSUME RulesInv, AcceptParlay
  PROVE  RulesInv'
<1> DEFINE legs == ticket.legs
<1>1. ticket.kind = "parlay" /\ Accept(parlayOdds(legs), 0) BY DEF AcceptParlay
<1>2. parlayOdds(legs) # OutOfRange BY <1>1 DEF Accept
<1>3. /\ validateParlay(legs) /\ parlayOdds(legs) = priceLegs(legs)
      /\ \A left \in (SUBSET legs) \ {{}} : priceLegs(left) # OutOfRange
  BY <1>2 DEF parlayOdds
<1>4. legs \in SUBSET TicketLeg /\ IsFiniteSet(legs) BY DEF RulesInv, TicketType
<1>5. legs # {}
  <2>1. Cardinality(legs) \in 2..MaxLegs BY <1>3 DEF validateParlay
  <2>2. Cardinality(legs) # 0 BY <2>1, RulesAssumption
  <2> QED BY <2>2, FS_EmptySet
<1>6. priceLegs(legs) \in Int BY <1>4, <1>5, LegsPay, PriceIs
<1>7. 0 \in TeaserPoints \cup {0} OBVIOUS
<1> QED BY <1>1, <1>3, <1>5, <1>6, <1>7, AcceptKeeps

LEMMA TeaserKeeps ==
  ASSUME RulesInv, AcceptTeaser
  PROVE  RulesInv'
<1> DEFINE legs == ticket.legs
           n == Cardinality(legs)
<1>1. PICK points \in TeaserPoints :
        validateTeaser(legs, points) /\ Accept(teaserOdds(n, points), points)
  BY DEF AcceptTeaser
<1>2. ticket.kind = "teaser" BY DEF AcceptTeaser
<1>3. IsFiniteSet(legs) BY DEF RulesInv
<1>4. n \in Nat BY <1>3, FS_CardinalityType
<1>5. teaserOdds(n, points) # OffCard BY <1>1 DEF validateTeaser
<1>6. n \in 2..6 /\ teaserOdds(n, points) \in Int BY <1>4, <1>5, CardHas
<1>7. legs # {}
  <2>1. n # 0 BY <1>6
  <2> QED BY <2>1, FS_EmptySet
<1>8. points \in TeaserPoints \cup {0} OBVIOUS
<1> QED BY <1>1, <1>2, <1>6, <1>7, <1>8, AcceptKeeps

LEMMA EndKeeps ==
  ASSUME RulesInv, NEW g \in Game, GameEnds(g)
  PROVE  RulesInv'
<1>1. PICK r \in Score \cup {Cancelled} : result' = [result EXCEPT ![g] = r] BY DEF GameEnds
<1>2. ticket' = ticket BY DEF GameEnds
<1>3. result' \in [Game -> Known] BY <1>1 DEF RulesInv, Known
<1> QED BY <1>2, <1>3 DEF RulesInv

LEMMA RulesKeep == RulesInv /\ [RulesNext]_rulesVars => RulesInv'
<1>1. ASSUME RulesInv, RulesNext PROVE RulesInv'
  BY <1>1, AddKeeps, StraightKeeps, ParlayKeeps, TeaserKeeps, EndKeeps DEF RulesNext
<1>2. ASSUME RulesInv, UNCHANGED rulesVars PROVE RulesInv' BY <1>2 DEF RulesInv, rulesVars
<1> QED BY <1>1, <1>2

LEMMA RulesStart == RulesInit => RulesInv
<1> SUFFICES ASSUME RulesInit PROVE RulesInv OBVIOUS
<1>1. ticket = [kind |-> "straight", legs |-> {}, points |-> 0, odds |-> 0, accepted |-> FALSE]
  BY DEF RulesInit
<1>2. ticket \in TicketType /\ ticket.kind = "straight" /\ ticket.legs = {} /\ ~ticket.accepted
  BY <1>1 DEF TicketType
<1>3. IsFiniteSet(ticket.legs) BY <1>2, FS_EmptySet
<1>4. result \in [Game -> Known] BY DEF RulesInit, Known
<1> QED BY <1>2, <1>3, <1>4 DEF RulesInv

(* What the invariant gives *)

LEMMA BuildersAgree == RulesInv => BuilderAgrees
<1> SUFFICES ASSUME RulesInv, ~ticket.accepted PROVE BuilderAgrees BY DEF BuilderAgrees
<1> DEFINE legs == ticket.legs
           n == Cardinality(legs)
<1>1. legs \in SUBSET TicketLeg /\ IsFiniteSet(legs) BY DEF RulesInv, TicketType
<1>2. n \in Nat BY <1>1, FS_CardinalityType
<1>3. MaxLegs \in 2..6 BY RulesAssumption
<1>4. ASSUME ticket.kind = "parlay", legs # {}, n < MaxLegs, NEW leg \in TicketLeg \ legs
      PROVE  addParlayLeg(legs, leg) <=> validateParlay(legs \cup {leg})
  <2>1. Apart(legs) BY <1>4 DEF RulesInv
  <2>2. (addParlayLeg(legs, leg) <=> Apart(legs \cup {leg})) /\ Cardinality(legs \cup {leg}) = n + 1
    BY <1>1, <1>4, <2>1, ParlayGrows
  <2>3. n # 0 BY <1>1, <1>4, FS_EmptySet
  <2>4. n + 1 \in 2..MaxLegs BY <1>2, <1>3, <1>4, <2>3
  <2>5. validateParlay(legs \cup {leg}) <=> Apart(legs \cup {leg}) BY <2>2, <2>4 DEF validateParlay, Apart
  <2> QED BY <2>2, <2>5
<1>5. ASSUME ticket.kind = "teaser", NEW points \in TeaserPoints
      PROVE  validateTeaserPage(legs, points) <=> validateTeaser(legs, points)
  <2>1. Teasable(legs) /\ n <= MaxLegs BY <1>5 DEF RulesInv
  <2>2. \A leg \in legs : leg.market # "moneyline" /\ ~teaserSelectionConflict(legs \ {leg}, leg)
    BY <1>1, <2>1, NoConflict DEF Teasable
  <2>3. teaserOdds(n, points) # OffCard <=> n \in 2..6 /\ (points = 20 => n = 3) BY <1>2, CardHas
  <2>4. n \in 2..6 <=> n \in 2..MaxLegs BY <1>2, <1>3, <2>1
  <2> QED BY <2>2, <2>3, <2>4 DEF validateTeaserPage, validateTeaser
<1> QED BY <1>4, <1>5 DEF BuilderAgrees

\* A win is of the legs that won, at the price of their kind of ticket.
LEMMA WinIs ==
  ASSUME RulesInv, ticket.accepted, gradeResults(ticket, result).outcome = "win"
  PROVE  \E left \in SUBSET ticket.legs :
           /\ left # {}
           /\ ticket.kind = "straight" => gradeResults(ticket, result).odds = ticket.odds
           /\ ticket.kind = "parlay" => gradeResults(ticket, result).odds = priceLegs(left)
           /\ ticket.kind = "teaser" =>
                /\ gradeResults(ticket, result).odds = teaserOdds(Cardinality(left), ticket.points)
                /\ teaserOdds(Cardinality(left), ticket.points) # OffCard
<1> DEFINE grade == Grades(ticket, result)
           left  == {leg \in ticket.legs : grade[leg] = "win"}
           card  == teaserOdds(Cardinality(left), ticket.points)
           graded == gradeResults(ticket, result)
<1>1. ticket.kind \in {"straight", "parlay", "teaser"} BY DEF RulesInv, TicketType
<1>2. graded = IF "loss" \in Range(grade) THEN [outcome |-> "loss", odds |-> 0]
               ELSE IF "pending" \in Range(grade) THEN Undecided
               ELSE IF left = {} THEN Refund
               ELSE CASE ticket.kind = "straight" -> Won(ticket.odds)
                      [] ticket.kind = "parlay"   -> Won(priceLegs(left))
                      [] ticket.kind = "teaser"   -> IF card = OffCard THEN Refund ELSE Won(card)
  BY DEF gradeResults, Grades
<1>3. left \in SUBSET ticket.legs OBVIOUS
<1> HIDE DEF grade, left, card, graded
<1>4. graded.outcome = "win" BY DEF graded
<1>5. "loss" \notin Range(grade) /\ "pending" \notin Range(grade) /\ left # {}
  BY <1>2, <1>4 DEF Undecided, Refund
<1>6. graded = CASE ticket.kind = "straight" -> Won(ticket.odds)
                 [] ticket.kind = "parlay"   -> Won(priceLegs(left))
                 [] ticket.kind = "teaser"   -> IF card = OffCard THEN Refund ELSE Won(card)
  BY <1>2, <1>5
<1>7. /\ ticket.kind = "straight" => graded.odds = ticket.odds
      /\ ticket.kind = "parlay" => graded.odds = priceLegs(left)
      /\ ticket.kind = "teaser" => graded.odds = card /\ card # OffCard
  BY <1>4, <1>6 DEF Won, Refund
<1> QED BY <1>3, <1>5, <1>7 DEF graded, card

LEMMA SettlesAndHelps == RulesInv => AcceptedSettles /\ TeasingHelps
<1> SUFFICES ASSUME RulesInv, ticket.accepted PROVE AcceptedSettles /\ TeasingHelps
  BY DEF AcceptedSettles, TeasingHelps
<1> DEFINE graded == gradeResults(ticket, result)
<1>1. /\ ticket \in TicketType /\ ticket.kind \in {"straight", "parlay", "teaser"}
      /\ ticket.legs \in SUBSET TicketLeg /\ IsFiniteSet(ticket.legs) /\ Priced(ticket)
      /\ result \in [Game -> Known]
  BY DEF RulesInv, TicketType
<1>2. AcceptedSettles
  <2>1. SUFFICES ASSUME graded.outcome = "win" PROVE graded.odds # 0 BY DEF AcceptedSettles
  <2>2. PICK left \in SUBSET ticket.legs :
          /\ left # {}
          /\ ticket.kind = "straight" => graded.odds = ticket.odds
          /\ ticket.kind = "parlay" => graded.odds = priceLegs(left)
          /\ ticket.kind = "teaser" => /\ graded.odds = teaserOdds(Cardinality(left), ticket.points)
                                       /\ teaserOdds(Cardinality(left), ticket.points) # OffCard
    BY <2>1, WinIs
  <2> HIDE DEF graded
  <2>3. ticket.odds # 0 /\ (ticket.kind = "parlay" => priceLegs(left) # 0)
    <3>1. left \in (SUBSET ticket.legs) \ {{}} BY <2>2
    <3>2. ticket.odds # 0 BY <1>1 DEF Priced
    <3>3. ASSUME ticket.kind = "parlay" PROVE priceLegs(left) # 0
      <4>1. \A x \in (SUBSET ticket.legs) \ {{}} : priceLegs(x) # OutOfRange BY <1>1, <3>3 DEF Priced
      <4> QED BY <3>1, <4>1 DEF OutOfRange
    <3> QED BY <3>2, <3>3
  <2> QED BY <1>1, <2>2, <2>3 DEF OffCard
<1>3. ASSUME ticket.kind = "teaser", NEW leg \in ticket.legs,
             gradeLeg(leg, LineOf(leg), result[leg.game]) = "win"
      PROVE  gradeLeg(leg, adjustTeaserLine(leg, ticket.points), result[leg.game]) = "win"
  <2>1. leg \in TicketLeg /\ leg.game \in Game BY <1>1, LegIs
  <2> DEFINE r == result[leg.game]
             line == adjustTeaserLine(leg, ticket.points)
  <2>2. r \in Known BY <1>1, <2>1
  <2>3. leg.market # "moneyline" /\ ticket.points \in TeaserPoints BY <1>1, <1>3 DEF RulesInv, Teasable, Priced
  <2>4. r \in Score
    <3>1. SUFFICES ASSUME r = Unplayed \/ r = Cancelled PROVE FALSE BY <2>2, ScoreIs
    <3>2. gradeLeg(leg, LineOf(leg), r) \in {"pending", "void"} BY <3>1, RulesAssumption DEF gradeLeg
    <3> QED BY <1>3, <3>2
  <2>5. Margin(leg, LineOf(leg), r) \in Int /\ Margin(leg, LineOf(leg), r) > 0
    BY <1>3, <2>1, <2>4, LineIs, GradeByMargin
  <2>6. line \in Int /\ Margin(leg, line, r) = Margin(leg, LineOf(leg), r) + ticket.points
    BY <2>1, <2>3, <2>4, PointsHelp
  <2>7. ticket.points \in Nat BY <2>3 DEF TeaserPoints
  <2> HIDE DEF r, line
  <2>8. gradeLeg(leg, line, r) = "win" BY <2>1, <2>4, <2>5, <2>6, <2>7, GradeByMargin
  <2> QED BY <2>8 DEF r, line
<1>4. ASSUME ticket.kind = "teaser", graded.outcome = "win"
      PROVE  NoMore(americanMultiplier(graded.odds), americanMultiplier(ticket.odds))
  <2>1. PICK left \in SUBSET ticket.legs :
          /\ graded.odds = teaserOdds(Cardinality(left), ticket.points)
          /\ teaserOdds(Cardinality(left), ticket.points) # OffCard
    BY <1>4, WinIs
  <2> HIDE DEF graded
  <2>2. Cardinality(left) \in Nat /\ Cardinality(ticket.legs) \in Nat /\ Cardinality(left) <= Cardinality(ticket.legs)
    BY <1>1, FS_Subset, FS_CardinalityType
  <2>3. /\ ticket.points \in TeaserPoints /\ ticket.odds = teaserOdds(Cardinality(ticket.legs), ticket.points)
        /\ ticket.odds # OffCard
    BY <1>1, <1>4 DEF Priced, OffCard
  <2> QED BY <2>1, <2>2, <2>3, CardGrows
<1> QED BY <1>2, <1>3, <1>4 DEF TeasingHelps

LEMMA DecisionsStand == RulesInv => DecisionStands
<1> SUFFICES ASSUME RulesInv, ticket.accepted PROVE DecisionStands BY DEF DecisionStands
<1> DEFINE graded == gradeResults(ticket, result)
           coming == {g \in Game : result[g] = Unplayed}
<1>1. SUFFICES ASSUME graded # Undecided, NEW rest \in [coming -> Score \cup {Cancelled}]
      PROVE  gradeResults(ticket, [g \in Game |-> IF g \in coming THEN rest[g] ELSE result[g]]) = graded
  BY DEF DecisionStands
<1> DEFINE more == [g \in Game |-> IF g \in coming THEN rest[g] ELSE result[g]]
<1>2. ticket.legs \in SUBSET TicketLeg /\ result \in [Game -> Known] BY DEF RulesInv, TicketType
<1>3. more \in [Game -> Known] BY <1>2 DEF Known
<1>4. Grows(result, more) BY DEF Grows
<1> HIDE DEF more
<1>5. gradeResults(ticket, more) = graded BY <1>1, <1>2, <1>3, <1>4, DecisionKept
<1> QED BY <1>5 DEF more

LEMMA OppositesAgree == RulesInv => SidesAreOpposite
<1> SUFFICES ASSUME RulesInv, NEW leg \in TicketLeg
    PROVE LET one   == gradeLeg(leg, LineOf(leg), result[leg.game])
              other == gradeLeg(Against(leg), LineOf(Against(leg)), result[leg.game])
          IN  /\ one = "win" <=> other = "loss"
              /\ one \notin {"win", "loss"} => one = other
              /\ leg.market # "moneyline" => \A points \in TeaserPoints :
                   "loss" # gradeLeg(leg, adjustTeaserLine(leg, points), result[leg.game])
                     \/ "loss" # gradeLeg(Against(leg), adjustTeaserLine(Against(leg), points), result[leg.game])
  BY DEF SidesAreOpposite
<1>1. result[leg.game] \in Known BY LegIs DEF RulesInv
<1> QED BY <1>1, OppositeLegs

LEMMA ParlayIsTight == RulesInv => PricesAreTight
<1> SUFFICES ASSUME RulesInv, ticket.accepted, ticket.kind = "parlay" PROVE PricesAreTight
  BY DEF PricesAreTight
<1> DEFINE legs == ticket.legs
<1>1. legs \in SUBSET TicketLeg /\ IsFiniteSet(legs) /\ Priced(ticket) BY DEF RulesInv, TicketType
<1>2. legs # {} /\ ticket.odds # OutOfRange /\ ticket.odds = priceLegs(legs) BY <1>1 DEF Priced, OutOfRange
<1>3. [leg \in legs |-> Exact(leg, legs)] = Multipliers(legs)
  <2>1. ASSUME NEW leg \in legs PROVE Exact(leg, legs) = americanMultiplier(effectiveLegOdds(leg, legs))
    <3>1. leg.market \in {"spread", "moneyline", "total"} BY <1>1, LegIs
    <3>2. CASE leg.market = "spread" BY <3>2 DEF Exact, effectiveLegOdds
    <3>3. CASE leg.market = "moneyline" BY <3>3 DEF Exact, effectiveLegOdds
    <3>4. CASE leg.market = "total" BY <3>4 DEF Exact, effectiveLegOdds
    <3> QED BY <3>1, <3>2, <3>3, <3>4
  <2> QED BY <2>1 DEF Multipliers
<1> DEFINE x == ProductOfLegs(legs)
<1>4. Pays(x) /\ ticket.odds = conservativeAmericanOdds(x) BY <1>1, <1>2, LegsPay
<1>5. FoldFunction(multiply, [n |-> 1, d |-> 1], [leg \in legs |-> Exact(leg, legs)]) = x
  BY <1>3 DEF ProductOfLegs
<1> HIDE DEF x
<1>6. NoMore(americanMultiplier(ticket.odds), x) /\ ~NoMore(americanMultiplier(Better(ticket.odds)), x)
  BY <1>2, <1>4, PriceIsTight DEF Pays
<1> QED BY <1>5, <1>6 DEF PricesAreTight

\* WagerRules: whatever legs are chosen, accepted and played, builder and server agree,
\* refunds leave a ticket that has a price, a decision stands whatever is still to
\* come, opposite legs never both win, points only help, and a parlay is priced to
\* the last point of odds in the house's favour.
THEOREM TicketRulesAlwaysHold == RulesSpec => []TicketRulesHold
<1>1. RulesInv => TicketRulesHold
  BY BuildersAgree, SettlesAndHelps, DecisionsStand, OppositesAgree, ParlayIsTight DEF TicketRulesHold
<1>2. QED BY <1>1, RulesStart, RulesKeep, PTL DEF RulesSpec
=============================================================================
