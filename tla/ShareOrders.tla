------------------------------ MODULE ShareOrders ------------------------------
(***************************************************************************)
(* The commissioner's page for share orders against the pool: an order is  *)
(* quoted, reviewed and executed under keys of its own; an order on the    *)
(* books is reversed under a key that its retries keep.                    *)
(*                                                                         *)
(* A call may be slow: the page gives up on it and the pool handles it     *)
(* later, after newer ones.  The price is the version it was quoted at (no *)
(* two versions quote alike, SeasonLedger has the real one); amounts are   *)
(* shares of one member.                                                   *)
(***************************************************************************)
EXTENDS Sequences, Totals

CONSTANTS
  Amount,    \* what an order may be for
  Usual,     \* the amount the editor starts with
  Reason,    \* reasons for a reversal
  NotSent,     \* no processed_command row
  MaxOrderVersion, MaxOrderKeys, MaxSends

VARIABLES
  books,     \* the season's version, whether it and the member are active, its orders
  answered,  \* the processed_command row of each key
  wire,      \* requests the pool has yet to handle
  form,      \* OrderState
  reversal,  \* ReversalState
  view,      \* the ReadPoolView on the screen
  reloads,   \* reversals done, whose view is being loaded
  made,      \* keys and requests so far
  refused    \* reviews the commissioner was told are refused (history)

ordersVars == <<books, answered, wire, form, reversal, view, reloads, made, refused>>

-----------------------------------------------------------------------------
(* admin-orders-lifecycle.ts *)

Reversed(orders)  == {orders[i].reverses : i \in DOMAIN orders} \ {0}

\* Fault: an order reversed already is offered again.
OffersTwice(v) == {i \in DOMAIN v.orders : v.active /\ v.orders[i].reverses = 0}

\* projectAdminOrders: what the page offers for reversal.
reversible(v) ==
  {i \in DOMAIN v.orders : v.active /\ v.orders[i].reverses = 0 /\ i \notin Reversed(v.orders)}

\* groupOrdersByMember: a reversal's row takes back what its order added.
netShares(orders) == Total([i \in DOMAIN orders |-> orders[i].shares], Len(orders))
netValue(orders)  == Total([i \in DOMAIN orders |-> orders[i].shares * orders[i].price], Len(orders))

-----------------------------------------------------------------------------
(* Keys and requests *)

Fresh == made.keys + 1
Body  == [kind : {"quote", "execute", "reverse"}, key : Nat, amount : Amount \cup {0},
          version : Nat, order : Nat, reason : Reason \cup {NotSent}, review : Nat]

Row   == [body : Body, version : Nat]

ASSUME OrdersAssumption ==
  /\ Amount \subseteq Nat \ {0} /\ Usual \in Amount /\ NotSent \notin Row
  /\ {MaxOrderVersion, MaxOrderKeys, MaxSends} \subseteq Nat /\ MaxOrderKeys > 0

quoteBody(p) ==
  [kind |-> "quote", key |-> p.quoteKey, amount |-> p.amount, version |-> 0, order |-> 0,
   reason |-> NotSent, review |-> p.quoteKey]

buildShareOrderExecution(p) ==
  [kind |-> "execute", key |-> p.mutationKey, amount |-> p.amount, version |-> p.quote, order |-> 0,
   reason |-> NotSent, review |-> p.quoteKey]

reverseBody(r) ==
  [kind |-> "reverse", key |-> r.key, amount |-> 0, version |-> 0, order |-> r.order,
   reason |-> r.reason, review |-> 0]

Post(body) ==
  /\ made.sends < MaxSends
  /\ wire' = wire \cup {[n |-> made.sends + 1, body |-> body]}

\* Fault: a lost answer is taken for a refusal.
LostIsTerminal(answer) == IF answer = "lost" THEN "terminal" ELSE answer

commandOutcome(answer) == IF answer = "lost" THEN "retryable" ELSE answer

-----------------------------------------------------------------------------
(* The page.  An order under review hides a reversal, and that the form.   *)

Screen == IF form.tag \in {"reviewing", "submitting", "gone"} THEN form.tag
          ELSE IF reversal.tag # "idle" THEN "reversal" ELSE "form"

NotReversing == [tag |-> "idle", order |-> 0, reason |-> NotSent, key |-> 0, awaits |-> 0]

Editing(amount, key) ==
  [tag |-> "editing", amount |-> amount, quoteKey |-> key, quote |-> 0, mutationKey |-> 0,
   awaits |-> 0]

\* Fault: the quote's key outlives the quote.
KeepsQuoteKey(amount) == form' = Editing(amount, form.quoteKey) /\ UNCHANGED made

\* freshEditor: whatever is edited is quoted under a new key.
freshEditor(amount) ==
  /\ made.keys < MaxOrderKeys
  /\ form' = Editing(amount, Fresh) /\ made' = [made EXCEPT !.keys = Fresh]

\* The page opens on the pool's view; no editor without an active season.
OpenPage ==
  /\ form.tag = "gone" /\ books.active
  /\ view' = [orders |-> books.orders, active |-> books.active]
  /\ freshEditor(Usual)
  /\ UNCHANGED <<books, answered, wire, reversal, reloads, refused>>

EditOrder ==
  /\ Screen = "form" /\ form.tag = "editing" /\ view.active
  /\ \E a \in Amount \ {form.amount} : freshEditor(a)
  /\ UNCHANGED <<books, answered, wire, reversal, view, reloads, refused>>

quoteOrder ==
  /\ Screen = "form" /\ form.tag = "editing" /\ view.active
  /\ Post(quoteBody(form))
  /\ form' = [form EXCEPT !.tag = "quoting", !.awaits = made.sends + 1]
  /\ made' = [made EXCEPT !.sends = @ + 1]
  /\ UNCHANGED <<books, answered, reversal, view, reloads, refused>>

execute ==
  /\ Screen = "reviewing"
  /\ Post(buildShareOrderExecution(form))
  /\ form' = [form EXCEPT !.tag = "submitting", !.awaits = made.sends + 1]
  /\ made' = [made EXCEPT !.sends = @ + 1]
  /\ UNCHANGED <<books, answered, reversal, view, reloads, refused>>

\* "Edit order".
returnToEditor ==
  /\ Screen = "reviewing" /\ freshEditor(form.amount)
  /\ UNCHANGED <<books, answered, wire, reversal, view, reloads, refused>>

\* Also while a quote is awaited.
OpenReversal ==
  /\ Screen = "form" /\ made.keys < MaxOrderKeys
  /\ \E i \in reversible(view), reason \in Reason :
       reversal' = [tag |-> "reviewing", order |-> i, reason |-> reason, key |-> Fresh, awaits |-> 0]
  /\ made' = [made EXCEPT !.keys = Fresh]
  /\ UNCHANGED <<books, answered, wire, form, view, reloads, refused>>

\* The reason may be edited before a retry too; or the reversal is cancelled.
EditReversal ==
  /\ Screen = "reversal" /\ reversal.tag = "reviewing"
  /\ \/ \E reason \in Reason \ {reversal.reason} : reversal' = [reversal EXCEPT !.reason = reason]
     \/ reversal' = NotReversing
  /\ UNCHANGED <<books, answered, wire, form, view, reloads, made, refused>>

reverse ==
  /\ Screen = "reversal" /\ reversal.tag = "reviewing"
  /\ Post(reverseBody(reversal))
  /\ reversal' = [reversal EXCEPT !.tag = "submitting", !.awaits = made.sends + 1]
  /\ made' = [made EXCEPT !.sends = @ + 1]
  /\ UNCHANGED <<books, answered, form, view, reloads, refused>>

\* The view is loaded after a reversal; if that fails, the form comes back with the
\* frozen reversal, whatever it shows by then.
Reload ==
  \E frozen \in reloads :
    /\ reloads' = reloads \ {frozen}
    /\ \/ /\ view' = [orders |-> books.orders, active |-> books.active]
          /\ UNCHANGED reversal
       \/ reversal' = frozen /\ UNCHANGED view
    /\ UNCHANGED <<books, answered, wire, form, made, refused>>

-----------------------------------------------------------------------------
(* An answer, or the lack of one, reaches the page.                        *)

QuoteAnswered(answer, version) ==
  /\ form.tag = "quoting"
  /\ IF commandOutcome(answer) = "ok"
       THEN /\ made.keys < MaxOrderKeys
            /\ form' = [form EXCEPT !.tag = "reviewing", !.quote = version, !.mutationKey = Fresh,
                                    !.awaits = 0]
            /\ made' = [made EXCEPT !.keys = Fresh]
       ELSE form' = [form EXCEPT !.tag = "editing", !.awaits = 0] /\ UNCHANGED made
  /\ UNCHANGED <<reversal, reloads, refused>>

\* On success the page is left: whatever else it awaited is dropped.
ExecuteAnswered(answer) ==
  /\ form.tag = "submitting"
  /\ CASE commandOutcome(answer) = "ok" ->
            /\ form' = [form EXCEPT !.tag = "gone", !.awaits = 0]
            /\ reversal' = NotReversing /\ reloads' = {}
            /\ UNCHANGED <<made, refused>>
       [] commandOutcome(answer) \in {"stale", "terminal"} ->
            /\ freshEditor(form.amount)
            /\ refused' = refused \cup {form.quoteKey}
            /\ UNCHANGED <<reversal, reloads>>
       [] OTHER ->
            /\ form' = [form EXCEPT !.tag = "reviewing", !.awaits = 0]
            /\ UNCHANGED <<made, refused, reversal, reloads>>

\* retryReversalState: after any error the reversal and its key are kept.
ReverseAnswered(answer) ==
  LET frozen == [reversal EXCEPT !.tag = "reviewing", !.awaits = 0]
  IN  /\ IF commandOutcome(answer) = "ok"
           THEN reversal' = NotReversing /\ reloads' = reloads \cup {frozen}
           ELSE reversal' = frozen /\ UNCHANGED reloads
      /\ UNCHANGED <<form, made, refused>>

PageHears(n, answer, version) ==
  \/ form.awaits = n /\ QuoteAnswered(answer, version)
  \/ form.awaits = n /\ ExecuteAnswered(answer)
  \/ reversal.awaits = n /\ ReverseAnswered(answer)

GiveUp ==
  /\ \E n \in {form.awaits, reversal.awaits} \ {0} : PageHears(n, "lost", 0)
  /\ UNCHANGED <<books, answered, wire, view>>

-----------------------------------------------------------------------------
(* The pool *)

Move(orders) == books' = [books EXCEPT !.version = @ + 1, !.orders = orders]

\* Fault: a quote is honoured whatever has happened since.
NeverStale(m) == FALSE

OrderQuoteStale(m) == m.version # books.version

applyOrder(m) ==
  CASE ~books.member \/ ~books.active -> "terminal"
    [] OrderQuoteStale(m)             -> "stale"
    [] OTHER                          -> "ok"

\* Fault: an order is reversed as often as it is asked for.
ReversesAgain(m) == IF ~books.active THEN "terminal" ELSE "ok"

reverseOrder(m) ==
  IF m.order \in Reversed(books.orders) \/ ~books.active THEN "terminal" ELSE "ok"

Ordered(m) ==
  Append(books.orders, [shares |-> m.amount, price |-> books.version, reverses |-> 0, review |-> m.review])

\* Fault: the shares are taken back at today's price.
TakesBackAtCurrentPrice(m) ==
  Append(books.orders, [shares |-> -books.orders[m.order].shares, price |-> books.version,
                        reverses |-> m.order, review |-> 0])

TakenBack(m) ==
  Append(books.orders, [shares |-> -books.orders[m.order].shares, price |-> books.orders[m.order].price,
                        reverses |-> m.order, review |-> 0])

\* What handling m answers and does; a refusal leaves no row.
Process(m, answer) ==
  /\ answered' = [answered EXCEPT ![m.key] = [body |-> m, version |-> books.version]]
  /\ CASE m.kind = "quote"   -> UNCHANGED books
       [] m.kind = "execute" -> books.version < MaxOrderVersion /\ Move(Ordered(m))
       [] m.kind = "reverse" -> books.version < MaxOrderVersion /\ Move(TakenBack(m))

\* A reversal is also refused when the member's shares are locked in wagers.
Fate(m) ==
  CASE m.kind = "quote"   -> {IF books.member THEN "ok" ELSE "terminal"}
    [] m.kind = "execute" -> {applyOrder(m)}
    [] m.kind = "reverse" -> {reverseOrder(m), "terminal"}

Handle(w, heard) ==
  LET m == w.body
      Hear(answer, version) ==
        IF heard THEN PageHears(w.n, answer, version)
                 ELSE UNCHANGED <<form, reversal, reloads, made, refused>>
  IN  /\ heard => w.n \in {form.awaits, reversal.awaits}
      /\ wire' = wire \ {w}
      /\ UNCHANGED view
      /\ IF answered[m.key] # NotSent
           THEN /\ UNCHANGED <<books, answered>>
                /\ Hear(IF answered[m.key].body = m THEN "ok" ELSE "terminal", answered[m.key].version)
           ELSE \E answer \in Fate(m) :
                  /\ IF answer = "ok" THEN Process(m, answer) ELSE UNCHANGED <<books, answered>>
                  /\ Hear(answer, books.version)

\* Any other command of the pool moves the version: one that suspends or restores the
\* member, or closes the season, like every one that does neither.
OtherCommand ==
  /\ books.version < MaxOrderVersion /\ books.active
  /\ \E member, active \in BOOLEAN :
       /\ member \/ active
       /\ books' = [books EXCEPT !.version = @ + 1, !.member = member, !.active = active]
  /\ UNCHANGED <<answered, wire, form, reversal, view, reloads, made, refused>>

-----------------------------------------------------------------------------
OrdersInit ==
  /\ books = [version |-> 1, active |-> TRUE, member |-> TRUE, orders |-> <<>>]
  /\ answered = [k \in 1..MaxOrderKeys |-> NotSent]
  /\ wire = {} /\ reloads = {} /\ refused = {}
  /\ form = Editing(Usual, 1) /\ made = [keys |-> 1, sends |-> 0]
  /\ reversal = NotReversing
  /\ view = [orders |-> <<>>, active |-> TRUE]

OrdersNext ==
  \/ OpenPage \/ EditOrder \/ quoteOrder \/ execute \/ returnToEditor
  \/ OpenReversal \/ EditReversal \/ reverse \/ Reload
  \/ GiveUp \/ OtherCommand
  \/ \E w \in wire, heard \in BOOLEAN : Handle(w, heard)

OrdersSpec == OrdersInit /\ [][OrdersNext]_ordersVars

-----------------------------------------------------------------------------
(* Properties *)

Originals == {i \in DOMAIN books.orders : books.orders[i].reverses = 0}
Standing  == Originals \ Reversed(books.orders)

\* An order that was reviewed is issued at most once, under whatever keys it was sent,
\* and no two orders are issued on one quote; if the page was left for it, it was
\* issued; if it was refused, it never is, however slow a copy of it arrives.
IssuedAsReviewed ==
  /\ \A i, j \in Originals :
       i # j => /\ books.orders[i].review # books.orders[j].review
                /\ books.orders[i].price # books.orders[j].price
  /\ \A i \in Originals : books.orders[i].review \notin refused
  /\ form.tag = "gone" => \E i \in Originals : /\ books.orders[i].review = form.quoteKey
                                               /\ books.orders[i].shares = form.amount
                                               /\ books.orders[i].price = form.quote
  /\ form.tag = "reviewing" => form.quoteKey \notin refused

\* A reversal takes back an order that was issued, all of it and at the price it was sold
\* at; and no order is taken back twice, under whatever keys its reversal was sent.
ReversedOnce ==
  \A i \in DOMAIN books.orders \ Originals :
    LET back == books.orders[i]
    IN  /\ back.reverses \in Originals
        /\ back.shares = -books.orders[back.reverses].shares
        /\ back.price = books.orders[back.reverses].price
        /\ \A j \in DOMAIN books.orders \ Originals :
             i # j => back.reverses # books.orders[j].reverses

\* The totals the page shows are those of the orders that stand, at the prices they
\* were sold at.
TotalsStand ==
  LET OfStanding(x) == Total([i \in DOMAIN books.orders |-> IF i \in Standing THEN x[i] ELSE 0],
                             Len(books.orders))
  IN  /\ netShares(books.orders)
           = OfStanding([i \in DOMAIN books.orders |-> books.orders[i].shares])
      /\ netValue(books.orders)
           = OfStanding([i \in DOMAIN books.orders |-> books.orders[i].shares * books.orders[i].price])

\* What the page does not offer for reversal, in a season it knows open, is not left
\* standing: of the orders it shows, it offers those that stood when it looked.
OffersWhatStands ==
  /\ reversible(view) \subseteq DOMAIN books.orders
  /\ view.orders = books.orders /\ books.active /\ view.active => reversible(view) = Standing

OrdersAreAsReviewed == IssuedAsReviewed /\ ReversedOnce /\ TotalsStand /\ OffersWhatStands
=============================================================================
