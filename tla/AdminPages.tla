------------------------------ MODULE AdminPages ------------------------------
(***************************************************************************)
(* The commissioner's settings, members and season-history pages against   *)
(* the pool.  Each page sends its commands through one FrozenAdminCommand  *)
(* (admin-command.ts) and reloads the pool's view after one that           *)
(* succeeded; suspensions and transfers are reviewed first.                *)
(*                                                                         *)
(* A call may be slow: the page gives up on it, or is left, and the pool   *)
(* handles it later.  The commissioner has other pages open elsewhere.     *)
(***************************************************************************)
EXTENDS Naturals, FiniteSets

CONSTANTS
  Member,       \* the members but for the commissioner
  Section,      \* sections of texts: the identity of a save holds its text, except that
                \* of a name and of a note on a closed season
  Text, Unset,  \* what a section can say, and a section that says nothing
  Nil,
  MaxCommands

\* What a section or a draft can hold, what a command can be about, and a command.
Words    == Text \cup {Unset, Nil}
Subject  == Section \cup Member \cup {"open", "closed"}
Identity == [do : {"set", "signups", "annotate", "restore", "suspend", "transfer"},
             on : Subject, text : Words]
Request  == [identity : Identity, text : Words, key : 1..MaxCommands, turn : 0..MaxCommands]

ASSUME PagesAssumption ==
  /\ {"name", "note"} \subseteq Section /\ "signups" \notin Section
  /\ Member \cap {"name", "note"} = {} /\ Unset \notin Text /\ MaxCommands \in Nat
  /\ Nil \notin Identity /\ Nil \notin Request

VARIABLES
  pool,      \* settings, the suspended members, the commissioner (Nil: this one)
  taken,     \* the processed_command row of each key
  calls,     \* requests the pool has yet to handle
  frozen,    \* the open page's FrozenAdminCommand
  screen,    \* the open page
  fetches,   \* reads of the view the page awaits
  minted,    \* keys so far
  typed,     \* per section: the draft that nothing sent or under way replaces (history)
  turn,      \* minted when the commissioner last did more than press the same button (history)
  believed   \* reviews the commissioner was shown as done (history)

adminVars == <<pool, taken, calls, frozen, screen, fetches, minted, typed, turn, believed>>

-----------------------------------------------------------------------------
(* FrozenAdminCommand *)

Thawed   == [identity |-> Nil, body |-> Nil, inFlight |-> FALSE]
NoReview == [tag |-> "idle", do |-> "none", on |-> Nil, key |-> 0]

\* Fault: an edit leaves the command as it is.
EditKeeps == frozen

retire == Thawed

\* Fault: whatever is frozen is sent.
FirstFrozen(identity) == frozen.identity # Nil

Retained(identity) == frozen.identity = identity

\* Sends the frozen body if it has this identity, and freezes a new one otherwise.  (What
\* a review sends was begun with the review.)
run(identity, text, key) ==
  /\ ~frozen.inFlight
  /\ turn' = IF Retained(identity) \/ frozen.identity = Nil \/ key <= minted THEN turn ELSE minted
  /\ LET body == IF Retained(identity) THEN frozen.body
                 ELSE [identity |-> identity, text |-> text, key |-> key, turn |-> turn']
     IN  /\ body.key <= MaxCommands
         /\ frozen' = [identity |-> identity, body |-> body, inFlight |-> TRUE]
         /\ calls' = calls \cup {body}
         /\ minted' = IF body.key > minted THEN body.key ELSE minted
  /\ UNCHANGED <<pool, taken, fetches, typed, believed>>

\* Fault: a command is dropped by an error too.
DroppedByError == Thawed

KeptByError == [frozen EXCEPT !.inFlight = FALSE]

-----------------------------------------------------------------------------
(* The settings page *)

identityOf(do, on, text) ==
  [do |-> do, on |-> on, text |-> IF on \in {"name", "note"} THEN Nil ELSE text]

Settings == Section \ {"note"}

\* The page a section is typed on.
Home(s) == IF s \in Settings THEN "settings" ELSE "history"

Serves(tab) ==
  /\ screen.tab = tab /\ screen.view # Nil /\ ~screen.broken
  /\ screen.view.commissioner = Nil

NextSignups == IF screen.view.signups = "open" THEN "closed" ELSE "open"

\* A read of the view: the sections it fills in, and the review that ends with it.
Fetch(of, review) == [of |-> of, review |-> review, seen |-> Nil]

Type(s, t) ==
  /\ Serves(Home(s)) /\ ~frozen.inFlight /\ t # screen.draft[s]
  /\ screen' = [screen EXCEPT !.draft[s] = t]
  /\ frozen' = retire
  /\ typed' = [typed EXCEPT ![s] = IF \E f \in fetches : s \in f.of THEN Nil ELSE t]
  /\ turn' = minted
  /\ UNCHANGED <<pool, taken, calls, fetches, minted, believed>>

Rename ==
  /\ Serves("settings")
  /\ run(identityOf("set", "name", Nil), screen.draft["name"], minted + 1)
  /\ UNCHANGED screen

SaveText(s) ==
  /\ Serves("settings") /\ s \in Settings \ {"name"} /\ screen.draft[s] # Unset
  /\ run(identityOf("set", s, screen.draft[s]), screen.draft[s], minted + 1)
  /\ UNCHANGED screen

ClearText(s) ==
  /\ Serves("settings") /\ s \in Settings \ {"name"} /\ screen.view.setting[s] # Unset
  /\ run(identityOf("set", s, Unset), Unset, minted + 1)
  /\ UNCHANGED screen

ToggleSignups ==
  /\ Serves("settings")
  /\ run(identityOf("signups", NextSignups, Nil), Nil, minted + 1)
  /\ UNCHANGED screen

\* Fault: a save's reload fills every section in.
HydratesAll(identity) == Settings

\* The section a save's reload fills in.
Saved(identity) == Settings \cap {identity.on}

(* The history page *)

annotate ==
  /\ Serves("history") /\ screen.draft["note"] # Nil
  /\ run(identityOf("annotate", "note", Nil), screen.draft["note"], minted + 1)
  /\ UNCHANGED screen

-----------------------------------------------------------------------------
(* The members page *)

Restore(m) ==
  /\ Serves("members") /\ screen.review.tag = "idle" /\ m \in screen.view.suspended
  /\ run(identityOf("restore", m, Nil), Nil, minted + 1)
  /\ UNCHANGED screen

beginConfirmation(m, do) ==
  /\ Serves("members") /\ ~frozen.inFlight /\ screen.review.tag = "idle"
  /\ m \notin screen.view.suspended /\ minted < MaxCommands
  /\ screen' = [screen EXCEPT !.review = [tag |-> "reviewing", do |-> do, on |-> m, key |-> minted + 1]]
  /\ minted' = minted + 1 /\ turn' = minted
  /\ UNCHANGED <<pool, taken, calls, frozen, fetches, typed, believed>>

confirmMemberAction ==
  /\ Serves("members") /\ screen.review.tag = "reviewing"
  /\ screen' = [screen EXCEPT !.review.tag = "submitting"]
  /\ LET r == screen.review IN run(identityOf(r.do, r.on, Nil), Nil, r.key)

\* Fault: the next review finds the command of this one.
CancelKeeps == frozen

Abandoned == retire

cancelConfirmation ==
  /\ Serves("members") /\ screen.review.tag = "reviewing"
  /\ screen' = [screen EXCEPT !.review = NoReview]
  /\ frozen' = Abandoned /\ turn' = minted
  /\ UNCHANGED <<pool, taken, calls, fetches, minted, typed, believed>>

-----------------------------------------------------------------------------
(* Opening a page, and what reaches it *)

Blank == [s \in Section |-> Nil]

\* Leaving a page forgets what it held; what it sent may still arrive.
OpenPageOf(tab) ==
  /\ screen' = [tab |-> tab, view |-> Nil, broken |-> FALSE, draft |-> Blank, review |-> NoReview]
  /\ frozen' = Thawed /\ fetches' = {Fetch(Settings, 0)}
  /\ typed' = Blank /\ turn' = minted
  /\ UNCHANGED <<pool, taken, calls, minted, believed>>

\* A fetch reads the pool some time before its answer is shown.
ReadPool(f) ==
  /\ f.seen = Nil
  /\ fetches' = (fetches \ {f}) \cup {[f EXCEPT !.seen = pool]}
  /\ UNCHANGED <<pool, taken, calls, frozen, screen, minted, typed, turn, believed>>

\* A review that was submitted ends with the fetch after it, even one that fails.
Reviewed(f) == IF f.review # 0 THEN NoReview ELSE screen.review

FilledIn(f) == [s \in Section |-> IF s \in f.of THEN f.seen.setting[s] ELSE screen.draft[s]]

Refreshed(f) ==
  /\ f.seen # Nil /\ fetches' = fetches \ {f}
  /\ screen' = [screen EXCEPT
       !.view = f.seen, !.review = Reviewed(f), !.draft = FilledIn(f)]
  /\ UNCHANGED <<pool, taken, calls, frozen, minted, typed, turn, believed>>

LoadFailsOn(f) ==
  /\ fetches' = fetches \ {f}
  /\ screen' = [screen EXCEPT !.broken = TRUE, !.review = Reviewed(f)]
  /\ UNCHANGED <<pool, taken, calls, frozen, minted, typed, turn, believed>>

\* A command that succeeded is retired, and the view is fetched again; the members page
\* forgets an earlier failure to do so, the history page the note.
Succeeds ==
  LET i == frozen.identity
      r == screen.review
  IN  /\ frozen' = Thawed /\ turn' = minted
      /\ fetches' = fetches \cup {Fetch(Saved(i), r.key)}
      /\ typed' = [s \in Section |-> IF s = i.on THEN Nil ELSE typed[s]]
      /\ believed' = believed \cup ({<<r.key, r.do, r.on>>} \ {<<0, "none", Nil>>})
      /\ screen' = [screen EXCEPT !.broken = screen.broken /\ screen.tab # "members",
                                       !.draft["note"] = Nil]

\* A review that was submitted can be submitted again.
StillOpen == IF screen.review.tag = "submitting" THEN "reviewing" ELSE screen.review.tag

FailsToAnswer ==
  /\ frozen' = KeptByError
  /\ screen' = [screen EXCEPT !.review.tag = StillOpen]
  /\ UNCHANGED <<fetches, typed, turn, believed>>

GivesUpOn ==
  /\ frozen.inFlight /\ FailsToAnswer
  /\ UNCHANGED <<pool, taken, calls, minted>>

-----------------------------------------------------------------------------
(* The pool *)

Effect(i, text) ==
  CASE i.do = "set"      -> [pool EXCEPT !.setting[i.on] = text]
    [] i.do = "annotate" -> [pool EXCEPT !.notes = @ \cup {text}]
    [] i.do = "signups"  -> [pool EXCEPT !.signups = i.on]
    [] i.do = "suspend"  -> [pool EXCEPT !.suspended = @ \cup {i.on}]
    [] i.do = "restore"  -> [pool EXCEPT !.suspended = @ \ {i.on}]
    [] i.do = "transfer" -> [pool EXCEPT !.commissioner = i.on]

\* Only the commissioner is obeyed, and only an active member can succeed them.
Obeyed(i) == pool.commissioner = Nil /\ (i.do = "transfer" => i.on \notin pool.suspended)

\* A repeated key is answered from its row.  A command may be refused for other
\* reasons too: a sign-in that is not recent, a text that is not valid.
TakeCommand(b, heard) ==
  /\ calls' = calls \ {b}
  /\ heard => frozen.inFlight /\ frozen.body = b
  /\ \E ok \in BOOLEAN :
       /\ taken[b.key] # Nil => ok
       /\ IF ok /\ taken[b.key] = Nil
            THEN /\ Obeyed(b.identity)
                 /\ pool' = Effect(b.identity, b.text)
                 /\ taken' = [taken EXCEPT ![b.key] = b]
            ELSE UNCHANGED <<pool, taken>>
       /\ IF ~heard THEN UNCHANGED <<frozen, screen, fetches, typed, turn, believed>>
          ELSE IF ok THEN Succeeds ELSE FailsToAnswer
  /\ UNCHANGED minted

\* The commissioner of the day, on another page.
ElsewhereChanged ==
  /\ minted < MaxCommands /\ minted' = minted + 1
  /\ \/ \E m \in Member :
          pool' = [pool EXCEPT !.suspended = IF m \in pool.suspended
                                                 THEN pool.suspended \ {m}
                                                 ELSE pool.suspended \cup {m}]
     \/ \E s \in Settings, t \in Text : pool' = [pool EXCEPT !.setting[s] = t]
  /\ UNCHANGED <<taken, calls, frozen, screen, fetches, typed, turn, believed>>

-----------------------------------------------------------------------------
AdminInit ==
  /\ pool = [setting |-> [s \in Settings |-> Unset], notes |-> {}, signups |-> "open",
             suspended |-> {}, commissioner |-> Nil]
  /\ taken = [k \in 1..MaxCommands |-> Nil]
  /\ calls = {} /\ frozen = Thawed /\ fetches = {} /\ minted = 0 /\ turn = 0 /\ believed = {}
  /\ screen = [tab |-> "none", view |-> Nil, broken |-> FALSE, draft |-> Blank, review |-> NoReview]
  /\ typed = Blank

AdminNext ==
  \/ \E tab \in {"settings", "members", "history"} : OpenPageOf(tab)
  \/ \E s \in Section : SaveText(s) \/ ClearText(s) \/ \E t \in Text : Type(s, t)
  \/ Rename \/ ToggleSignups \/ annotate
  \/ \E m \in Member : Restore(m) \/ \E do \in {"suspend", "transfer"} : beginConfirmation(m, do)
  \/ confirmMemberAction \/ cancelConfirmation \/ GivesUpOn
  \/ \E f \in fetches : ReadPool(f) \/ Refreshed(f) \/ LoadFailsOn(f)
  \/ \E b \in calls, heard \in BOOLEAN : TakeCommand(b, heard)
  \/ ElsewhereChanged

AdminSpec == AdminInit /\ [][AdminNext]_adminVars

-----------------------------------------------------------------------------
(* Properties *)

Taken == {k \in 1..MaxCommands : taken[k] # Nil}

\* However often a button is pressed after errors, with nothing else done between, its
\* command is executed once.
PressedOnce ==
  \A k, l \in Taken : taken[k].identity = taken[l].identity /\ taken[k].turn = taken[l].turn => k = l

\* A suspension or a transfer that the commissioner was shown as done was done: that one,
\* and for this review.
ReviewsAreDone ==
  \A b \in believed : b[1] \in Taken /\ taken[b[1]].identity = identityOf(b[2], b[3], Nil)

\* Saving one section leaves the draft of every other as it was typed, but for the
\* password, which any save clears and no Section stands for; and a name or a note is
\* sent as it stands on the page.
DraftsSurvive ==
  /\ \A s \in Section : typed[s] # Nil => screen.draft[s] = typed[s]
  /\ \A s \in {"name", "note"} :
       frozen.identity # Nil /\ frozen.identity.on = s /\ typed[s] # Nil
         => frozen.body.text = screen.draft[s]

PagesAreTrue == PressedOnce /\ ReviewsAreDone /\ DraftsSurvive
=============================================================================
