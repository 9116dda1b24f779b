-------------------------- MODULE SettlementMonitor --------------------------
(***************************************************************************)
(* The watch over settlement: worker/settlement-alert-cron.ts sweeps the   *)
(* ready pools page by page, durable/overdue-settlements.ts counts a       *)
(* pool's wagers that are open although their games ended long ago, and    *)
(* services/operational-alerts.ts mails the operators, once per cooldown.  *)
(* The sweeps of backup-cron.ts and season-closure-reminder-cron.ts move   *)
(* their cursors the same way.                                             *)
(*                                                                         *)
(* Runs overlap (the trigger does not wait for the run before), any call   *)
(* fails, a mail is lost, and the Worker stops between any two steps.      *)
(* Pools are numbered in the order of their ids; each has one wager.       *)
(* Times are remaining durations.                                          *)
(***************************************************************************)
EXTENDS Naturals, FiniteSets, FiniteSetsExt

CONSTANTS
  NPools, PageSize,
  Game, Legs,       \* the games, and those the wager of each pool rides on
  Sweep,            \* the runs of the cron that may overlap
  Grace, Cooldown

Pool == 1..NPools

ASSUME MonitorAssumption ==
  /\ {NPools, PageSize, Grace, Cooldown} \subseteq Nat \ {0}
  /\ Legs \in [Pool -> SUBSET Game]

VARIABLES
  ready,     \* the pools the registry lists
  wager,     \* the status of each pool's wager
  final,     \* D1: what is left of the grace period since a game was seen final
  cursor,    \* the last pool of the last sweep, 0 before the first
  sweep,     \* the runs in progress
  throttle,  \* what is left of the cooldown, per pool
  stopped,   \* the Worker has stopped since a run last came to its end
  warned     \* the pools whose overdue wager the operators have been mailed about

monitorVars == <<ready, wager, final, cursor, sweep, throttle, stopped, warned>>

Unseen  == Grace + 1       \* no final result yet
Resting == [pc |-> "idle", todo |-> {}, last |-> 0, late |-> FALSE]

-----------------------------------------------------------------------------
(* Around the monitor *)

Open(p) == /\ wager[p] = "none" /\ Legs[p] # {}
           /\ \A g \in Legs[p] : final[g] = Unseen
           /\ wager' = [wager EXCEPT ![p] = "open"]

Settle(p) == /\ wager[p] = "open" /\ \A g \in Legs[p] : final[g] # Unseen
             /\ wager' = [wager EXCEPT ![p] = "settled"]

\* A corrected result reopens a wager whose games are no longer all decided.
Reopen(p) == wager[p] = "settled" /\ wager' = [wager EXCEPT ![p] = "open"]

PoolMoves(p) ==
  \/ /\ Open(p) \/ Settle(p) \/ Reopen(p)
     /\ warned' = warned \ {p}
     /\ UNCHANGED <<ready, final, cursor, sweep, throttle, stopped>>
  \/ /\ p \notin ready /\ ready' = ready \cup {p}
     /\ UNCHANGED <<wager, final, cursor, sweep, throttle, stopped, warned>>

GameEnds(g) ==
  /\ final[g] = Unseen /\ final' = [final EXCEPT ![g] = Grace]
  /\ UNCHANGED <<ready, wager, cursor, sweep, throttle, stopped, warned>>

Less(t) == IF t > 0 THEN t - 1 ELSE 0

TimePasses ==
  /\ final' = [g \in Game |-> IF final[g] = Unseen THEN Unseen ELSE Less(final[g])]
  /\ throttle' = [x \in Pool |-> Less(throttle[x])]
  /\ UNCHANGED <<ready, wager, cursor, sweep, stopped, warned>>

-----------------------------------------------------------------------------
(* The sweep *)

Firsts(set) == {p \in set : Cardinality({q \in set : q < p}) < PageSize}

\* Fault: the sweep does not start over.
NeverWraps == Firsts({p \in ready : p > cursor})

\* The pools after the cursor, or from the first one when there is none.
Page == LET after == Firsts({p \in ready : p > cursor})
        IN  IF after = {} /\ cursor > 0 THEN Firsts(ready) ELSE after

Moves(s, record) ==
  /\ sweep' = [sweep EXCEPT ![s] = record]
  /\ UNCHANGED <<ready, wager, final>>

\* A page without pools leaves the cursor alone.
Start(s) ==
  /\ sweep[s] = Resting /\ Page # {}
  /\ Moves(s, [Resting EXCEPT !.pc = "visit", !.todo = Page])
  /\ UNCHANGED <<cursor, throttle, stopped, warned>>

Inspected(s) == sweep[s].last

\* Fault: the first of its games decides.
AnyGame(p) == wager[p] = "open" /\ \E g \in Legs[p] : final[g] = 0

\* A wager is late once the latest of its games has been final for the grace period;
\* a game without a final result makes it infinitely early.
Late(p) == wager[p] = "open" /\ \A g \in Legs[p] : final[g] = 0

\* The object reads its open wagers and asks D1 for their games, as of the moment the
\* call came in; everything up to the count is awaited.
Inspect(s) ==
  /\ sweep[s].pc = "visit" /\ sweep[s].todo # {}
  /\ LET p == Min(sweep[s].todo) IN
       Moves(s, [pc |-> "count", todo |-> sweep[s].todo \ {p}, last |-> p, late |-> Late(p)])
  /\ UNCHANGED <<cursor, throttle, stopped, warned>>

\* Fault: the wagers are not read again.
HeldIsCounted(s) == sweep[s].late

\* Of the wagers read first, those still open after the answer of D1.
StillLate(s) == sweep[s].late /\ wager[Inspected(s)] = "open"

Count(s) ==
  /\ sweep[s].pc = "count"
  /\ Moves(s, [sweep[s] EXCEPT !.pc = IF StillLate(s) THEN "claim" ELSE "visit",
                               !.late = FALSE])
  /\ UNCHANGED <<cursor, throttle, stopped, warned>>

\* The call times out, or its answer makes no sense: the operators hear of that in an
\* alert of another kind, whose throttle is a row of its own.
CheckFails(s) ==
  /\ sweep[s].pc = "count"
  /\ Moves(s, [sweep[s] EXCEPT !.pc = "visit", !.late = FALSE])
  /\ UNCHANGED <<cursor, throttle, stopped, warned>>

\* One statement claims the alert, before any mail; within the cooldown it is dropped.
Claim(s) ==
  LET p == Inspected(s)
      free == throttle[p] = 0
  IN  /\ sweep[s].pc = "claim"
      /\ throttle' = IF free THEN [throttle EXCEPT ![p] = Cooldown] ELSE throttle
      /\ Moves(s, [sweep[s] EXCEPT !.pc = IF free THEN "mail" ELSE "visit"])
      /\ UNCHANGED <<cursor, stopped, warned>>

\* D1 fails before the claim, or the mail fails after it: nobody tries again.
AlertFails(s) ==
  /\ sweep[s].pc \in {"claim", "mail"}
  /\ Moves(s, [sweep[s] EXCEPT !.pc = "visit"])
  /\ UNCHANGED <<cursor, throttle, stopped, warned>>

Mail(s) ==
  /\ sweep[s].pc = "mail"
  /\ warned' = warned \cup {Inspected(s)}
  /\ Moves(s, [sweep[s] EXCEPT !.pc = "visit"])
  /\ UNCHANGED <<cursor, throttle, stopped>>

\* Fault: the cursor moves to the end of the page though the run was cut short.
PageEnd(s) == Max(sweep[s].todo \cup {Inspected(s)})

LastInspected(s) == Inspected(s)

\* The page is done, or the time is up after one pool at least.
Finish(s) ==
  /\ sweep[s].pc = "visit" /\ sweep[s].last # 0
  /\ cursor' = LastInspected(s)
  /\ stopped' = FALSE
  /\ Moves(s, Resting)
  /\ UNCHANGED <<throttle, warned>>

\* Bound: not twice before some run has come to its end.
WorkerStops(s) ==
  /\ sweep[s] # Resting /\ ~stopped
  /\ stopped' = TRUE
  /\ Moves(s, Resting)
  /\ UNCHANGED <<cursor, throttle, warned>>

-----------------------------------------------------------------------------

MonitorInit ==
  /\ ready \in SUBSET Pool
  /\ wager = [p \in Pool |-> "none"]
  /\ final = [g \in Game |-> Unseen]
  /\ cursor = 0
  /\ sweep = [s \in Sweep |-> Resting]
  /\ throttle = [x \in Pool |-> 0]
  /\ stopped = FALSE /\ warned = {}

RunStep(s) ==
  \/ Inspect(s) \/ Count(s) \/ CheckFails(s) \/ Claim(s) \/ AlertFails(s) \/ Mail(s)
  \/ Finish(s)

MonitorNext ==
  \/ \E p \in Pool : PoolMoves(p)
  \/ \E g \in Game : GameEnds(g)
  \/ TimePasses
  \/ \E s \in Sweep : Start(s) \/ RunStep(s) \/ WorkerStops(s)

\* The cron keeps starting and its runs go on; what is tried again and again for a pool
\* with wagers is counted, claimed and mailed in the end.
MonitorFairness ==
  /\ WF_monitorVars(TimePasses)
  /\ \A s \in Sweep : WF_monitorVars(Start(s)) /\ WF_monitorVars(RunStep(s))
  /\ \A p \in {q \in Pool : Legs[q] # {}} :
       /\ SF_monitorVars(\E s \in Sweep : Inspected(s) = p /\ Count(s))
       /\ SF_monitorVars(\E s \in Sweep : Inspected(s) = p /\ Claim(s))
       /\ SF_monitorVars(\E s \in Sweep : Inspected(s) = p /\ Mail(s))

MonitorSpec == MonitorInit /\ [][MonitorNext]_monitorVars /\ MonitorFairness

-----------------------------------------------------------------------------
(* Properties *)

\* Operators are only told of overdue wagers that are: whatever settles while the
\* check waits for D1, at the count the wager is open and all its games were final
\* for the grace period when the check began.
OverdueIsTrue ==
  [][\A s \in Sweep : sweep'[s].pc = "claim" /\ sweep[s].pc # "claim" =>
       /\ wager[Inspected(s)] = "open"
       /\ \A g \in Legs[Inspected(s)] : final[g] = 0]_monitorVars

\* A wager that stays overdue in a ready pool comes to the operators' attention:
\* neither overlapping or interrupted sweeps, nor failed checks and their own alerts,
\* nor lost mails leave a pool out for ever.
OverdueIsReported ==
  \A p \in Pool : (p \in ready /\ Late(p)) ~> (p \in warned \/ ~Late(p))

\* What is overdue is reported, and what is not is not.
OverdueIsHandled == OverdueIsTrue /\ OverdueIsReported
=============================================================================
