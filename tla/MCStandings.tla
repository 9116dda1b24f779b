----------------------------- MODULE MCStandings -----------------------------
(***************************************************************************)
(* SeasonLedger, Standings and WagerViews for TLC: the season's rows, what *)
(* is read of their history, and what a member is shown of the wagers.     *)
(* The reads keep the few columns they use and write them as SeasonLedger  *)
(* does, so each is explored from the initial state of the others.         *)
(***************************************************************************)
EXTENDS MCSeasonLedger, WagerViews

CONSTANTS h1, h2

Holders == Permutations(Holder)

\* The clock falls back on Sunday, hour 129, and springs forward nineteen weeks on.
TwoChanges == 0..3600

\* Two games on a Saturday, one on Sunday after the clocks fell back, one next week.
FourGames == <<98, 102, 130, 200>>

Leg(game, pick) == [game |-> game, pick |-> pick]

Single == {Leg(1, "home")}

\* Parlays of a day, of two days and of two weeks, and of two legs on one game.
SameDay  == {Leg(1, "home"), Leg(2, "home")}
TwoDays  == {Leg(1, "home"), Leg(3, "home")}
TwoWeeks == {Leg(1, "home"), Leg(4, "home")}
SameGame == {Leg(1, "home"), Leg(1, "over"), Leg(3, "home")}

Slips == <<{Single, SameDay, TwoDays, TwoWeeks, SameGame}, {Single}>>

SystemInit == Init /\ StandingsInit /\ ViewsInit

SystemSpec ==
  /\ SystemInit
  /\ [][\/ StandingsInit /\ ViewsInit /\ Next /\ UNCHANGED <<standingsVars, viewVars>>
        \/ Init /\ ViewsInit /\ StandingsNext /\ UNCHANGED <<vars, viewVars>>
        \/ Init /\ StandingsInit /\ ViewsNext /\ UNCHANGED <<vars, standingsVars>>
       ]_<<vars, standingsVars, viewVars>>
=============================================================================
