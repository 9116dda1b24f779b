--------------------------- MODULE MCOddsIngestion ---------------------------
(***************************************************************************)
(* OddsIngestion for TLC: a professional game and a college game, with     *)
(* answers that differ in the status alone, in the score alone and in the  *)
(* markets on offer.  The same run explores how a game of the feed becomes *)
(* a row, the job rows and the matchup lookups, which share no variable    *)
(* with ingestion: each is explored from the initial state of the others.  *)
(***************************************************************************)
EXTENDS OddsIngestion, CanonicalFeed, JobStatus, MatchupLookup, TLC

CONSTANTS nfl, ncaaf, pro, college, spread, s1, s2, cron, placement, alice, bob

Leagues == [e \in {pro, college} |-> IF e = pro THEN nfl ELSE ncaaf]

Answers == {[status |-> "in_progress", score |-> s1, markets |-> {spread}],
            [status |-> "final",       score |-> s1, markets |-> {}],
            [status |-> "final",       score |-> s2, markets |-> {}],
            [status |-> "cancelled",   score |-> s1, markets |-> {}]}

\* Two odds attempts overlap; one backup runs beside them.
Attempts == [k \in {"odds", "backup"} |-> IF k = "odds" THEN {1, 2} ELSE {1}]

\* Two meetings of the same teams on one date.
Slates == {[id |-> i, date |-> TRUE, teams |-> TRUE] : i \in {1, 2}}

\* Long shots and heavy favourites on both sides of the strike limit.
Strikes == {-1500, -1300, -980, -450, -120, -110, -105, 100, 104, 310, 450, 900, 1150, 1223, 1300}

TeamPoints == [t \in {TeamA, TeamB, Stranger} |-> CASE t = TeamA -> 14 [] t = TeamB -> 20 [] OTHER -> 3]

ConfiguredBooks == <<"DraftKings", "FanDuel">>

Readers == Permutations({alice, bob})

SystemInit == Init /\ FeedInit /\ JobInit /\ LookupInit

SystemSpec ==
  /\ SystemInit
  /\ [][\/ FeedInit /\ JobInit /\ LookupInit /\ Next /\ UNCHANGED <<feedVars, jobVars, lookupVars>>
        \/ Init /\ JobInit /\ LookupInit /\ FeedNext /\ UNCHANGED <<vars, jobVars, lookupVars>>
        \/ Init /\ FeedInit /\ LookupInit /\ JobNext /\ UNCHANGED <<vars, feedVars, lookupVars>>
        \/ Init /\ FeedInit /\ JobInit /\ LookupNext /\ UNCHANGED <<vars, feedVars, jobVars>>
       ]_<<vars, feedVars, jobVars, lookupVars>>
=============================================================================
