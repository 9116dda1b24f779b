---------------------------- MODULE MatchupLookup ----------------------------
(***************************************************************************)
(* The details and the box score of one game, as members see them:         *)
(* services/espn-matchup.ts reads ESPN's scoreboard and then its details,  *)
(* through a cache that concurrent readers share.  ESPN and the cache fail *)
(* at any call, and what was read before an await is written after it.     *)
(*                                                                         *)
(* The state of the game at ESPN is a number that grows: 0 before kickoff, *)
(* MaxState once it is over.  A reading of it stands for score and clock.  *)
(***************************************************************************)
EXTENDS Naturals, FiniteSets

CONSTANTS
  Reader,
  Listing,        \* the entries on ESPN's slates: id, and whether date and teams match
  Down,           \* a slate that could not be read
  Nothing,        \* no reading
  BoxFresh, MatchupFresh,   \* how long an entry is kept
  Flight,         \* what the calls of one lookup take at most
  MaxState

ASSUME FreshAssumption ==
  /\ {BoxFresh, MatchupFresh, Flight, MaxState} \subseteq Nat
  /\ Nothing \notin 0..MaxState

VARIABLES
  game,
  cache,     \* the entries under matchupCacheRequest and boxCacheRequest
  lookup     \* the lookups in progress

lookupVars == <<game, cache, lookup>>

Page     == {"matchup", "box"}
NoEntry  == [board |-> Nothing, extra |-> Nothing, age |-> 0, left |-> 0]
NoLookup == [pc |-> "idle", page |-> "box", board |-> Nothing, extra |-> Nothing,
             age |-> 0, left |-> 0]

Keep(page) == IF page = "box" THEN BoxFresh ELSE MatchupFresh

Aged(x) == IF x.left = 0 THEN NoEntry ELSE [x EXCEPT !.age = @ + 1, !.left = @ - 1]

\* A lookup lasts no longer than the time limits of its calls.
MomentPasses ==
  /\ \A r \in Reader : lookup[r].pc # "idle" => lookup[r].left > 0
  /\ cache' = [p \in Page |-> Aged(cache[p])]
  /\ lookup' = [r \in Reader |-> IF lookup[r].pc = "idle" THEN NoLookup ELSE
                  [lookup[r] EXCEPT !.left = @ - 1,
                     !.age = IF lookup[r].board = Nothing THEN 0 ELSE @ + 1]]
  /\ UNCHANGED game

GamePlays ==
  /\ game < MaxState /\ game' = game + 1
  /\ UNCHANGED <<cache, lookup>>

\* A cached entry answers at once.  A miss, an entry that is not understood and a cache
\* that fails lead to ESPN.
AskMatchup(r, page) ==
  /\ lookup[r].pc = "idle"
  /\ lookup' = [lookup EXCEPT ![r] =
                  [NoLookup EXCEPT !.pc = "board", !.page = page, !.left = Flight]]
  /\ UNCHANGED <<game, cache>>

GivesUp(r) ==
  /\ lookup' = [lookup EXCEPT ![r] = NoLookup]
  /\ UNCHANGED <<game, cache>>

\* findEspnEvent over both days' slates: the entries with the date and both teams, an
\* entry listed on both days counted once, identify the game if there is exactly one.
Identifies(slates) ==
  /\ Down \notin slates
  /\ Cardinality({l.id : l \in {m \in UNION slates : m.date /\ m.teams}}) = 1

\* Both days are read; one that cannot be read leaves the identity open.
ReadBoard(r) ==
  /\ lookup[r].pc = "board"
  /\ \E prior, day \in (SUBSET Listing) \cup {Down} :
       IF Identifies({prior, day})
       THEN /\ lookup' = [lookup EXCEPT ![r].pc = "extra", ![r].board = game]
            /\ UNCHANGED <<game, cache>>
       ELSE GivesUp(r)

\* Fault: the summary is read along with the slates.
SummaryFirst(r) == {Nothing, 0}

\* Teams' statistics and schedules, any of which may be missing; or the summary of a
\* game under way, if it answers.
Extras(r) == IF lookup[r].page = "box" /\ lookup[r].board = 0 THEN {Nothing} ELSE {Nothing, game}

ReadExtra(r) ==
  /\ lookup[r].pc = "extra"
  /\ \E x \in Extras(r) : lookup' = [lookup EXCEPT ![r].pc = "write", ![r].extra = x]
  /\ UNCHANGED <<game, cache>>

\* Fault: details are kept though all of their calls failed.
AlwaysKept(x) == TRUE

\* A partial outage is shown but retried: details without any answer are not kept.
Kept(x) == x.page = "box" \/ x.extra # Nothing

\* The entry is written, unless the cache fails, and the lookup answers.
WriteCache(r) ==
  LET x == lookup[r] IN
    /\ x.pc = "write"
    /\ cache' \in {cache} \cup
         {[cache EXCEPT ![p] = [board |-> x.board, extra |-> x.extra, age |-> x.age,
                               left |-> Keep(p)]] : p \in {q \in {x.page} : Kept(x)}}
    /\ lookup' = [lookup EXCEPT ![r] = NoLookup]
    /\ UNCHANGED game

LookupInit ==
  /\ game = 0
  /\ cache = [p \in Page |-> NoEntry]
  /\ lookup = [r \in Reader |-> NoLookup]

LookupNext ==
  \/ MomentPasses \/ GamePlays
  \/ \E r \in Reader :
       \/ \E p \in Page : AskMatchup(r, p)
       \/ ReadBoard(r) \/ ReadExtra(r) \/ WriteCache(r)

LookupSpec == LookupInit /\ [][LookupNext]_lookupVars

-----------------------------------------------------------------------------
(* Properties *)

\* What a lookup or the cache is about to show of a page.
Shown(page) ==
  {cache[page]} \cup {lookup[r] : r \in {q \in Reader : lookup[q].pc = "write" /\ lookup[q].page = page}}

\* However lookups overlap, what a member can be shown was read from ESPN no longer ago
\* than an entry is kept and a lookup takes; statistics are no older than the score
\* they stand beside, and none stand beside a game that has not begun; and nobody is
\* shown an outage of every details call from the cache.
ShownIsRecent ==
  /\ \A page \in Page : \A x \in Shown(page) :
       x.board # Nothing =>
         /\ x.age <= Keep(page) + Flight
         /\ x.extra # Nothing => x.extra >= x.board
         /\ page = "box" /\ x.board = 0 => x.extra = Nothing
  /\ cache["matchup"] # NoEntry => cache["matchup"].extra # Nothing
=============================================================================
