------------------------- MODULE OddsIngestionProofs -------------------------
(***************************************************************************)
(* Proofs about OddsIngestion: for any leagues, events, polls and answers, *)
(* the claimed generation fences every publication, and so the results are *)
(* a register, times advance, health is the latest attempt's and the       *)
(* availability agrees with the offers; and no version counts a correction *)
(* the provider did not make.  Then about MatchupLookup: what the worker's *)
(* cache shows of a game is recent; and about CanonicalFeed: whichever way *)
(* round the feeds list the teams, a number stays with its team.           *)
(***************************************************************************)
EXTENDS OddsIngestion, MatchupLookup, CanonicalFeed, WellFoundedInduction, FiniteSetTheorems, TLAPS

(* The inductive invariant *)

AnswerType == [says: Answer \cup {Absent}, moment: Nat]
RowType == [known: BOOLEAN, status: Status, score: Score, version: Nat, finalized: Nat,
            polled: Nat, omitted: BOOLEAN, moment: Nat]
AvailableType == [Event -> (SUBSET Market) \cup {Unlisted}]
FeedType == [gen: Nat, polled: Nat, success: Nat, backoff: Nat, failed: Nat,
             published: Nat, available: AvailableType]
PcType == {"idle", "preflight", "claim", "due", "fetch", "read", "publish", "fail"}
RunType == [pc: PcType, now: Nat, gen: Nat, at: Nat, backoff: Nat, due: SUBSET League,
            todo: SUBSET League, answer: [Event -> AnswerType], old: [Event -> RowType],
            available: AvailableType]

Types ==
  /\ clock \in Nat
  /\ provider \in [Event -> AnswerType]
  /\ row \in [Event -> RowType]
  /\ offers \in [Event -> SUBSET Market]
  /\ discovery \in [League -> Nat]
  /\ feed \in FeedType
  /\ run \in [Poll -> RunType]

\* Rows show what the provider said at some moment; a row that does not exist has no
\* result; no time is ahead of the feed's.
Rows ==
  /\ \A e \in Event : /\ row[e].moment <= provider[e].moment
                      /\ row[e].polled <= feed.polled
                      /\ ~row[e].known => row[e].status = "scheduled"
  /\ \A l \in League : discovery[l] <= feed.polled
  /\ feed.success <= feed.polled
  /\ feed.published <= feed.gen

Claimed(r) == run[r].pc \in {"due", "fetch", "read", "publish", "fail"}

\* What the poll with the newest generation holds is what the rows still are, and
\* its answers are no older than the rows they will replace.
Holds(r) ==
  /\ run[r].at >= feed.polled
  /\ run[r].pc # "fail" => run[r].available = feed.available
  /\ run[r].pc = "publish" => run[r].old = row
  /\ run[r].pc \in {"read", "publish"} => run[r].todo = {}
  /\ \A e \in Event :
       run[r].pc \in {"fetch", "read", "publish"} /\ LeagueOf[e] \in run[r].due \ run[r].todo
         => /\ row[e].moment <= run[r].answer[e].moment
            /\ run[r].answer[e].moment <= provider[e].moment

Fence ==
  /\ \A r \in Poll : Claimed(r) => run[r].gen \in 1..feed.gen
  /\ \A r, s \in Poll : Claimed(r) /\ Claimed(s) /\ run[r].gen = run[s].gen => r = s
  /\ \A r \in Poll : Claimed(r) /\ Current(r) => Holds(r)

Fenced == Types /\ Rows /\ Fence /\ AvailabilityIsOffers /\ HealthIsLatest

-----------------------------------------------------------------------------
(* Lemmas about the operators *)

\* The greatest of three times is one of them and no earlier than any.
LEMMA MaxOfThree ==
  ASSUME NEW a \in Nat, NEW b \in Nat, NEW c \in Nat
  PROVE  /\ Max({a, b, c}) \in {a, b, c}
         /\ Max({a, b, c}) \in Nat
         /\ Max({a, b, c}) >= a /\ Max({a, b, c}) >= b /\ Max({a, b, c}) >= c
<1> DEFINE S == {a, b, c}
<1>1. \E x \in S : \A y \in S : x >= y
  <2>1. CASE a >= b /\ a >= c BY <2>1
  <2>2. CASE b >= a /\ b >= c BY <2>2
  <2>3. CASE c >= a /\ c >= b BY <2>3
  <2> QED BY <2>1, <2>2, <2>3
<1>2. Max(S) \in S /\ \A y \in S : Max(S) >= y BY <1>1 DEF Max
<1> QED BY <1>2

\* The parts of an answer, and of an event without a row.
LEMMA AnswerParts ==
  /\ \A a \in Answer : a.status \in Status /\ a.score \in Score /\ a.markets \in SUBSET Market
  /\ NoRow \in RowType /\ NoRow.status = "scheduled" /\ NoRow.moment = 0 /\ NoRow.polled = 0
  /\ Idle \in RunType
<1>1. \A a \in Answer : a.status \in Status /\ a.score \in Score /\ a.markets \in SUBSET Market
  BY AnswerAssumption DEF Status, Score
<1>2. Score # {} BY AnswerAssumption DEF Score
<1>3. (CHOOSE s \in Score : TRUE) \in Score BY <1>2
<1>4. NoRow \in RowType BY <1>3 DEF NoRow, RowType, Status
<1>5. Idle \in RunType BY <1>4 DEF Idle, RunType, AnswerType, PcType, AvailableType
<1> QED BY <1>1, <1>4, <1>5 DEF NoRow

\* What a publication writes for a listed event is a row with the answer's moment.
LEMMA PublishedRowType ==
  ASSUME Types, NEW r \in Poll, NEW e \in Event, Listed(r, e)
  PROVE  /\ PublishedRow(r, e) \in RowType
         /\ run[r].answer[e].says.markets \in SUBSET Market
         /\ run[r].answer[e].says \in Answer
<1> DEFINE old == run[r].old[e]
           a   == run[r].answer[e].says
<1>1. run[r] \in RunType BY DEF Types
<1>2. old \in RowType /\ run[r].answer[e] \in AnswerType /\ run[r].at \in Nat
  BY <1>1 DEF RunType
<1>3. a \in Answer BY <1>2 DEF AnswerType, Listed
<1>4. a.status \in Status /\ a.score \in Score /\ a.markets \in SUBSET Market
  BY <1>3, AnswerParts
<1>5. CorrectionVersion(old, a) \in Nat BY <1>2 DEF CorrectionVersion, RowType
<1>6. old.finalized \in Nat /\ run[r].answer[e].moment \in Nat
  BY <1>2 DEF RowType, AnswerType
<1>7. PublishedRow(r, e) \in RowType
  BY <1>2, <1>4, <1>5, <1>6 DEF PublishedRow, RowType
<1> QED BY <1>3, <1>4, <1>7

-----------------------------------------------------------------------------
(* Steps *)

ClaimedPc == {"due", "fetch", "read", "publish", "fail"}

\* A step of one poll that writes no row keeps the invariant, if the poll keeps its
\* generation and what the newest generation must hold.
LEMMA LocalStep ==
  ASSUME Fenced, NEW r \in Poll, NEW x \in RunType,
         run' = [run EXCEPT ![r] = x],
         UNCHANGED <<clock, provider, row, offers, discovery, feed>>,
         x.pc \in ClaimedPc => Claimed(r) /\ x.gen = run[r].gen,
         x.pc \in ClaimedPc /\ x.gen = feed.gen => Holds(r)'
  PROVE  Fenced'
<1>1. run \in [Poll -> RunType] BY DEF Fenced, Types
<1>2. run' \in [Poll -> RunType] /\ run'[r] = x /\ \A s \in Poll \ {r} : run'[s] = run[s]
  BY <1>1
<1>3. Types' BY <1>2 DEF Fenced, Types
<1>4. Rows' /\ AvailabilityIsOffers' /\ HealthIsLatest'
  BY DEF Fenced, Rows, AvailabilityIsOffers, HealthIsLatest
<1>5. \A s \in Poll : Claimed(s)' => Claimed(s) /\ run'[s].gen = run[s].gen
  BY <1>2 DEF Claimed, ClaimedPc
<1>6. Fence'
  <2>1. \A s \in Poll : Claimed(s)' => run'[s].gen \in 1..feed'.gen
    BY <1>5 DEF Fenced, Fence
  <2>2. \A s, u \in Poll : Claimed(s)' /\ Claimed(u)' /\ run'[s].gen = run'[u].gen => s = u
    BY <1>5 DEF Fenced, Fence
  <2>3. \A s \in Poll : Claimed(s)' /\ Current(s)' => Holds(s)'
    <3>1. SUFFICES ASSUME NEW s \in Poll, Claimed(s)', Current(s)' PROVE Holds(s)'
      OBVIOUS
    <3>2. CASE s = r BY <3>1, <3>2, <1>2 DEF Claimed, ClaimedPc, Current
    <3>3. CASE s # r
      <4>1. run'[s] = run[s] BY <3>3, <1>2
      <4>2. Holds(s) BY <3>1, <4>1, <1>5 DEF Fenced, Fence, Current
      <4> QED BY <4>1, <4>2 DEF Holds
    <3> QED BY <3>2, <3>3
  <2> QED BY <2>1, <2>2, <2>3 DEF Fence
<1> QED BY <1>3, <1>4, <1>6 DEF Fenced

\* A poll may end at any moment.
LEMMA EndStep ==
  ASSUME Fenced, NEW r \in Poll, End(r),
         UNCHANGED <<clock, provider, row, offers, discovery, feed>>
  PROVE  Fenced'
<1>1. Idle \in RunType /\ Idle.pc \notin ClaimedPc
  BY AnswerParts DEF Idle, ClaimedPc
<1> QED BY <1>1, LocalStep DEF End

LEMMA InitFenced == Init => Fenced
<1> SUFFICES ASSUME Init PROVE Fenced OBVIOUS
<1> USE DEF Init
<1>1. Types
  BY AnswerParts DEF Types, AnswerType, FeedType, AvailableType
<1>2. Rows BY AnswerParts DEF Rows
<1>3. \A r \in Poll : ~Claimed(r) BY DEF Claimed, Idle
<1>4. AvailabilityIsOffers /\ HealthIsLatest BY DEF AvailabilityIsOffers, HealthIsLatest
<1> QED BY <1>1, <1>2, <1>3, <1>4 DEF Fenced, Fence

LEMMA EnvironmentStep ==
  ASSUME Fenced, ClockMoves \/ \E e \in Event : ProviderChanges(e)
  PROVE  Fenced'
<1>1. CASE ClockMoves
  <2>1. clock' \in Nat BY <1>1, BoundAssumption DEF ClockMoves
  <2> QED BY <1>1, <2>1 DEF ClockMoves, Fenced, Types, Rows, Fence, Claimed, Current, Holds,
          AvailabilityIsOffers, HealthIsLatest
<1>2. ASSUME NEW e \in Event, ProviderChanges(e) PROVE Fenced'
  <2>1. UNCHANGED <<clock, row, offers, discovery, feed, run>> BY <1>2 DEF ProviderChanges
  <2>2. PICK a \in Answer \cup {Absent} :
          provider' = [provider EXCEPT ![e] = [says |-> a, moment |-> provider[e].moment + 1]]
    BY <1>2 DEF ProviderChanges
  <2>3. provider \in [Event -> AnswerType] BY DEF Fenced, Types
  <2>4. provider[e].moment \in Nat BY <2>3 DEF AnswerType
  <2>5. [says |-> a, moment |-> provider[e].moment + 1] \in AnswerType
    BY <2>4 DEF AnswerType
  <2>6. provider' \in [Event -> AnswerType] BY <2>2, <2>3, <2>5
  <2>7. \A x \in Event : provider[x].moment <= provider'[x].moment
    <3> SUFFICES ASSUME NEW x \in Event PROVE provider[x].moment <= provider'[x].moment
      OBVIOUS
    <3>1. provider[x].moment \in Nat BY <2>3 DEF AnswerType
    <3>2. CASE x = e BY <2>2, <2>3, <2>4, <3>2
    <3>3. CASE x # e BY <2>2, <2>3, <3>1, <3>3
    <3> QED BY <3>2, <3>3
  <2>8. \A x \in Event : row[x].moment \in Nat /\ provider[x].moment \in Nat
                         /\ provider'[x].moment \in Nat
    BY <2>3, <2>6 DEF Fenced, Types, RowType, AnswerType
  <2>9. Types' BY <2>1, <2>6 DEF Fenced, Types
  <2>10. Rows' BY <2>1, <2>7, <2>8 DEF Fenced, Rows
  <2>11. \A r \in Poll, x \in Event : run[r].answer[x].moment \in Nat
    BY DEF Fenced, Types, RunType, AnswerType
  <2>12. \A r \in Poll : Holds(r) => Holds(r)'
    BY <2>1, <2>7, <2>8, <2>11 DEF Holds
  <2>13. Fence' BY <2>1, <2>12 DEF Fenced, Fence, Claimed, Current
  <2> QED BY <2>1, <2>9, <2>10, <2>13 DEF Fenced, AvailabilityIsOffers, HealthIsLatest
<1> QED BY <1>1, <1>2

LEMMA StartStep ==
  ASSUME Fenced, NEW r \in Poll, Start(r)
  PROVE  Fenced'
<1>1. PICK due \in SUBSET League :
        run' = [run EXCEPT ![r] =
                 [Idle EXCEPT !.now = clock, !.backoff = feed.backoff,
                              !.pc  = IF r \in Cron THEN "preflight" ELSE "claim",
                              !.due = IF r \in Cron THEN {} ELSE due]]
  BY DEF Start
<1> DEFINE x == [Idle EXCEPT !.now = clock, !.backoff = feed.backoff,
                             !.pc  = IF r \in Cron THEN "preflight" ELSE "claim",
                             !.due = IF r \in Cron THEN {} ELSE due]
<1>2. clock \in Nat /\ feed.backoff \in Nat BY DEF Fenced, Types, FeedType
<1>3. x \in RunType BY <1>2, AnswerParts DEF RunType, PcType, Idle
<1>4. x.pc \notin ClaimedPc BY DEF ClaimedPc, Idle
<1> HIDE DEF x
<1>5. run' = [run EXCEPT ![r] = x] BY <1>1 DEF x
<1>6. UNCHANGED <<clock, provider, row, offers, discovery, feed>> BY DEF Start
<1> QED BY <1>3, <1>4, <1>5, <1>6, LocalStep

LEMMA PreflightStep ==
  ASSUME Fenced, NEW r \in Poll, Preflight(r)
  PROVE  Fenced'
<1>1. UNCHANGED <<clock, provider, row, offers, discovery, feed>> BY DEF Preflight
<1>2. CASE End(r) BY <1>1, <1>2, EndStep
<1>3. CASE run' = [run EXCEPT ![r].pc = "claim", ![r].backoff = 0]
  <2> DEFINE x == [run[r] EXCEPT !.pc = "claim", !.backoff = 0]
  <2>1. run[r] \in RunType BY DEF Fenced, Types
  <2>2. x \in RunType /\ x.pc \notin ClaimedPc BY <2>1 DEF RunType, PcType, ClaimedPc
  <2>3. run' = [run EXCEPT ![r] = x] BY <1>3
  <2> HIDE DEF x
  <2> QED BY <1>1, <2>2, <2>3, LocalStep
<1> QED BY <1>2, <1>3 DEF Preflight

LEMMA DecideDueStep ==
  ASSUME Fenced, NEW r \in Poll, DecideDue(r)
  PROVE  Fenced'
<1>1. UNCHANGED <<clock, provider, row, offers, discovery, feed>> BY DEF DecideDue
<1> DEFINE due == IF r \in Cron THEN DueLeagues(run[r].now, run[r].backoff)
                  ELSE IF run[r].backoff > 0 THEN {} ELSE run[r].due
           x == [run[r] EXCEPT !.pc = "fetch", !.due = due, !.todo = due,
                               !.now = 0, !.backoff = 0]
<1>2. run[r] \in RunType BY DEF Fenced, Types
<1>3. due \in SUBSET League BY <1>2 DEF DueLeagues, RunType
<1>4. CASE due = {} BY <1>1, <1>4, EndStep DEF DecideDue
<1>5. CASE due # {}
  <2>1. run' = [run EXCEPT ![r].pc = "fetch", ![r].due = due, ![r].todo = due,
                           ![r].now = 0, ![r].backoff = 0]
    BY <1>5 DEF DecideDue
  <2> HIDE DEF due
  <2>2. run' = [run EXCEPT ![r] = x] BY <2>1
  <2>3. x \in RunType /\ x.gen = run[r].gen /\ x.at = run[r].at /\ x.pc = "fetch"
        /\ x.available = run[r].available /\ x.due = x.todo
    BY <1>2, <1>3 DEF RunType, PcType
  <2> HIDE DEF x
  <2>4. run'[r] = x BY <2>2 DEF Fenced, Types
  <2>5. Claimed(r) /\ run[r].pc = "due" BY DEF DecideDue, At, Claimed
  <2>6. x.gen = feed.gen => Holds(r)'
    <3>1. SUFFICES ASSUME x.gen = feed.gen PROVE Holds(r)' OBVIOUS
    <3>2. Holds(r) BY <3>1, <2>3, <2>5 DEF Fenced, Fence, Current
    <3> QED BY <3>2, <1>1, <2>3, <2>4, <2>5 DEF Holds
  <2> QED BY <1>1, <2>2, <2>3, <2>5, <2>6, LocalStep
<1> QED BY <1>4, <1>5

LEMMA FetchLeagueStep ==
  ASSUME Fenced, NEW r \in Poll, NEW l \in League, FetchLeague(r, l)
  PROVE  Fenced'
<1>1. UNCHANGED <<clock, provider, row, offers, discovery, feed>> BY DEF FetchLeague
<1> DEFINE answer == [e \in Event |-> IF LeagueOf[e] = l THEN provider[e]
                                      ELSE run[r].answer[e]]
           pc == IF run[r].todo = {l} THEN "read" ELSE "fetch"
           x == [run[r] EXCEPT !.todo = run[r].todo \ {l}, !.pc = pc, !.answer = answer]
<1>2. run[r] \in RunType /\ provider \in [Event -> AnswerType] BY DEF Fenced, Types
<1>3. run[r].answer \in [Event -> AnswerType] BY <1>2 DEF RunType
<1>4. answer \in [Event -> AnswerType] BY <1>2, <1>3
<1>5. run' = [run EXCEPT ![r] = x] BY DEF FetchLeague
<1>6. x \in RunType BY <1>2, <1>4 DEF RunType, PcType
<1>7. /\ x.gen = run[r].gen /\ x.at = run[r].at /\ x.available = run[r].available
      /\ x.due = run[r].due /\ x.todo = run[r].todo \ {l} /\ x.pc = pc /\ x.answer = answer
  BY <1>2 DEF RunType
<1>8. run[r].pc = "fetch" /\ l \in run[r].todo BY DEF FetchLeague, At
<1> HIDE DEF x
<1>9. run'[r] = x BY <1>5, <1>2 DEF Fenced, Types
<1>10. x.gen = feed.gen => Holds(r)'
  <2>1. SUFFICES ASSUME x.gen = feed.gen PROVE Holds(r)' OBVIOUS
  <2>2. Holds(r) BY <2>1, <1>7, <1>8 DEF Fenced, Fence, Current, Claimed
  <2>3. \A e \in Event : LeagueOf[e] \in x.due \ x.todo
           => row[e].moment <= x.answer[e].moment /\ x.answer[e].moment <= provider[e].moment
    <3>1. SUFFICES ASSUME NEW e \in Event, LeagueOf[e] \in x.due \ x.todo
                   PROVE  /\ row[e].moment <= x.answer[e].moment
                          /\ x.answer[e].moment <= provider[e].moment
      OBVIOUS
    <3>2. CASE LeagueOf[e] = l
      <4>1. x.answer[e] = provider[e] BY <3>2, <1>7
      <4>2. provider[e].moment \in Nat BY <1>2 DEF AnswerType
      <4> QED BY <4>1, <4>2 DEF Fenced, Rows
    <3>3. CASE LeagueOf[e] # l
      <4>1. x.answer[e] = run[r].answer[e] BY <3>3, <1>7
      <4>2. LeagueOf[e] \in run[r].due \ run[r].todo BY <3>1, <3>3, <1>7
      <4> QED BY <4>1, <4>2, <2>2, <1>8 DEF Holds
    <3> QED BY <3>2, <3>3
  <2>4. x.pc = "read" => x.todo = {} BY <1>7
  <2>5. x.pc \in {"read", "fetch"} BY <1>7
  <2> QED BY <2>2, <2>3, <2>4, <2>5, <1>1, <1>7, <1>8, <1>9 DEF Holds
<1> QED BY <1>1, <1>5, <1>6, <1>7, <1>8, <1>10, LocalStep DEF Claimed

LEMMA ReadRowsStep ==
  ASSUME Fenced, NEW r \in Poll, ReadRows(r)
  PROVE  Fenced'
<1>1. UNCHANGED <<clock, provider, row, offers, discovery, feed>> BY DEF ReadRows
<1> DEFINE x == [run[r] EXCEPT !.pc = "publish", !.old = row]
<1>2. run[r] \in RunType /\ row \in [Event -> RowType] BY DEF Fenced, Types
<1>3. run' = [run EXCEPT ![r] = x] BY DEF ReadRows
<1>4. /\ x \in RunType /\ x.gen = run[r].gen /\ x.at = run[r].at
      /\ x.available = run[r].available /\ x.due = run[r].due /\ x.todo = run[r].todo
      /\ x.pc = "publish" /\ x.old = row /\ x.answer = run[r].answer
  BY <1>2 DEF RunType, PcType
<1>5. run[r].pc = "read" BY DEF ReadRows, At
<1> HIDE DEF x
<1>6. run'[r] = x BY <1>3 DEF Fenced, Types
<1>7. x.gen = feed.gen => Holds(r)'
  <2>1. SUFFICES ASSUME x.gen = feed.gen PROVE Holds(r)' OBVIOUS
  <2>2. Holds(r) BY <2>1, <1>4, <1>5 DEF Fenced, Fence, Current, Claimed
  <2> QED BY <2>2, <1>1, <1>4, <1>5, <1>6 DEF Holds
<1> QED BY <1>1, <1>3, <1>4, <1>5, <1>7, LocalStep DEF Claimed

\* A claim takes a generation above all others: what every other poll holds no
\* longer matters.
LEMMA ClaimStep ==
  ASSUME Fenced, NEW r \in Poll, Claim(r)
  PROVE  Fenced'
<1> DEFINE at == Max({run[r].now, feed.polled, feed.success})
           x == [run[r] EXCEPT !.pc = "due", !.gen = feed.gen + 1, !.at = at,
                               !.backoff = feed.backoff, !.available = feed.available]
<1>1. run[r] \in RunType /\ feed \in FeedType /\ run \in [Poll -> RunType]
  BY DEF Fenced, Types
<1>2. run[r].now \in Nat /\ feed.polled \in Nat /\ feed.success \in Nat /\ feed.gen \in Nat
      /\ feed.backoff \in Nat /\ feed.available \in AvailableType /\ feed.published \in Nat
  BY <1>1 DEF RunType, FeedType
<1>3. at \in Nat /\ at >= feed.polled BY <1>2, MaxOfThree
<1>4. run' = [run EXCEPT ![r].pc = "due", ![r].gen = feed.gen + 1, ![r].at = at,
                         ![r].backoff = feed.backoff, ![r].available = feed.available]
  BY DEF Claim
<1> HIDE DEF at
<1>5. run' = [run EXCEPT ![r] = x] BY <1>4
<1>6. x \in RunType
  <2>1. feed.gen + 1 \in Nat /\ "due" \in PcType BY <1>2 DEF PcType
  <2> QED BY <1>1, <1>2, <1>3, <2>1 DEF RunType
<1>7. x.gen = feed.gen + 1 /\ x.at = at /\ x.available = feed.available /\ x.pc = "due"
  BY <1>1 DEF RunType
<1> HIDE DEF x
<1>8. run' \in [Poll -> RunType] /\ run'[r] = x /\ \A s \in Poll \ {r} : run'[s] = run[s]
  BY <1>1, <1>5, <1>6
<1>9. feed' = [feed EXCEPT !.gen = feed.gen + 1]
      /\ UNCHANGED <<clock, provider, row, offers, discovery>>
  BY DEF Claim
<1>10. /\ feed' \in FeedType /\ feed'.gen = feed.gen + 1 /\ feed'.polled = feed.polled
       /\ feed'.success = feed.success /\ feed'.published = feed.published
       /\ feed'.failed = feed.failed /\ feed'.available = feed.available
  BY <1>1, <1>2, <1>9 DEF FeedType
<1>11. Types' BY <1>8, <1>9, <1>10 DEF Fenced, Types
<1>12. Rows' /\ AvailabilityIsOffers' /\ HealthIsLatest'
  BY <1>2, <1>9, <1>10 DEF Fenced, Rows, AvailabilityIsOffers, HealthIsLatest
<1>13. \A s \in Poll \ {r} : Claimed(s)' => Claimed(s) /\ run'[s].gen = run[s].gen
                                           /\ run[s].gen \in 1..feed.gen
  BY <1>8 DEF Fenced, Fence, Claimed
<1>14. Fence'
  <2>1. \A s \in Poll : Claimed(s)' => run'[s].gen \in 1..feed'.gen
    BY <1>2, <1>7, <1>8, <1>10, <1>13
  <2>2. \A s, u \in Poll : Claimed(s)' /\ Claimed(u)' /\ run'[s].gen = run'[u].gen => s = u
    BY <1>2, <1>7, <1>8, <1>13 DEF Fenced, Fence
  <2>3. \A s \in Poll : Claimed(s)' /\ Current(s)' => s = r
    BY <1>2, <1>10, <1>13 DEF Current
  <2>4. Holds(r)' BY <1>3, <1>7, <1>8, <1>10 DEF Holds
  <2> QED BY <2>1, <2>2, <2>3, <2>4 DEF Fence
<1> QED BY <1>11, <1>12, <1>14 DEF Fenced

\* The heart of the fence: the batch of the newest generation replaces the rows it
\* read with answers no older than they are, and what it cached is still so.  The
\* poll is then done, or about to report that the batch has thrown.
LEMMA BatchStep ==
  ASSUME Fenced, NEW r \in Poll, At(r, "publish"), Current(r), Batch(r),
         UNCHANGED <<clock, provider>>,
         NEW x \in RunType, run' = [run EXCEPT ![r] = x],
         x.pc \in {"idle", "fail"},
         x.pc = "fail" => x.gen = run[r].gen /\ x.at = run[r].at
  PROVE  Fenced'
<1>1. /\ run[r] \in RunType /\ feed \in FeedType /\ run \in [Poll -> RunType]
      /\ row \in [Event -> RowType] /\ provider \in [Event -> AnswerType]
      /\ offers \in [Event -> SUBSET Market] /\ discovery \in [League -> Nat]
  BY DEF Fenced, Types
<1>2. /\ run[r].at \in Nat /\ run[r].gen \in Nat /\ run[r].available \in AvailableType
      /\ run[r].due \in SUBSET League /\ run[r].answer \in [Event -> AnswerType]
  BY <1>1 DEF RunType
<1>3. /\ feed.polled \in Nat /\ feed.success \in Nat /\ feed.gen \in Nat
      /\ feed.backoff \in Nat /\ feed.published \in Nat /\ feed.failed \in Nat
  BY <1>1 DEF FeedType
<1>4. Claimed(r) /\ run[r].pc = "publish" BY DEF At, Claimed
<1>5. Holds(r) BY <1>4 DEF Fenced, Fence
<1>6. /\ run[r].at >= feed.polled /\ run[r].available = feed.available /\ run[r].old = row
      /\ \A e \in Event : Covers(r, e) => /\ row[e].moment <= run[r].answer[e].moment
                                          /\ run[r].answer[e].moment <= provider[e].moment
  BY <1>4, <1>5 DEF Holds, Covers
<1>7. \A e \in Event : Listed(r, e) =>
        /\ PublishedRow(r, e) \in RowType
        /\ run[r].answer[e].says.markets \in SUBSET Market
  BY PublishedRowType DEF Fenced
<1>8. row' = [e \in Event |->
               IF Listed(r, e) THEN PublishedRow(r, e)
               ELSE IF Missing(r, e)
                    THEN [row[e] EXCEPT !.omitted = TRUE, !.polled = run[r].at]
                    ELSE row[e]]
  BY DEF Batch
<1>9. \A e \in Event :
        /\ Listed(r, e) => row'[e] = PublishedRow(r, e)
        /\ ~Listed(r, e) /\ Missing(r, e) =>
             row'[e] = [row[e] EXCEPT !.omitted = TRUE, !.polled = run[r].at]
        /\ ~Listed(r, e) /\ ~Missing(r, e) => row'[e] = row[e]
  BY <1>8
<1>10. \A e \in Event : row'[e] \in RowType
  <2>1. SUFFICES ASSUME NEW e \in Event PROVE row'[e] \in RowType OBVIOUS
  <2>2. row[e] \in RowType BY <1>1
  <2>3. [row[e] EXCEPT !.omitted = TRUE, !.polled = run[r].at] \in RowType
    BY <2>2, <1>2 DEF RowType
  <2> QED BY <2>2, <2>3, <1>7, <1>9
<1>11. row' \in [Event -> RowType] BY <1>8, <1>10
<1>12. Availability(r) \in AvailableType
  BY <1>2, <1>7 DEF Availability, AvailableType
<1>13. PICK backoff \in BackoffAfter :
         feed' = [feed EXCEPT !.backoff = backoff, !.polled = run[r].at,
                              !.success = run[r].at, !.failed = 0,
                              !.published = run[r].gen, !.available = Availability(r)]
  BY DEF Batch
<1>14. backoff \in Nat BY <1>3, BoundAssumption DEF BackoffAfter
<1>15. /\ feed' \in FeedType /\ feed'.gen = feed.gen /\ feed'.polled = run[r].at
       /\ feed'.success = run[r].at /\ feed'.failed = 0 /\ feed'.published = run[r].gen
       /\ feed'.available = Availability(r)
  BY <1>1, <1>2, <1>12, <1>13, <1>14 DEF FeedType
<1>16. offers' = [e \in Event |-> IF Listed(r, e) THEN run[r].answer[e].says.markets
                                  ELSE IF Missing(r, e) THEN {} ELSE offers[e]]
       /\ discovery' = [l \in League |-> IF l \in run[r].due THEN run[r].at ELSE discovery[l]]
  BY DEF Batch
<1>17. offers' \in [Event -> SUBSET Market] /\ discovery' \in [League -> Nat]
  BY <1>1, <1>2, <1>7, <1>16
<1>18. run' \in [Poll -> RunType] /\ run'[r] = x /\ \A s \in Poll \ {r} : run'[s] = run[s]
  BY <1>1
<1>19. Types' BY <1>11, <1>15, <1>17, <1>18 DEF Fenced, Types
<1>20. Rows'
  <2>1. \A e \in Event : /\ row'[e].moment <= provider'[e].moment
                         /\ row'[e].polled <= feed'.polled
                         /\ ~row'[e].known => row'[e].status = "scheduled"
    <3>1. SUFFICES ASSUME NEW e \in Event
                   PROVE  /\ row'[e].moment <= provider[e].moment
                          /\ row'[e].polled <= run[r].at
                          /\ ~row'[e].known => row'[e].status = "scheduled"
      BY <1>15
    <3>2. row[e].polled <= feed.polled /\ row[e].moment <= provider[e].moment
          /\ (~row[e].known => row[e].status = "scheduled")
      BY DEF Fenced, Rows
    <3>3. row[e] \in RowType /\ row[e].polled \in Nat BY <1>1 DEF RowType
    <3>4. CASE Listed(r, e)
      <4>1. row'[e] = PublishedRow(r, e) BY <3>4, <1>9
      <4>2. row'[e].moment = run[r].answer[e].moment /\ row'[e].polled = run[r].at
            /\ row'[e].known
        BY <4>1 DEF PublishedRow
      <4>3. run[r].answer[e].moment <= provider[e].moment BY <3>4, <1>6 DEF Listed
      <4> QED BY <4>2, <4>3, <1>2
    <3>5. CASE ~Listed(r, e) /\ Missing(r, e)
      <4>1. row'[e].moment = row[e].moment /\ row'[e].polled = run[r].at
            /\ row'[e].known = row[e].known /\ row'[e].status = row[e].status
        BY <3>3, <3>5, <1>9 DEF RowType
      <4> QED BY <4>1, <3>2, <1>2
    <3>6. CASE ~Listed(r, e) /\ ~Missing(r, e)
      <4>1. row'[e] = row[e] BY <3>6, <1>9
      <4>2. row[e].polled <= run[r].at BY <3>2, <3>3, <1>2, <1>3, <1>6
      <4> QED BY <4>1, <4>2, <3>2
    <3> QED BY <3>4, <3>5, <3>6
  <2>2. \A l \in League : discovery'[l] <= feed'.polled
    <3>1. SUFFICES ASSUME NEW l \in League PROVE discovery'[l] <= run[r].at BY <1>15
    <3>2. discovery[l] <= feed.polled /\ discovery[l] \in Nat BY <1>1 DEF Fenced, Rows
    <3> QED BY <3>2, <1>2, <1>3, <1>6, <1>16
  <2> QED BY <2>1, <2>2, <1>2, <1>3, <1>15 DEF Rows, Current
<1>21. AvailabilityIsOffers'
  <2>1. SUFFICES ASSUME NEW e \in Event
                 PROVE  offers'[e] = IF feed'.available[e] = Unlisted THEN {}
                                     ELSE feed'.available[e]
    BY DEF AvailabilityIsOffers
  <2>2. feed'.available[e] = IF Listed(r, e) THEN run[r].answer[e].says.markets
                             ELSE IF Missing(r, e) THEN Unlisted ELSE feed.available[e]
    BY <1>6, <1>15 DEF Availability
  <2>3. CASE Listed(r, e) BY <2>2, <2>3, <1>7, <1>16, NullAssumption
  <2>4. CASE ~Listed(r, e) /\ Missing(r, e) BY <2>2, <2>4, <1>16
  <2>5. CASE ~Listed(r, e) /\ ~Missing(r, e)
    BY <2>2, <2>5, <1>16 DEF Fenced, AvailabilityIsOffers
  <2> QED BY <2>3, <2>4, <2>5
<1>22. HealthIsLatest' BY <1>15 DEF HealthIsLatest
<1>23. \A s \in Poll \ {r} : Claimed(s)' => Claimed(s) /\ run'[s].gen = run[s].gen
                                           /\ run[s].gen # feed.gen
  BY <1>4, <1>18 DEF Fenced, Fence, Claimed, Current
<1>24. Claimed(r)' => x.pc = "fail" /\ x.gen = run[r].gen /\ x.at = run[r].at
  BY <1>18 DEF Claimed
<1>25. Fence'
  <2>1. \A s \in Poll : Claimed(s)' => run'[s].gen \in 1..feed'.gen
    BY <1>4, <1>15, <1>18, <1>23, <1>24 DEF Fenced, Fence
  <2>2. \A s, u \in Poll : Claimed(s)' /\ Claimed(u)' /\ run'[s].gen = run'[u].gen => s = u
    BY <1>18, <1>23, <1>24 DEF Fenced, Fence, Current
  <2>3. \A s \in Poll : Claimed(s)' /\ Current(s)' => s = r
    BY <1>15, <1>23 DEF Current
  <2>4. Claimed(r)' => Holds(r)'
    BY <1>2, <1>15, <1>18, <1>24 DEF Holds
  <2> QED BY <2>1, <2>2, <2>3, <2>4 DEF Fence
<1> QED BY <1>19, <1>20, <1>21, <1>22, <1>25 DEF Fenced

LEMMA PublishStep ==
  ASSUME Fenced, NEW r \in Poll, Publish(r)
  PROVE  Fenced'
<1>1. Idle \in RunType /\ Idle.pc = "idle" BY AnswerParts DEF Idle
<1>2. run' = [run EXCEPT ![r] = Idle] /\ At(r, "publish") /\ UNCHANGED <<clock, provider>>
  BY DEF Publish, End
<1>3. CASE Current(r) BY <1>1, <1>2, <1>3, BatchStep DEF Publish
<1>4. CASE ~Current(r) BY <1>4, EndStep DEF Publish
<1> QED BY <1>3, <1>4

LEMMA PollFailsStep ==
  ASSUME Fenced, NEW r \in Poll, PollFails(r)
  PROVE  Fenced'
<1> DEFINE failed == [Idle EXCEPT !.pc = "fail", !.gen = run[r].gen, !.at = run[r].at]
<1>1. Idle \in RunType /\ Idle.pc = "idle" BY AnswerParts DEF Idle
<1>2. run[r] \in RunType BY DEF Fenced, Types
<1>3. run[r].gen \in Nat /\ run[r].at \in Nat BY <1>2 DEF RunType
<1>4. failed \in RunType /\ failed.pc = "fail" /\ failed.gen = run[r].gen
      /\ failed.at = run[r].at
  BY <1>1, <1>3 DEF RunType, PcType
<1>5. PICK x \in {Idle, failed} : run' = [run EXCEPT ![r] = x]
  BY DEF PollFails, Caught, End
<1> HIDE DEF failed
<1>6. x \in RunType /\ x.pc \in {"idle", "fail"}
      /\ (x.pc = "fail" => x.gen = run[r].gen /\ x.at = run[r].at)
  BY <1>1, <1>4, <1>5
<1>7. UNCHANGED <<clock, provider>> /\ run[r].pc \in {"fetch", "read", "publish"}
  BY DEF PollFails
<1>8. CASE UNCHANGED <<row, offers, discovery, feed>>
  <2>1. Claimed(r) BY <1>7 DEF Claimed
  <2>2. x.pc \in ClaimedPc => x.pc = "fail" BY <1>6 DEF ClaimedPc
  <2>3. run'[r] = x BY <1>5, <1>2 DEF Fenced, Types
  <2>4. x.pc \in ClaimedPc /\ x.gen = feed.gen => Holds(r)'
    <3>1. SUFFICES ASSUME x.pc = "fail", x.gen = feed.gen PROVE Holds(r)' BY <2>2
    <3>2. Holds(r) BY <3>1, <1>6, <2>1 DEF Fenced, Fence, Current
    <3> QED BY <3>1, <3>2, <1>6, <1>8, <2>3 DEF Holds
  <2> QED BY <1>5, <1>6, <1>7, <1>8, <2>1, <2>2, <2>4, LocalStep
<1>9. CASE At(r, "publish") /\ Current(r) /\ Batch(r)
  BY <1>5, <1>6, <1>7, <1>9, BatchStep
<1> QED BY <1>8, <1>9 DEF PollFails

LEMMA RecordFailureStep ==
  ASSUME Fenced, NEW r \in Poll, RecordFailure(r)
  PROVE  Fenced'
<1>1. End(r) /\ UNCHANGED <<clock, provider, row, offers, discovery>> BY DEF RecordFailure
<1>2. CASE UNCHANGED feed BY <1>1, <1>2, EndStep
<1>3. CASE Current(r) /\ feed' = [feed EXCEPT !.polled = run[r].at, !.failed = run[r].gen]
  <2>1. Claimed(r) BY DEF RecordFailure, At, Claimed
  <2>2. run[r].at >= feed.polled BY <1>3, <2>1 DEF Fenced, Fence, Holds
  <2>3. run[r] \in RunType /\ feed \in FeedType /\ run \in [Poll -> RunType]
    BY DEF Fenced, Types
  <2>4. run[r].at \in Nat /\ run[r].gen \in Nat /\ feed.polled \in Nat /\ feed.gen \in Nat
        /\ feed.success \in Nat /\ feed.published \in Nat
    BY <2>3 DEF RunType, FeedType
  <2>5. /\ feed' \in FeedType /\ feed'.gen = feed.gen /\ feed'.polled = run[r].at
        /\ feed'.success = feed.success /\ feed'.published = feed.published
        /\ feed'.failed = feed.gen /\ feed'.available = feed.available
    BY <1>3, <2>3, <2>4 DEF FeedType, Current
  <2>6. Idle \in RunType /\ Idle.pc = "idle" BY AnswerParts DEF Idle
  <2>7. run' \in [Poll -> RunType] /\ run'[r] = Idle /\ \A s \in Poll \ {r} : run'[s] = run[s]
    BY <1>1, <2>3, <2>6 DEF End
  <2>8. Types' BY <1>1, <2>5, <2>7 DEF Fenced, Types
  <2>9. \A e \in Event : row[e].polled \in Nat BY DEF Fenced, Types, RowType
  <2>10. \A l \in League : discovery[l] \in Nat BY DEF Fenced, Types
  <2>11. Rows' BY <1>1, <2>2, <2>4, <2>5, <2>9, <2>10 DEF Fenced, Rows
  <2>12. AvailabilityIsOffers' /\ HealthIsLatest'
    BY <1>1, <2>4, <2>5 DEF Fenced, Rows, AvailabilityIsOffers, HealthIsLatest
  <2>13. \A s \in Poll : Claimed(s)' => s # r /\ Claimed(s) /\ run'[s].gen = run[s].gen
                                      /\ run[s].gen # feed.gen
    BY <1>3, <2>1, <2>6, <2>7 DEF Fenced, Fence, Claimed, Current
  <2>14. Fence' BY <2>5, <2>13 DEF Fenced, Fence, Current
  <2> QED BY <2>8, <2>11, <2>12, <2>14 DEF Fenced
<1> QED BY <1>2, <1>3 DEF RecordFailure

LEMMA FencedStep == Fenced /\ [Next]_vars => Fenced'
<1> SUFFICES ASSUME Fenced, [Next]_vars PROVE Fenced' OBVIOUS
<1>1. CASE ClockMoves \/ \E e \in Event : ProviderChanges(e) BY <1>1, EnvironmentStep
<1>2. ASSUME NEW r \in Poll, Start(r) PROVE Fenced' BY <1>2, StartStep
<1>3. ASSUME NEW r \in Poll, Preflight(r) PROVE Fenced' BY <1>3, PreflightStep
<1>4. ASSUME NEW r \in Poll, Claim(r) PROVE Fenced' BY <1>4, ClaimStep
<1>5. ASSUME NEW r \in Poll, DecideDue(r) PROVE Fenced' BY <1>5, DecideDueStep
<1>6. ASSUME NEW r \in Poll, NEW l \in League, FetchLeague(r, l) PROVE Fenced'
  BY <1>6, FetchLeagueStep
<1>7. ASSUME NEW r \in Poll, ReadRows(r) PROVE Fenced' BY <1>7, ReadRowsStep
<1>8. ASSUME NEW r \in Poll, Publish(r) PROVE Fenced' BY <1>8, PublishStep
<1>9. ASSUME NEW r \in Poll, PollFails(r) PROVE Fenced' BY <1>9, PollFailsStep
<1>10. ASSUME NEW r \in Poll, RecordFailure(r) PROVE Fenced' BY <1>10, RecordFailureStep
<1>11. ASSUME NEW r \in Poll, Stop(r) PROVE Fenced' BY <1>11, EndStep DEF Stop
<1>12. CASE UNCHANGED vars
  BY <1>12 DEF vars, Fenced, Types, Rows, Fence, Claimed, Current, Holds,
     AvailabilityIsOffers, HealthIsLatest
<1> QED BY <1>1, <1>2, <1>3, <1>4, <1>5, <1>6, <1>7, <1>8, <1>9, <1>10, <1>11, <1>12 DEF Next

-----------------------------------------------------------------------------
(* The theorems *)

\* The generation fences: whoever holds the newest one holds what the rows still are.
THEOREM GenerationFences == Spec => []Fenced
<1> QED BY InitFenced, FencedStep, PTL DEF Spec

\* The cached availability agrees with the offers (ingestion.ts:106-139).
THEOREM AvailabilityAlwaysAgrees == Spec => []AvailabilityIsOffers
<1>1. Fenced => AvailabilityIsOffers BY DEF Fenced
<1> QED BY <1>1, GenerationFences, PTL

\* A superseded poll never reports its failure (ingestion.ts:144-173).
THEOREM HealthIsAlwaysLatest == Spec => []HealthIsLatest
<1>1. Fenced => HealthIsLatest BY DEF Fenced
<1> QED BY <1>1, GenerationFences, PTL

\* Both: what is published beside the rows agrees with them (ingestion.ts:106-139).
THEOREM PublicationAlwaysAgrees == Spec => []PublicationAgrees
<1>1. AvailabilityIsOffers /\ HealthIsLatest => PublicationAgrees BY DEF PublicationAgrees
<1> QED BY <1>1, AvailabilityAlwaysAgrees, HealthIsAlwaysLatest, PTL

-----------------------------------------------------------------------------
(* Action properties *)

\* Every step that writes rows is the batch of the poll with the newest generation.
LEMMA RowsChangeByBatch ==
  ASSUME [Next]_vars
  PROVE  \/ UNCHANGED <<row, discovery>> /\ UNCHANGED <<feed.polled, feed.success>>
         \/ UNCHANGED <<row, discovery>>
            /\ \E r \in Poll : /\ At(r, "fail") /\ Current(r)
                               /\ feed' = [feed EXCEPT !.polled = run[r].at,
                                                       !.failed = run[r].gen]
         \/ \E r \in Poll : At(r, "publish") /\ Current(r) /\ Batch(r)
<1> DEFINE Goal == \/ UNCHANGED <<row, discovery>> /\ UNCHANGED <<feed.polled, feed.success>>
                   \/ UNCHANGED <<row, discovery>>
                      /\ \E r \in Poll : /\ At(r, "fail") /\ Current(r)
                                         /\ feed' = [feed EXCEPT !.polled = run[r].at,
                                                                 !.failed = run[r].gen]
                   \/ \E r \in Poll : At(r, "publish") /\ Current(r) /\ Batch(r)
<1>1. CASE ClockMoves BY <1>1 DEF ClockMoves
<1>2. ASSUME NEW e \in Event, ProviderChanges(e) PROVE Goal BY <1>2 DEF ProviderChanges
<1>3. ASSUME NEW r \in Poll, Start(r) PROVE Goal BY <1>3 DEF Start
<1>4. ASSUME NEW r \in Poll, Preflight(r) PROVE Goal BY <1>4 DEF Preflight
<1>5. ASSUME NEW r \in Poll, Claim(r) PROVE Goal
  <2>1. UNCHANGED <<row, discovery>> /\ feed' = [feed EXCEPT !.gen = feed.gen + 1]
    BY <1>5 DEF Claim
  <2>2. feed'.polled = feed.polled /\ feed'.success = feed.success BY <2>1
  <2> QED BY <2>1, <2>2
<1>6. ASSUME NEW r \in Poll, DecideDue(r) PROVE Goal BY <1>6 DEF DecideDue
<1>7. ASSUME NEW r \in Poll, NEW l \in League, FetchLeague(r, l) PROVE Goal
  BY <1>7 DEF FetchLeague
<1>8. ASSUME NEW r \in Poll, ReadRows(r) PROVE Goal BY <1>8 DEF ReadRows
<1>9. ASSUME NEW r \in Poll, Publish(r) PROVE Goal BY <1>9 DEF Publish
<1>10. ASSUME NEW r \in Poll, PollFails(r) PROVE Goal BY <1>10 DEF PollFails
<1>11. ASSUME NEW r \in Poll, RecordFailure(r) PROVE Goal BY <1>11 DEF RecordFailure
<1>12. ASSUME NEW r \in Poll, Stop(r) PROVE Goal BY <1>12 DEF Stop
<1>13. CASE UNCHANGED vars BY <1>13 DEF vars
<1> QED BY <1>1, <1>2, <1>3, <1>4, <1>5, <1>6, <1>7, <1>8, <1>9, <1>10, <1>11, <1>12, <1>13
        DEF Next

\* What the batch of the newest generation finds and leaves.
LEMMA BatchRows ==
  ASSUME Fenced, NEW r \in Poll, At(r, "publish"), Current(r), Batch(r), NEW e \in Event
  PROVE  /\ row[e] \in RowType
         /\ Listed(r, e) =>
              /\ row'[e] = PublishedRow(r, e)
              /\ run[r].old[e] = row[e]
              /\ run[r].answer[e].says \in Answer
              /\ run[r].answer[e].moment \in Nat
              /\ row[e].moment <= run[r].answer[e].moment
         /\ ~Listed(r, e) => \/ row'[e] = row[e]
                             \/ row'[e] = [row[e] EXCEPT !.omitted = TRUE, !.polled = run[r].at]
<1>1. run[r] \in RunType /\ row \in [Event -> RowType] BY DEF Fenced, Types
<1>2. Claimed(r) /\ run[r].pc = "publish" BY DEF At, Claimed
<1>3. Holds(r) BY <1>2 DEF Fenced, Fence
<1>4. run[r].answer[e] \in AnswerType BY <1>1 DEF RunType
<1>5. row'[e] = IF Listed(r, e) THEN PublishedRow(r, e)
                ELSE IF Missing(r, e)
                     THEN [row[e] EXCEPT !.omitted = TRUE, !.polled = run[r].at]
                     ELSE row[e]
  BY DEF Batch
<1>6. Listed(r, e) => /\ run[r].answer[e].says \in Answer
                      /\ row[e].moment <= run[r].answer[e].moment
                      /\ run[r].old[e] = row[e]
  BY <1>2, <1>3, <1>4 DEF Holds, Listed, Covers, AnswerType
<1> QED BY <1>1, <1>4, <1>5, <1>6 DEF AnswerType

Advance ==
  /\ feed'.polled >= feed.polled /\ feed'.success >= feed.success
  /\ \A l \in League : discovery'[l] >= discovery[l]
  /\ \A e \in Event : row'[e].polled >= row[e].polled

LEMMA AdvanceStep == Fenced /\ [Next]_vars => Advance
<1> SUFFICES ASSUME Fenced, [Next]_vars PROVE Advance OBVIOUS
<1>1. feed \in FeedType /\ row \in [Event -> RowType] /\ discovery \in [League -> Nat]
      /\ run \in [Poll -> RunType]
  BY DEF Fenced, Types
<1>2. /\ feed.polled \in Nat /\ feed.success \in Nat
      /\ \A e \in Event : row[e].polled \in Nat
      /\ \A l \in League : discovery[l] \in Nat
      /\ \A r \in Poll : run[r].at \in Nat
  BY <1>1 DEF FeedType, RowType, RunType
<1>3. CASE UNCHANGED <<row, discovery>> /\ UNCHANGED <<feed.polled, feed.success>>
  BY <1>2, <1>3 DEF Advance
<1>4. ASSUME UNCHANGED <<row, discovery>>, NEW r \in Poll, At(r, "fail"), Current(r),
             feed' = [feed EXCEPT !.polled = run[r].at, !.failed = run[r].gen]
      PROVE  Advance
  <2>1. run[r].at >= feed.polled BY <1>4 DEF Fenced, Fence, Holds, Claimed, At
  <2>2. feed'.polled = run[r].at /\ feed'.success = feed.success BY <1>1, <1>4 DEF FeedType
  <2> QED BY <1>2, <1>4, <2>1, <2>2 DEF Advance
<1>5. ASSUME NEW r \in Poll, At(r, "publish"), Current(r), Batch(r) PROVE Advance
  <2>1. run[r].at >= feed.polled BY <1>5 DEF Fenced, Fence, Holds, Claimed, At
  <2>2. feed.success <= feed.polled /\ (\A l \in League : discovery[l] <= feed.polled)
        /\ \A e \in Event : row[e].polled <= feed.polled
    BY DEF Fenced, Rows
  <2>3. feed'.polled = run[r].at /\ feed'.success = run[r].at
    BY <1>1, <1>5 DEF Batch, FeedType
  <2>4. \A l \in League : discovery'[l] >= discovery[l]
    <3>1. SUFFICES ASSUME NEW l \in League PROVE discovery'[l] >= discovery[l] OBVIOUS
    <3>2. discovery'[l] \in {run[r].at, discovery[l]} BY <1>5 DEF Batch
    <3> QED BY <3>2, <1>2, <2>1, <2>2
  <2>5. \A e \in Event : row'[e].polled >= row[e].polled
    <3>1. SUFFICES ASSUME NEW e \in Event PROVE row'[e].polled >= row[e].polled OBVIOUS
    <3>2. row'[e].polled \in {run[r].at, row[e].polled}
      <4>1. CASE Listed(r, e)
        <5>1. row'[e] = PublishedRow(r, e) BY <4>1, <1>5, BatchRows
        <5>2. PublishedRow(r, e).polled = run[r].at BY DEF PublishedRow
        <5> QED BY <5>1, <5>2
      <4>2. CASE ~Listed(r, e)
        <5>1. row[e] \in RowType BY <1>5, BatchRows
        <5>2. [row[e] EXCEPT !.omitted = TRUE, !.polled = run[r].at].polled = run[r].at
          BY <5>1 DEF RowType
        <5> QED BY <4>2, <5>2, <1>5, BatchRows
      <4> QED BY <4>1, <4>2
    <3> QED BY <3>2, <1>2, <2>1, <2>2
  <2> QED BY <1>2, <2>1, <2>2, <2>3, <2>4, <2>5 DEF Advance
<1> QED BY <1>3, <1>4, <1>5, RowsChangeByBatch

\* Times never go back, whatever the clock does (ingestion.ts:70-74).
THEOREM TimesAlwaysAdvance == Spec => TimesAdvance
<1>1. Fenced /\ [Next]_vars => [Advance]_vars BY AdvanceStep
<1>2. Spec => [][Advance]_vars BY <1>1, GenerationFences, PTL DEF Spec
<1> QED BY <1>2 DEF TimesAdvance, Advance

-----------------------------------------------------------------------------
(* Ingestion implements the register *)

RowsShown == [e \in Event |-> [moment |-> row[e].moment, result |-> Outcome(e),
                           version |-> row[e].version]]

LEMMA InitShown == Init => Register!Init
<1> SUFFICES ASSUME Init PROVE Register!Init OBVIOUS
<1>1. \A e \in Event : row[e] = NoRow BY DEF Init
<1>2. \A e \in Event : Outcome(e) = NoResult /\ row[e].moment = 0 /\ row[e].version = 0
  <2>1. \A e \in Event : row[e].status = "scheduled" /\ row[e].moment = 0 /\ row[e].version = 0
    <3>1. NoRow.status = "scheduled" /\ NoRow.moment = 0 /\ NoRow.version = 0 BY DEF NoRow
    <3> QED BY <1>1, <3>1
  <2>2. "scheduled" \notin Terminal BY DEF Terminal
  <2> QED BY <2>1, <2>2 DEF Outcome
<1> QED BY <1>2 DEF Register!Init, Register!Blank

\* A listed event is learned of as the register says, at a moment no earlier.
LEMMA ListedIsLearned ==
  ASSUME Fenced, NEW r \in Poll, At(r, "publish"), Current(r), Batch(r),
         NEW e \in Event, Listed(r, e)
  PROVE  /\ row'[e].moment >= row[e].moment
         /\ Outcome(e)' \in [status: Terminal, score: Score] \cup {NoResult}
         /\ row'[e].version = IF Outcome(e)' \in {NoResult, Outcome(e)} THEN row[e].version
                              ELSE row[e].version + 1
<1> DEFINE a == run[r].answer[e].says
<1>1. /\ row[e] \in RowType /\ row'[e] = PublishedRow(r, e) /\ run[r].old[e] = row[e]
      /\ a \in Answer /\ run[r].answer[e].moment \in Nat
      /\ row[e].moment <= run[r].answer[e].moment
  BY BatchRows
<1>2. /\ row'[e].moment = run[r].answer[e].moment
      /\ row'[e].status = a.status /\ row'[e].score = a.score
      /\ row'[e].version = CorrectionVersion(row[e], a)
  BY <1>1 DEF PublishedRow
<1>3. row[e].moment \in Nat /\ row[e].version \in Nat BY <1>1 DEF RowType
<1>4. Outcome(e)' = IF a.status \in Terminal THEN [status |-> a.status, score |-> a.score]
                    ELSE NoResult
  BY <1>2 DEF Outcome
<1>5. a.score \in Score /\ a.status \in Status /\ row[e].score \in Score
  BY <1>1, AnswerParts DEF RowType
<1>6. ~row[e].known => row[e].status = "scheduled" BY DEF Fenced, Rows
<1>7. CASE a.status \notin Terminal
  BY <1>1, <1>2, <1>3, <1>4, <1>7 DEF CorrectionVersion
<1>8. CASE a.status \in Terminal
  <2>1. Outcome(e)' = [status |-> a.status, score |-> a.score] BY <1>4, <1>8
  <2>2. Outcome(e)' # NoResult /\ Outcome(e)' \in [status: Terminal, score: Score]
    BY <2>1, <1>5, <1>8, ResultAssumption
  <2>3. Outcome(e)' = Outcome(e)
          <=> row[e].known /\ row[e].status = a.status /\ row[e].score = a.score
    <3>1. CASE row[e].status \in Terminal
      <4>1. Outcome(e) = [status |-> row[e].status, score |-> row[e].score]
        BY <3>1 DEF Outcome
      <4>2. row[e].known BY <3>1, <1>6 DEF Terminal
      <4>3. ([status |-> a.status, score |-> a.score]
               = [status |-> row[e].status, score |-> row[e].score])
              <=> (row[e].status = a.status /\ row[e].score = a.score)
        OBVIOUS
      <4> QED BY <4>1, <4>2, <4>3, <2>1
    <3>2. CASE row[e].status \notin Terminal
      BY <3>2, <2>2, <1>8 DEF Outcome
    <3> QED BY <3>1, <3>2
  <2> QED BY <2>2, <2>3, <1>1, <1>2, <1>3, <1>8 DEF CorrectionVersion
<1> QED BY <1>7, <1>8

LEMMA ShownStep == Fenced /\ [Next]_vars => [Register!Next]_RowsShown
<1> SUFFICES ASSUME Fenced, [Next]_vars PROVE [Register!Next]_RowsShown OBVIOUS
<1>1. CASE UNCHANGED row BY <1>1 DEF RowsShown, Outcome
<1>2. ASSUME NEW r \in Poll, At(r, "publish"), Current(r), Batch(r)
      PROVE  Register!Next
  <2> DEFINE known == {e \in Event : Listed(r, e)}
  <2>1. \A e \in Event \ known : RowsShown'[e] = RowsShown[e]
    <3>1. SUFFICES ASSUME NEW e \in Event, ~Listed(r, e) PROVE RowsShown'[e] = RowsShown[e]
      OBVIOUS
    <3>2. row[e] \in RowType BY <1>2, BatchRows
    <3>3. row'[e].moment = row[e].moment /\ row'[e].version = row[e].version
          /\ row'[e].status = row[e].status /\ row'[e].score = row[e].score
      <4>1. CASE row'[e] = row[e] BY <4>1
      <4>2. CASE row'[e] = [row[e] EXCEPT !.omitted = TRUE, !.polled = run[r].at]
        BY <4>2, <3>2 DEF RowType
      <4> QED BY <4>1, <4>2, <1>2, <3>1, BatchRows
    <3> QED BY <3>3 DEF RowsShown, Outcome
  <2>2. \A e \in known :
          /\ RowsShown'[e].moment >= RowsShown[e].moment
          /\ RowsShown'[e].result \in [status: Terminal, score: Score] \cup {NoResult}
          /\ RowsShown'[e] = Register!Learned(RowsShown[e], RowsShown'[e].moment, RowsShown'[e].result)
    <3>1. SUFFICES ASSUME NEW e \in Event, Listed(r, e)
                   PROVE  /\ RowsShown'[e].moment >= RowsShown[e].moment
                          /\ RowsShown'[e].result \in [status: Terminal, score: Score] \cup {NoResult}
                          /\ RowsShown'[e] = Register!Learned(RowsShown[e], RowsShown'[e].moment,
                                                          RowsShown'[e].result)
      OBVIOUS
    <3>2. RowsShown[e] = [moment |-> row[e].moment, result |-> Outcome(e), version |-> row[e].version]
          /\ RowsShown'[e] = [moment |-> row'[e].moment, result |-> Outcome(e)',
                          version |-> row'[e].version]
      BY DEF RowsShown
    <3> QED BY <1>2, <3>1, <3>2, ListedIsLearned DEF Register!Learned
  <2>3. RowsShown' = [e \in Event |-> IF e \in known THEN RowsShown'[e] ELSE RowsShown[e]]
    <3>1. RowsShown' = [e \in Event |-> RowsShown'[e]] BY DEF RowsShown
    <3> QED BY <3>1, <2>1
  <2>4. known \in SUBSET Event OBVIOUS
  <2> HIDE DEF known
  <2> QED BY <2>2, <2>3, <2>4 DEF Register!Next, Register!Publish, RowsShown
<1> QED BY <1>1, <1>2, RowsChangeByBatch

\* Overlapping polls, whatever fails, give settlement a register of results whose
\* versions never name two results (ingestion.ts:121-140).
THEOREM IngestionIsARegister == Spec => ResultsAreARegister
<1>1. Fenced /\ [Next]_vars => [Register!Next]_RowsShown BY ShownStep
<1>2. Spec => Register!Init /\ [][Register!Next]_RowsShown
  BY <1>1, InitShown, GenerationFences, PTL DEF Spec
<1> QED BY <1>2, PTL DEF ResultsAreARegister, Register!Spec, RowsShown

-----------------------------------------------------------------------------
(***************************************************************************)
(* Types within the bounds.  That a version counts no more corrections     *)
(* than the provider made changes needs that of one moment of the provider *)
(* one thing is said, whichever poll carries it.                           *)
(***************************************************************************)

NoAnswer == [says |-> Absent, moment |-> 0]

\* What is said of an event: by the provider now, and by each poll that asked.
Tellings(e) == {provider[e]} \cup {run[r].answer[e] : r \in Poll}

\* Of one moment one thing is said, and nothing of a moment still to come.
Told(S, p) ==
  /\ \A t, u \in S : t.moment = u.moment => t.says = u.says
  /\ \A t \in S : t.moment <= p.moment /\ (t.moment = 0 => t.says = Absent)

\* A row shows what is said of its moment, and has seen a change for each version.
Shows(x, S) ==
  /\ x.version <= x.moment
  /\ ~x.known => x.moment = 0
  /\ x.known => x.moment # 0
  /\ \A t \in S : x.known /\ t.moment = x.moment
        => t.says # Absent /\ t.says.status = x.status /\ t.says.score = x.score

OneAnswerEach == \A e \in Event : Told(Tellings(e), provider[e]) /\ Shows(row[e], Tellings(e))

RunBounded(x, gen) ==
  /\ x.now <= MaxTime /\ x.at <= MaxTime /\ x.gen <= gen /\ x.todo \subseteq x.due

FeedBounded(x) ==
  /\ x.gen <= MaxGeneration /\ x.polled <= MaxTime /\ x.failed <= x.gen
  /\ x.backoff \in {0, BackoffInterval}

Bounded ==
  /\ clock \in 1..MaxTime
  /\ \A e \in Event : provider[e].moment <= MaxChanges /\ row[e].finalized <= MaxTime
  /\ FeedBounded(feed)
  /\ \A r \in Poll : RunBounded(run[r], feed.gen)

FeedInv == Fenced /\ OneAnswerEach /\ Bounded

\* The poll s may hold x next: it has what it had, has just asked or has nothing.
Fits(x, s, gen) ==
  /\ \A e \in Event : x.answer[e] \in {run[s].answer[e], provider[e], NoAnswer}
  /\ RunBounded(x, gen)

LEMMA OneRunFits ==
  ASSUME Fenced, Bounded, NEW r \in Poll, NEW x, run' = [run EXCEPT ![r] = x],
         feed'.gen \in Nat, feed'.gen >= feed.gen, Fits(x, r, feed'.gen)
  PROVE  \A s \in Poll : Fits(run'[s], s, feed'.gen)
<1> SUFFICES ASSUME NEW s \in Poll PROVE Fits(run'[s], s, feed'.gen) OBVIOUS
<1>1. run \in [Poll -> RunType] /\ feed \in FeedType BY DEF Fenced, Types
<1>2. CASE s = r
  <2>1. run'[s] = x BY <1>1, <1>2
  <2> QED BY <2>1, <1>2
<1>3. CASE s # r
  <2>1. run'[s] = run[s] /\ run[s].gen \in Nat /\ feed.gen \in Nat
    BY <1>1, <1>3 DEF RunType, FeedType
  <2>2. RunBounded(run[s], feed.gen) BY DEF Bounded
  <2> QED BY <2>1, <2>2 DEF Fits, RunBounded
<1> QED BY <1>2, <1>3

\* An idle poll, and one that will only report a failure, hold no answers.
LEMMA IdleFits ==
  ASSUME Fenced, Bounded, NEW r \in Poll, NEW now \in Nat, now <= MaxTime,
         NEW gen \in Nat, NEW at \in Nat, at <= MaxTime, NEW bound \in Nat, gen <= bound,
         NEW pc \in PcType, NEW backoff \in Nat, NEW due \in SUBSET League
  PROVE  /\ Fits(Idle, r, bound)
         /\ Fits([Idle EXCEPT !.pc = pc, !.gen = gen, !.at = at], r, bound)
         /\ Fits([Idle EXCEPT !.now = now, !.backoff = backoff, !.pc = pc, !.due = due],
                 r, bound)
<1>1. MaxTime \in Nat BY BoundAssumption
<1>2. /\ Idle.answer = [e \in Event |-> NoAnswer] /\ Idle.now = 0 /\ Idle.at = 0
      /\ Idle.gen = 0 /\ Idle.todo = {} /\ Idle \in RunType
  BY AnswerParts DEF Idle, NoAnswer
<1>3. \A e \in Event : Idle.answer[e] = NoAnswer BY <1>2
<1> DEFINE x == [Idle EXCEPT !.pc = pc, !.gen = gen, !.at = at]
           y == [Idle EXCEPT !.now = now, !.backoff = backoff, !.pc = pc, !.due = due]
<1>4. x.answer = Idle.answer /\ x.now = 0 /\ x.at = at /\ x.gen = gen /\ x.todo = {}
  BY <1>2 DEF RunType
<1>5. y.answer = Idle.answer /\ y.now = now /\ y.at = 0 /\ y.gen = 0 /\ y.todo = {}
  BY <1>2 DEF RunType
<1> HIDE DEF x, y
<1>6. Fits(Idle, r, bound) BY <1>1, <1>2, <1>3 DEF Fits, RunBounded
<1>7. Fits(x, r, bound) BY <1>1, <1>3, <1>4 DEF Fits, RunBounded
<1>8. Fits(y, r, bound) BY <1>1, <1>3, <1>5 DEF Fits, RunBounded
<1> QED BY <1>6, <1>7, <1>8 DEF x, y

\* What a poll that has claimed nothing since holds goes on to fit.
LEMMA KeptFits ==
  ASSUME Fenced, Bounded, NEW r \in Poll, NEW x \in RunType, x.answer = run[r].answer,
         x.now \in {0, run[r].now}, x.at = run[r].at, x.gen = run[r].gen,
         x.todo \subseteq x.due
  PROVE  Fits(x, r, feed.gen)
<1>1. RunBounded(run[r], feed.gen) BY DEF Bounded
<1>2. MaxTime \in Nat BY BoundAssumption
<1> QED BY <1>1, <1>2 DEF Fits, RunBounded

LEMMA EndFits ==
  ASSUME Fenced, Bounded, NEW r \in Poll, End(r), feed'.gen \in Nat, feed'.gen >= feed.gen
  PROVE  \A s \in Poll : Fits(run'[s], s, feed'.gen)
<1>1. 0 \in Nat /\ 0 <= MaxTime /\ 0 <= feed'.gen /\ "idle" \in PcType /\ {} \in SUBSET League
  BY BoundAssumption DEF PcType
<1>2. Fits(Idle, r, feed'.gen) BY <1>1, IdleFits
<1> QED BY <1>2, OneRunFits DEF End

LEMMA StartFits ==
  ASSUME Fenced, Bounded, NEW r \in Poll, Start(r)
  PROVE  \A s \in Poll : Fits(run'[s], s, feed'.gen)
<1>1. feed' = feed /\ feed.gen \in Nat /\ feed.backoff \in Nat /\ clock \in Nat
      /\ clock <= MaxTime
  BY DEF Fenced, Types, FeedType, Start, Bounded
<1>9. feed'.gen \in Nat /\ feed'.gen >= feed.gen
  <2>1. feed'.gen = feed.gen BY <1>1
  <2> QED BY <2>1, <1>1
<1>2. PICK due \in SUBSET League :
        run' = [run EXCEPT ![r] =
                 [Idle EXCEPT !.now = clock, !.backoff = feed.backoff,
                              !.pc  = IF r \in Cron THEN "preflight" ELSE "claim",
                              !.due = IF r \in Cron THEN {} ELSE due]]
  BY DEF Start
<1> DEFINE pc == IF r \in Cron THEN "preflight" ELSE "claim"
           dues == IF r \in Cron THEN {} ELSE due
           x == [Idle EXCEPT !.now = clock, !.backoff = feed.backoff, !.pc = pc, !.due = dues]
<1>3. run' = [run EXCEPT ![r] = x] BY <1>2
<1>4. pc \in PcType /\ dues \in SUBSET League /\ 0 \in Nat /\ 0 <= MaxTime /\ 0 <= feed.gen
  BY <1>1, BoundAssumption DEF PcType
<1> HIDE DEF pc, dues
<1>5. Fits(x, r, feed'.gen) BY <1>1, <1>4, IdleFits
<1> HIDE DEF x
<1> QED BY <1>3, <1>5, <1>9, OneRunFits

LEMMA PreflightFits ==
  ASSUME Fenced, Bounded, NEW r \in Poll, Preflight(r)
  PROVE  \A s \in Poll : Fits(run'[s], s, feed'.gen)
<1>1. feed' = feed /\ feed.gen \in Nat /\ run[r] \in RunType
  BY DEF Fenced, Types, FeedType, Preflight
<1>9. feed'.gen \in Nat /\ feed'.gen >= feed.gen
  <2>1. feed'.gen = feed.gen BY <1>1
  <2> QED BY <2>1, <1>1
<1>2. CASE End(r) BY <1>1, <1>2, EndFits
<1>3. CASE run' = [run EXCEPT ![r].pc = "claim", ![r].backoff = 0]
  <2> DEFINE x == [run[r] EXCEPT !.pc = "claim", !.backoff = 0]
  <2>1. x \in RunType /\ x.answer = run[r].answer /\ x.now = run[r].now /\ x.at = run[r].at
        /\ x.gen = run[r].gen /\ x.todo = run[r].todo /\ x.due = run[r].due
    BY <1>1 DEF RunType, PcType
  <2>2. run' = [run EXCEPT ![r] = x] BY <1>3
  <2> HIDE DEF x
  <2>3. x.todo \subseteq x.due BY <2>1 DEF Bounded, RunBounded
  <2>4. Fits(x, r, feed'.gen) BY <1>1, <2>1, <2>3, KeptFits
  <2> QED BY <1>9, <2>2, <2>4, OneRunFits
<1> QED BY <1>2, <1>3 DEF Preflight

LEMMA ClaimFits ==
  ASSUME Fenced, Bounded, NEW r \in Poll, Claim(r)
  PROVE  FeedBounded(feed') /\ \A s \in Poll : Fits(run'[s], s, feed'.gen)
<1> DEFINE at == Max({run[r].now, feed.polled, feed.success})
           x == [run[r] EXCEPT !.pc = "due", !.gen = feed.gen + 1, !.at = at,
                               !.backoff = feed.backoff, !.available = feed.available]
<1>1. run[r] \in RunType /\ feed \in FeedType BY DEF Fenced, Types
<1>2. /\ run[r].now \in Nat /\ feed.polled \in Nat /\ feed.success \in Nat
      /\ feed.gen \in Nat /\ feed.failed \in Nat /\ MaxGeneration \in Nat /\ MaxTime \in Nat
  BY <1>1, BoundAssumption DEF RunType, FeedType
<1>3. /\ run[r].now <= MaxTime /\ feed.polled <= MaxTime /\ feed.success <= feed.polled
      /\ feed.failed <= feed.gen /\ feed.backoff \in {0, BackoffInterval}
      /\ run[r].todo \subseteq run[r].due
  BY DEF Bounded, FeedBounded, RunBounded, Fenced, Rows
<1>4. at <= MaxTime BY <1>2, <1>3, MaxOfThree
<1>5. feed' = [feed EXCEPT !.gen = feed.gen + 1] /\ feed.gen < MaxGeneration
  BY DEF Claim
<1>6. feed'.gen = feed.gen + 1 /\ feed'.polled = feed.polled /\ feed'.failed = feed.failed
      /\ feed'.backoff = feed.backoff
  BY <1>1, <1>5 DEF FeedType
<1>7. FeedBounded(feed') BY <1>2, <1>3, <1>5, <1>6 DEF FeedBounded
<1>8. run' = [run EXCEPT ![r].pc = "due", ![r].gen = feed.gen + 1, ![r].at = at,
                         ![r].backoff = feed.backoff, ![r].available = feed.available]
  BY DEF Claim
<1> HIDE DEF at
<1>9. run' = [run EXCEPT ![r] = x] BY <1>8
<1>10. x.answer = run[r].answer /\ x.now = run[r].now /\ x.at = at /\ x.gen = feed.gen + 1
       /\ x.todo = run[r].todo /\ x.due = run[r].due
  BY <1>1 DEF RunType
<1> HIDE DEF x
<1>11. Fits(x, r, feed'.gen) BY <1>2, <1>3, <1>4, <1>6, <1>10 DEF Fits, RunBounded
<1>12. feed'.gen \in Nat /\ feed'.gen >= feed.gen BY <1>2, <1>6
<1> QED BY <1>7, <1>9, <1>11, <1>12, OneRunFits

LEMMA DecideDueFits ==
  ASSUME Fenced, Bounded, NEW r \in Poll, DecideDue(r)
  PROVE  \A s \in Poll : Fits(run'[s], s, feed'.gen)
<1> DEFINE due == IF r \in Cron THEN DueLeagues(run[r].now, run[r].backoff)
                  ELSE IF run[r].backoff > 0 THEN {} ELSE run[r].due
           x == [run[r] EXCEPT !.pc = "fetch", !.due = due, !.todo = due,
                               !.now = 0, !.backoff = 0]
<1>1. feed' = feed /\ feed.gen \in Nat /\ run[r] \in RunType
  BY DEF Fenced, Types, FeedType, DecideDue
<1>9. feed'.gen \in Nat /\ feed'.gen >= feed.gen
  <2>1. feed'.gen = feed.gen BY <1>1
  <2> QED BY <2>1, <1>1
<1>2. due \in SUBSET League BY <1>1 DEF DueLeagues, RunType
<1>3. CASE due = {} BY <1>1, <1>3, EndFits DEF DecideDue
<1>4. CASE due # {}
  <2>1. run' = [run EXCEPT ![r].pc = "fetch", ![r].due = due, ![r].todo = due,
                           ![r].now = 0, ![r].backoff = 0]
    BY <1>4 DEF DecideDue
  <2> HIDE DEF due
  <2>2. run' = [run EXCEPT ![r] = x] BY <2>1
  <2>3. x \in RunType /\ x.answer = run[r].answer /\ x.now = 0 /\ x.at = run[r].at
        /\ x.gen = run[r].gen /\ x.todo = x.due
    BY <1>1, <1>2 DEF RunType, PcType
  <2> HIDE DEF x
  <2>4. Fits(x, r, feed'.gen) BY <1>1, <2>3, KeptFits
  <2> QED BY <1>9, <2>2, <2>4, OneRunFits
<1> QED BY <1>3, <1>4

LEMMA FetchLeagueFits ==
  ASSUME Fenced, Bounded, NEW r \in Poll, NEW l \in League, FetchLeague(r, l)
  PROVE  \A s \in Poll : Fits(run'[s], s, feed'.gen)
<1> DEFINE answer == [e \in Event |-> IF LeagueOf[e] = l THEN provider[e]
                                      ELSE run[r].answer[e]]
           pc == IF run[r].todo = {l} THEN "read" ELSE "fetch"
           x == [run[r] EXCEPT !.todo = run[r].todo \ {l}, !.pc = pc, !.answer = answer]
<1>1. feed' = feed /\ feed.gen \in Nat /\ run[r] \in RunType
  BY DEF Fenced, Types, FeedType, FetchLeague
<1>9. feed'.gen \in Nat /\ feed'.gen >= feed.gen
  <2>1. feed'.gen = feed.gen BY <1>1
  <2> QED BY <2>1, <1>1
<1>2. run' = [run EXCEPT ![r] = x] BY DEF FetchLeague
<1>3. \A e \in Event : answer[e] \in {run[r].answer[e], provider[e], NoAnswer} OBVIOUS
<1> HIDE DEF answer
<1>4. x.answer = answer /\ x.now = run[r].now /\ x.at = run[r].at /\ x.gen = run[r].gen
      /\ x.todo = run[r].todo \ {l} /\ x.due = run[r].due
  BY <1>1 DEF RunType
<1> HIDE DEF x
<1>5. RunBounded(run[r], feed.gen) BY DEF Bounded
<1>6. Fits(x, r, feed'.gen) BY <1>1, <1>3, <1>4, <1>5 DEF Fits, RunBounded
<1> QED BY <1>2, <1>6, <1>9, OneRunFits

LEMMA ReadRowsFits ==
  ASSUME Fenced, Bounded, NEW r \in Poll, ReadRows(r)
  PROVE  \A s \in Poll : Fits(run'[s], s, feed'.gen)
<1> DEFINE x == [run[r] EXCEPT !.pc = "publish", !.old = row]
<1>1. feed' = feed /\ feed.gen \in Nat /\ run[r] \in RunType /\ row \in [Event -> RowType]
  BY DEF Fenced, Types, FeedType, ReadRows
<1>9. feed'.gen \in Nat /\ feed'.gen >= feed.gen
  <2>1. feed'.gen = feed.gen BY <1>1
  <2> QED BY <2>1, <1>1
<1>2. run' = [run EXCEPT ![r] = x] BY DEF ReadRows
<1>3. x \in RunType /\ x.answer = run[r].answer /\ x.now = run[r].now /\ x.at = run[r].at
      /\ x.gen = run[r].gen /\ x.todo = run[r].todo /\ x.due = run[r].due
  BY <1>1 DEF RunType, PcType
<1> HIDE DEF x
<1>4. x.todo \subseteq x.due BY <1>3 DEF Bounded, RunBounded
<1>5. Fits(x, r, feed'.gen) BY <1>1, <1>3, <1>4, KeptFits
<1> QED BY <1>2, <1>5, <1>9, OneRunFits

\* The batch keeps the feed and the rows within the bounds.
LEMMA BatchBounded ==
  ASSUME Fenced, Bounded, NEW r \in Poll, At(r, "publish"), Current(r), Batch(r)
  PROVE  /\ FeedBounded(feed') /\ feed'.gen = feed.gen
         /\ \A e \in Event : row'[e].finalized <= MaxTime
<1>1. run[r] \in RunType /\ feed \in FeedType /\ row \in [Event -> RowType]
  BY DEF Fenced, Types
<1>2. /\ run[r].at \in Nat /\ run[r].at <= MaxTime /\ feed.gen \in Nat /\ MaxTime \in Nat
      /\ feed.gen <= MaxGeneration /\ feed.backoff \in {0, BackoffInterval}
  BY <1>1, BoundAssumption DEF RunType, FeedType, Bounded, RunBounded, FeedBounded
<1>3. PICK backoff \in BackoffAfter :
        feed' = [feed EXCEPT !.backoff = backoff, !.polled = run[r].at,
                             !.success = run[r].at, !.failed = 0,
                             !.published = run[r].gen, !.available = Availability(r)]
  BY DEF Batch
<1>4. feed'.gen = feed.gen /\ feed'.polled = run[r].at /\ feed'.failed = 0
      /\ feed'.backoff = backoff
  BY <1>1, <1>3 DEF FeedType
<1>5. backoff \in {0, BackoffInterval} BY <1>2, <1>3 DEF BackoffAfter
<1>6. FeedBounded(feed') BY <1>2, <1>4, <1>5 DEF FeedBounded
<1>7. ASSUME NEW e \in Event PROVE row'[e].finalized <= MaxTime
  <2>1. row[e].finalized \in Nat /\ row[e].finalized <= MaxTime BY <1>1 DEF RowType, Bounded
  <2>2. CASE Listed(r, e)
    <3>1. row'[e] = PublishedRow(r, e) /\ run[r].old[e] = row[e] BY <2>2, BatchRows
    <3>2. row'[e].finalized \in {0, row[e].finalized, run[r].at} BY <3>1 DEF PublishedRow
    <3> QED BY <3>2, <2>1, <1>2
  <2>3. CASE ~Listed(r, e)
    <3>1. row'[e].finalized = row[e].finalized
      <4>1. CASE row'[e] = row[e] BY <4>1
      <4>2. CASE row'[e] = [row[e] EXCEPT !.omitted = TRUE, !.polled = run[r].at]
        BY <4>2, <1>1 DEF RowType
      <4> QED BY <2>3, <4>1, <4>2, BatchRows
    <3> QED BY <3>1, <2>1
  <2> QED BY <2>2, <2>3
<1> QED BY <1>4, <1>6, <1>7

\* Each step leaves each poll with what it may hold, and the feed within its bounds.
LEMMA StepFits ==
  ASSUME Fenced, Bounded, [Next]_vars
  PROVE  FeedBounded(feed') /\ \A s \in Poll : Fits(run'[s], s, feed'.gen)
<1> DEFINE Goal == FeedBounded(feed') /\ \A s \in Poll : Fits(run'[s], s, feed'.gen)
<1>1. feed \in FeedType /\ FeedBounded(feed) BY DEF Fenced, Types, Bounded
<1>2. feed.gen \in Nat /\ MaxTime \in Nat BY <1>1, BoundAssumption DEF FeedType
<1>3. CASE UNCHANGED <<run, feed>>
  <2>1. \A s \in Poll : RunBounded(run[s], feed.gen) BY DEF Bounded
  <2> QED BY <2>1, <1>1, <1>3 DEF Fits
<1>4. ASSUME NEW r \in Poll, Claim(r) PROVE Goal BY <1>4, ClaimFits
<1>5. ASSUME NEW r \in Poll, feed' = feed,
             \/ Start(r) \/ Preflight(r) \/ DecideDue(r) \/ ReadRows(r)
             \/ \E l \in League : FetchLeague(r, l)
      PROVE  Goal
  BY <1>1, <1>5, StartFits, PreflightFits, DecideDueFits, ReadRowsFits, FetchLeagueFits
<1>6. ASSUME NEW r \in Poll, feed'.gen = feed.gen, FeedBounded(feed'), End(r) \/ Caught(r)
      PROVE  Goal
  <2>1. feed'.gen \in Nat /\ feed'.gen >= feed.gen BY <1>2, <1>6
  <2>2. CASE End(r) BY <1>6, <2>1, <2>2, EndFits
  <2>3. CASE ~End(r)
    <3> DEFINE x == [Idle EXCEPT !.pc = "fail", !.gen = run[r].gen, !.at = run[r].at]
    <3>1. run' = [run EXCEPT ![r] = x] BY <1>6, <2>3 DEF Caught
    <3>2. run[r] \in RunType /\ RunBounded(run[r], feed.gen) BY DEF Fenced, Types, Bounded
    <3>3. run[r].gen \in Nat /\ run[r].at \in Nat /\ run[r].at <= MaxTime
          /\ run[r].gen <= feed'.gen /\ "fail" \in PcType /\ 0 \in Nat /\ 0 <= MaxTime
          /\ {} \in SUBSET League
      BY <1>2, <1>6, <3>2 DEF RunType, RunBounded, PcType
    <3>4. Fits(x, r, feed'.gen) BY <3>3, <2>1, IdleFits
    <3> HIDE DEF x
    <3> QED BY <1>6, <2>1, <3>1, <3>4, OneRunFits
  <2> QED BY <2>2, <2>3
<1>7. ASSUME NEW r \in Poll, Publish(r) \/ PollFails(r) PROVE Goal
  <2>1. End(r) \/ Caught(r) BY <1>7 DEF Publish, PollFails
  <2>2. feed' = feed \/ (At(r, "publish") /\ Current(r) /\ Batch(r))
    BY <1>7 DEF Publish, PollFails
  <2>3. feed'.gen = feed.gen /\ FeedBounded(feed') BY <2>2, <1>1, BatchBounded
  <2> QED BY <1>6, <2>1, <2>3
<1>8. ASSUME NEW r \in Poll, RecordFailure(r) PROVE Goal
  <2>1. CASE UNCHANGED feed BY <1>1, <1>6, <1>8, <2>1 DEF RecordFailure
  <2>2. CASE Current(r) /\ feed' = [feed EXCEPT !.polled = run[r].at, !.failed = run[r].gen]
    <3>1. feed'.gen = feed.gen /\ feed'.polled = run[r].at /\ feed'.failed = feed.gen
          /\ feed'.backoff = feed.backoff
      BY <1>1, <2>2 DEF FeedType, Current
    <3>2. run[r].at <= MaxTime BY DEF Bounded, RunBounded
    <3>3. FeedBounded(feed') BY <1>1, <1>2, <3>1, <3>2 DEF FeedBounded
    <3> QED BY <1>6, <1>8, <3>1, <3>3 DEF RecordFailure
  <2> QED BY <1>8, <2>1, <2>2 DEF RecordFailure
<1>9. ASSUME NEW r \in Poll, Stop(r) PROVE Goal BY <1>1, <1>6, <1>9 DEF Stop
<1>10. CASE ClockMoves \/ \E e \in Event : ProviderChanges(e)
  BY <1>3, <1>10 DEF ClockMoves, ProviderChanges
<1>11. CASE UNCHANGED vars BY <1>3, <1>11 DEF vars
<1>12. ASSUME NEW r \in Poll, Start(r) PROVE Goal BY <1>5, <1>12 DEF Start
<1>13. ASSUME NEW r \in Poll, Preflight(r) PROVE Goal BY <1>5, <1>13 DEF Preflight
<1>14. ASSUME NEW r \in Poll, DecideDue(r) PROVE Goal BY <1>5, <1>14 DEF DecideDue
<1>15. ASSUME NEW r \in Poll, ReadRows(r) PROVE Goal BY <1>5, <1>15 DEF ReadRows
<1>16. ASSUME NEW r \in Poll, NEW l \in League, FetchLeague(r, l) PROVE Goal
  <2>1. feed' = feed BY <1>16 DEF FetchLeague
  <2> QED BY <1>5, <1>16, <2>1
<1>17. \/ ClockMoves \/ \E e \in Event : ProviderChanges(e)
       \/ UNCHANGED vars
       \/ \E r \in Poll : \/ Start(r) \/ Preflight(r) \/ Claim(r) \/ DecideDue(r)
                          \/ ReadRows(r) \/ Publish(r) \/ PollFails(r)
                          \/ RecordFailure(r) \/ Stop(r)
                          \/ \E l \in League : FetchLeague(r, l)
  BY DEF Next
<1> QED
  BY <1>4, <1>7, <1>8, <1>9, <1>10, <1>11, <1>12, <1>13, <1>14, <1>15, <1>16, <1>17

-----------------------------------------------------------------------------
\* A poll that forgets its answers, or asks what the provider says now, adds nothing.
LEMMA FewerTellings ==
  ASSUME NEW S, NEW T, T \subseteq S \cup {NoAnswer}, NEW p, p.moment \in Nat, NEW x,
         Told(S, p), Shows(x, S)
  PROVE  Told(T, p) /\ Shows(x, T)
<1>1. NoAnswer.moment = 0 /\ NoAnswer.says = Absent BY DEF NoAnswer
<1>2. Told(T, p) BY <1>1 DEF Told
<1>3. Shows(x, T) BY <1>1 DEF Shows
<1> QED BY <1>2, <1>3

\* The provider's next change is of a moment nothing has been said of.
LEMMA NextTelling ==
  ASSUME NEW S, \A t \in S : t.moment \in Nat, NEW p, p \in S, NEW q, NEW x,
         q.moment = p.moment + 1, x.moment \in Nat, x.moment <= p.moment,
         Told(S, p), Shows(x, S)
  PROVE  Told(S \cup {q}, q) /\ Shows(x, S \cup {q})
<1>1. p.moment \in Nat /\ \A t \in S : t.moment <= p.moment BY DEF Told
<1>2. \A t \in S : t.moment # q.moment /\ t.moment <= q.moment BY <1>1
<1>3. q.moment # 0 /\ q.moment <= q.moment BY <1>1
<1>4. x.moment # q.moment BY <1>1
<1>5. Told(S \cup {q}, q) BY <1>2, <1>3 DEF Told
<1>6. Shows(x, S \cup {q}) BY <1>4 DEF Shows
<1> QED BY <1>5, <1>6

\* A row that is published shows what it takes from the answer; one that is not listed
\* shows what it showed.
LEMMA BatchShows ==
  ASSUME Fenced, OneAnswerEach, NEW r \in Poll, At(r, "publish"), Current(r), Batch(r),
         NEW e \in Event
  PROVE  Shows(row'[e], Tellings(e))
<1> DEFINE a == run[r].answer[e]
<1>1. row[e] \in RowType /\ Told(Tellings(e), provider[e]) /\ Shows(row[e], Tellings(e))
  BY DEF OneAnswerEach, Fenced, Types
<1>2. row[e].version \in Nat /\ row[e].moment \in Nat BY <1>1 DEF RowType
<1>3. CASE Listed(r, e)
  <2>1. /\ row'[e] = PublishedRow(r, e) /\ run[r].old[e] = row[e] /\ a.says \in Answer
        /\ a.moment \in Nat /\ row[e].moment <= a.moment
    BY <1>3, BatchRows
  <2>2. /\ row'[e].known = TRUE /\ row'[e].status = a.says.status
        /\ row'[e].score = a.says.score /\ row'[e].moment = a.moment
        /\ row'[e].version = CorrectionVersion(row[e], a.says)
    BY <2>1 DEF PublishedRow
  <2>3. a \in Tellings(e) BY DEF Tellings
  <2>4. a.says # Absent BY <1>3 DEF Listed
  <2> HIDE DEF a
  <2>5. a.moment # 0 BY <1>1, <2>3, <2>4 DEF Told
  <2>6. \A t \in Tellings(e) : t.moment = a.moment => t.says = a.says
    BY <1>1, <2>3 DEF Told
  <2>7. row'[e].version <= a.moment
    <3>1. CASE row[e].moment = a.moment
      <4>1. row[e].known BY <1>1, <2>5, <3>1 DEF Shows, RowType
      <4>2. a.says.status = row[e].status /\ a.says.score = row[e].score
        BY <1>1, <2>3, <3>1, <4>1 DEF Shows
      <4>3. row'[e].version = row[e].version BY <2>2, <4>1, <4>2 DEF CorrectionVersion
      <4> QED BY <1>1, <3>1, <4>3 DEF Shows
    <3>2. CASE row[e].moment # a.moment
      <4>1. row'[e].version <= row[e].version + 1
        BY <1>2, <2>2 DEF CorrectionVersion
      <4>2. row'[e].version \in Nat BY <1>2, <2>2 DEF CorrectionVersion
      <4>3. row[e].version <= row[e].moment BY <1>1 DEF Shows
      <4> QED BY <1>2, <2>1, <3>2, <4>1, <4>2, <4>3
    <3> QED BY <3>1, <3>2
  <2> QED BY <2>2, <2>4, <2>5, <2>6, <2>7 DEF Shows
<1>4. CASE ~Listed(r, e)
  <2>1. /\ row'[e].version = row[e].version /\ row'[e].moment = row[e].moment
        /\ row'[e].known = row[e].known /\ row'[e].status = row[e].status
        /\ row'[e].score = row[e].score
    <3>1. CASE row'[e] = row[e] BY <3>1
    <3>2. CASE row'[e] = [row[e] EXCEPT !.omitted = TRUE, !.polled = run[r].at]
      BY <3>2, <1>1 DEF RowType
    <3> QED BY <1>4, <3>1, <3>2, BatchRows
  <2> QED BY <1>1, <2>1 DEF Shows
<1> QED BY <1>3, <1>4

\* A step changes what the provider says of one event, or rows, or neither.
LEMMA ProviderMoves ==
  ASSUME [Next]_vars
  PROVE  provider' = provider \/ \E e \in Event : ProviderChanges(e)
<1> QED BY DEF vars, Next, ClockMoves, Start, Preflight, Claim, DecideDue, FetchLeague,
           ReadRows, Publish, PollFails, RecordFailure, Stop

LEMMA AnswersStep == FeedInv /\ [Next]_vars => OneAnswerEach'
<1> SUFFICES ASSUME FeedInv, [Next]_vars, NEW e \in Event
             PROVE  Told(Tellings(e)', provider'[e]) /\ Shows(row'[e], Tellings(e)')
  BY DEF OneAnswerEach
<1>1. Fenced /\ OneAnswerEach /\ Bounded BY DEF FeedInv
<1>2. /\ provider \in [Event -> AnswerType] /\ row[e] \in RowType /\ run \in [Poll -> RunType]
      /\ row[e].moment <= provider[e].moment
  BY <1>1 DEF Fenced, Types, Rows
<1>3. Told(Tellings(e), provider[e]) /\ Shows(row[e], Tellings(e)) BY <1>1 DEF OneAnswerEach
<1>4. \A s \in Poll : run'[s].answer[e] \in {run[s].answer[e], provider[e], NoAnswer}
  BY <1>1, StepFits DEF Fits
<1>5. Tellings(e)' \subseteq (Tellings(e) \cup {provider'[e]}) \cup {NoAnswer}
  BY <1>4 DEF Tellings
<1>6. provider[e].moment \in Nat /\ row[e].moment \in Nat BY <1>2 DEF AnswerType, RowType
<1>7. provider[e] \in Tellings(e) BY DEF Tellings
<1>8. CASE provider'[e] = provider[e]
  <2>1. Tellings(e)' \subseteq Tellings(e) \cup {NoAnswer} BY <1>5, <1>7, <1>8
  <2>2. Shows(row'[e], Tellings(e))
    <3>1. CASE UNCHANGED row BY <1>3, <3>1
    <3>2. ASSUME NEW r \in Poll, At(r, "publish"), Current(r), Batch(r)
          PROVE  Shows(row'[e], Tellings(e))
      BY <1>1, <3>2, BatchShows
    <3> QED BY <3>1, <3>2, RowsChangeByBatch
  <2> QED BY <1>3, <1>6, <1>8, <2>1, <2>2, FewerTellings
<1>9. CASE provider'[e] # provider[e]
  <2>1. PICK x \in Event : ProviderChanges(x) BY <1>9, ProviderMoves
  <2>2. PICK a \in Answer \cup {Absent} :
          provider' = [provider EXCEPT ![x] = [says |-> a, moment |-> provider[x].moment + 1]]
    BY <2>1 DEF ProviderChanges
  <2>3. x = e /\ row' = row BY <1>2, <1>9, <2>1, <2>2 DEF ProviderChanges
  <2>4. provider'[e] = [says |-> a, moment |-> provider[e].moment + 1] BY <1>2, <2>2, <2>3
  <2>5. provider'[e].moment = provider[e].moment + 1 BY <2>4
  <2>6. \A t \in Tellings(e) : t.moment \in Nat
    BY <1>2 DEF Tellings, RunType, AnswerType
  <2>7. /\ Told(Tellings(e) \cup {provider'[e]}, provider'[e])
        /\ Shows(row[e], Tellings(e) \cup {provider'[e]})
    BY <1>2, <1>3, <1>6, <1>7, <2>5, <2>6, NextTelling
  <2>8. provider'[e].moment \in Nat BY <1>6, <2>5
  <2> QED BY <1>5, <2>3, <2>7, <2>8, FewerTellings
<1> QED BY <1>8, <1>9

LEMMA BoundedStep == FeedInv /\ [Next]_vars => Bounded'
<1> SUFFICES ASSUME FeedInv, [Next]_vars PROVE Bounded' OBVIOUS
<1>1. Fenced /\ Bounded BY DEF FeedInv
<1>2. FeedBounded(feed') /\ \A s \in Poll : RunBounded(run'[s], feed'.gen)
  BY <1>1, StepFits DEF Fits
<1>3. clock' \in 1..MaxTime
  <2>1. clock' = clock \/ ClockMoves
    BY DEF vars, Next, ProviderChanges, Start, Preflight, Claim, DecideDue, FetchLeague,
           ReadRows, Publish, PollFails, RecordFailure, Stop
  <2> QED BY <1>1, <2>1 DEF Bounded, ClockMoves
<1>4. ASSUME NEW e \in Event PROVE provider'[e].moment <= MaxChanges
  <2>1. provider \in [Event -> AnswerType] /\ provider[e].moment <= MaxChanges
    BY <1>1 DEF Fenced, Types, Bounded
  <2>2. provider[e].moment \in Nat BY <2>1 DEF AnswerType
  <2>3. ASSUME NEW x \in Event, ProviderChanges(x) PROVE provider'[e].moment <= MaxChanges
    <3>1. PICK a \in Answer \cup {Absent} :
            provider' = [provider EXCEPT ![x] = [says |-> a, moment |-> provider[x].moment + 1]]
      BY <2>3 DEF ProviderChanges
    <3>2. provider[x].moment < MaxChanges BY <2>3 DEF ProviderChanges
    <3>3. CASE x = e
      <4>1. provider'[e].moment = provider[e].moment + 1 BY <2>1, <3>1, <3>3
      <4> QED BY <2>2, <3>2, <3>3, <4>1, BoundAssumption
    <3>4. CASE x # e BY <2>1, <3>1, <3>4
    <3> QED BY <3>3, <3>4
  <2> QED BY <2>1, <2>3, ProviderMoves
<1>5. ASSUME NEW e \in Event PROVE row'[e].finalized <= MaxTime
  <2>1. ASSUME NEW r \in Poll, At(r, "publish"), Current(r), Batch(r)
        PROVE  row'[e].finalized <= MaxTime
    BY <1>1, <2>1, BatchBounded
  <2>2. CASE UNCHANGED row BY <1>1, <2>2 DEF Bounded
  <2> QED BY <2>1, <2>2, RowsChangeByBatch
<1> QED BY <1>2, <1>3, <1>4, <1>5 DEF Bounded

LEMMA InitFeedInv == Init => FeedInv
<1> SUFFICES ASSUME Init PROVE FeedInv OBVIOUS
<1>1. Fenced BY InitFenced
<1>2. \A e \in Event : provider[e] = NoAnswer /\ row[e] = NoRow BY DEF Init, NoAnswer
<1>3. \A r \in Poll : run[r] = Idle BY DEF Init
<1>4. \A e \in Event : Idle.answer[e] = NoAnswer BY DEF Idle, NoAnswer
<1>5. NoRow.version = 0 /\ NoRow.moment = 0 /\ NoRow.known = FALSE /\ NoRow.finalized = 0
  BY DEF NoRow
<1>6. NoAnswer.moment = 0 /\ NoAnswer.says = Absent BY DEF NoAnswer
<1>7. ASSUME NEW e \in Event PROVE Told(Tellings(e), provider[e]) /\ Shows(row[e], Tellings(e))
  <2>1. \A t \in Tellings(e) : t = NoAnswer BY <1>2, <1>3, <1>4 DEF Tellings
  <2>2. Told(Tellings(e), provider[e]) BY <2>1, <1>2, <1>6 DEF Told
  <2>3. Shows(row[e], Tellings(e)) BY <1>2, <1>5 DEF Shows
  <2> QED BY <2>2, <2>3
<1>8. Idle.now = 0 /\ Idle.at = 0 /\ Idle.gen = 0 /\ Idle.todo = {} /\ Idle.due = {}
  BY DEF Idle
<1>9. /\ clock = 1 /\ feed.gen = 0 /\ feed.polled = 0 /\ feed.failed = 0 /\ feed.backoff = 0
  BY DEF Init
<1>10. FeedBounded(feed) BY <1>9, BoundAssumption DEF FeedBounded
<1>11. \A r \in Poll : RunBounded(run[r], feed.gen)
  BY <1>3, <1>8, <1>9, BoundAssumption DEF RunBounded
<1>12. \A e \in Event : provider[e].moment <= MaxChanges /\ row[e].finalized <= MaxTime
  BY <1>2, <1>5, <1>6, BoundAssumption
<1>13. clock \in 1..MaxTime BY <1>9, BoundAssumption
<1>14. Bounded BY <1>10, <1>11, <1>12, <1>13 DEF Bounded
<1> QED BY <1>1, <1>7, <1>14 DEF FeedInv, OneAnswerEach

LEMMA FeedInvStep == FeedInv /\ [Next]_vars => FeedInv'
<1>1. FeedInv /\ [Next]_vars => Fenced' BY FencedStep DEF FeedInv
<1> QED BY <1>1, AnswersStep, BoundedStep DEF FeedInv

LEMMA FeedInvTypes == FeedInv => TypeOK
<1> SUFFICES ASSUME FeedInv PROVE TypeOK OBVIOUS
<1>1. Fenced /\ OneAnswerEach /\ Bounded /\ Types /\ Rows BY DEF FeedInv, Fenced
<1>2. {MaxTime, MaxChanges, MaxGeneration, BackoffInterval} \subseteq Nat BY BoundAssumption
<1>3. clock \in 1..MaxTime BY <1>1 DEF Bounded
<1>4. provider \in [Event -> [says: Answer \cup {Absent}, moment: 0..MaxChanges]]
  <2>1. ASSUME NEW e \in Event
        PROVE  provider[e] \in [says: Answer \cup {Absent}, moment: 0..MaxChanges]
    <3>1. provider[e] \in AnswerType /\ provider[e].moment <= MaxChanges
      BY <1>1 DEF Types, Bounded
    <3>2. provider[e].moment \in 0..MaxChanges BY <1>2, <3>1 DEF AnswerType
    <3> QED BY <3>1, <3>2 DEF AnswerType
  <2> QED BY <1>1, <2>1 DEF Types
<1> DEFINE BoundedRow == [known: BOOLEAN, status: Status, score: Score,
                          version: 0..MaxChanges, finalized: Time, polled: Time,
                          omitted: BOOLEAN, moment: 0..MaxChanges]
<1>5. feed \in FeedType /\ feed.polled \in Nat /\ feed.polled <= MaxTime
  BY <1>1 DEF Types, FeedType, Bounded, FeedBounded
<1>6. ASSUME NEW e \in Event PROVE row[e] \in BoundedRow /\ row[e].version <= row[e].moment
  <2>1. row[e] \in RowType /\ provider[e] \in AnswerType BY <1>1 DEF Types
  <2>2. /\ row[e].version \in Nat /\ row[e].moment \in Nat /\ row[e].finalized \in Nat
        /\ row[e].polled \in Nat /\ provider[e].moment \in Nat
    BY <2>1 DEF RowType, AnswerType
  <2>3. /\ row[e].version <= row[e].moment /\ row[e].moment <= provider[e].moment
        /\ provider[e].moment <= MaxChanges /\ row[e].finalized <= MaxTime
        /\ row[e].polled <= feed.polled
    BY <1>1 DEF OneAnswerEach, Shows, Rows, Bounded
  <2>4. /\ row[e].version \in 0..MaxChanges /\ row[e].moment \in 0..MaxChanges
        /\ row[e].finalized \in Time /\ row[e].polled \in Time
    BY <1>2, <1>5, <2>2, <2>3 DEF Time
  <2> QED BY <2>1, <2>3, <2>4 DEF RowType
<1>7. row \in [Event -> BoundedRow] BY <1>1, <1>6 DEF Types
<1>8. discovery \in [League -> Time]
  <2>1. \A l \in League : discovery[l] \in Time BY <1>1, <1>2, <1>5 DEF Types, Rows, Time
  <2> QED BY <1>1, <2>1 DEF Types
<1>9. feed \in [gen: 0..MaxGeneration, polled: Time, success: Time,
                backoff: {0, BackoffInterval}, failed: 0..MaxGeneration,
                published: 0..MaxGeneration,
                available: [Event -> (SUBSET Market) \cup {Unlisted}]]
  <2>1. /\ feed.gen \in Nat /\ feed.success \in Nat /\ feed.failed \in Nat
        /\ feed.published \in Nat /\ feed.available \in AvailableType
    BY <1>5 DEF FeedType
  <2>2. /\ feed.gen <= MaxGeneration /\ feed.success <= feed.polled
        /\ feed.failed <= feed.gen /\ feed.published <= feed.gen
        /\ feed.backoff \in {0, BackoffInterval}
    BY <1>1 DEF Bounded, FeedBounded, Rows
  <2>3. /\ feed.gen \in 0..MaxGeneration /\ feed.polled \in Time /\ feed.success \in Time
        /\ feed.failed \in 0..MaxGeneration /\ feed.published \in 0..MaxGeneration
    BY <1>2, <1>5, <2>1, <2>2 DEF Time
  <2> QED BY <1>5, <2>1, <2>2, <2>3 DEF FeedType, AvailableType
<1>10. ASSUME NEW r \in Poll
       PROVE  /\ run[r].pc \in {"idle", "preflight", "claim", "due", "fetch", "read",
                                "publish", "fail"}
              /\ run[r].todo \subseteq run[r].due /\ run[r].due \subseteq League
              /\ run[r].gen <= feed.gen /\ run[r].at \in Time
  <2>1. run[r] \in RunType /\ RunBounded(run[r], feed.gen) BY <1>1 DEF Types, Bounded
  <2>2. run[r].at \in Time BY <1>2, <2>1 DEF RunType, RunBounded, Time
  <2> QED BY <2>1, <2>2 DEF RunType, RunBounded, PcType
<1> QED BY <1>1, <1>3, <1>4, <1>6, <1>7, <1>8, <1>9, <1>10 DEF TypeOK, Types

\* Every time, generation and version stays in range, and no correction is counted
\* that the provider did not make, however polls overlap (ingestion.ts:106-140).
THEOREM FeedTypeCorrect == Spec => []TypeOK
<1>1. Spec => []FeedInv BY InitFeedInv, FeedInvStep, PTL DEF Spec
<1> QED BY <1>1, FeedInvTypes, PTL

-----------------------------------------------------------------------------
(***************************************************************************)
(* MatchupLookup: a reading's age and the time it has left are bounded     *)
(* together, so no entry is kept too long however late it was written.     *)
(***************************************************************************)

(* The inductive invariant *)

Seen      == (0..MaxState) \cup {Nothing}
CacheType == [board : Seen, extra : Seen, age : Nat, left : Nat]
Looking   == [pc : {"idle", "board", "extra", "write"}, page : Page, board : Seen, extra : Seen,
              age : Nat, left : Nat]

\* What of the game x, an entry or a lookup, says on the page p.
Coherent(p, x) ==
  x.board # Nothing =>
    /\ x.extra # Nothing => x.extra >= x.board
    /\ p = "box" /\ x.board = 0 => x.extra = Nothing

EntryIsRecent(p, x) ==
  /\ x \in CacheType /\ Coherent(p, x)
  /\ x.board # Nothing => x.age + x.left <= Keep(p) + Flight
  /\ p = "matchup" /\ x # NoEntry => x.extra # Nothing

LookupIsRecent(x) ==
  /\ x \in Looking /\ Coherent(x.page, x)
  /\ x.age + x.left <= Flight
  /\ x.pc = "board" => x.board = Nothing
  /\ x.pc \in {"idle", "board", "extra"} => x.extra = Nothing
  /\ x.pc \in {"extra", "write"} => x.board # Nothing /\ x.board <= game

LookupInv ==
  /\ game \in 0..MaxState
  /\ cache = [p \in Page |-> cache[p]] /\ lookup = [r \in Reader |-> lookup[r]]
  /\ \A p \in Page : EntryIsRecent(p, cache[p])
  /\ \A r \in Reader : LookupIsRecent(lookup[r])

-----------------------------------------------------------------------------
(* Lemmas *)

LEMMA NothingRead ==
  /\ Nothing \in Seen /\ \A p \in Page : EntryIsRecent(p, NoEntry)
  /\ LookupIsRecent(NoLookup)
<1>1. NoEntry \in CacheType /\ NoEntry.board = Nothing BY DEF NoEntry, CacheType, Seen
<1>2. NoLookup \in Looking /\ NoLookup.board = Nothing /\ NoLookup.extra = Nothing
      /\ NoLookup.pc = "idle" /\ NoLookup.age + NoLookup.left = 0
  BY DEF NoLookup, Looking, Seen, Page
<1>3. Flight \in Nat BY FreshAssumption
<1> QED BY <1>1, <1>2, <1>3 DEF Seen, EntryIsRecent, LookupIsRecent, Coherent

\* An entry and a lookup age as their time runs out.
LEMMA EntryAges ==
  ASSUME NEW p \in Page, NEW x, EntryIsRecent(p, x)
  PROVE  EntryIsRecent(p, Aged(x))
<1>1. CASE x.left = 0 BY <1>1, NothingRead DEF Aged
<1>2. CASE x.left # 0
  <2> DEFINE y == [x EXCEPT !.age = x.age + 1, !.left = x.left - 1]
  <2>1. x \in CacheType /\ x.age + 1 \in Nat /\ x.left - 1 \in Nat
        /\ x.age \in Nat /\ x.left \in Nat
    BY <1>2 DEF EntryIsRecent, CacheType
  <2>2. /\ y \in CacheType /\ y.board = x.board /\ y.extra = x.extra
        /\ y.age = x.age + 1 /\ y.left = x.left - 1
    BY <2>1 DEF CacheType
  <2>3. Aged(x) = y BY <1>2 DEF Aged
  <2> HIDE DEF y
  <2>4. y.age + y.left = x.age + x.left BY <2>1, <2>2
  <2>5. p = "matchup" => y.extra # Nothing
    <3>1. NoEntry.left = 0 BY DEF NoEntry
    <3> QED BY <1>2, <2>2, <3>1 DEF EntryIsRecent
  <2>6. Coherent(p, y) BY <2>2 DEF EntryIsRecent, Coherent
  <2>7. y.board # Nothing => y.age + y.left <= Keep(p) + Flight
    BY <2>2, <2>4 DEF EntryIsRecent
  <2>8. EntryIsRecent(p, y) BY <2>2, <2>5, <2>6, <2>7 DEF EntryIsRecent
  <2> QED BY <2>3, <2>8
<1> QED BY <1>1, <1>2

LEMMA LookupAges ==
  ASSUME NEW x, LookupIsRecent(x), x.left > 0
  PROVE  LookupIsRecent([x EXCEPT !.left = x.left - 1, !.age = IF x.board = Nothing THEN 0 ELSE x.age + 1])
<1> DEFINE n == IF x.board = Nothing THEN 0 ELSE x.age + 1
           y == [x EXCEPT !.left = x.left - 1, !.age = n]
<1>1. x \in Looking /\ x.age \in Nat /\ x.left \in Nat /\ Flight \in Nat
  BY FreshAssumption DEF LookupIsRecent, Looking
<1>2. n \in Nat /\ n <= x.age + 1 /\ x.left - 1 \in Nat BY <1>1
<1> HIDE DEF n
<1>3. /\ y \in Looking /\ y.pc = x.pc /\ y.page = x.page /\ y.board = x.board /\ y.extra = x.extra
      /\ y.age = n /\ y.left = x.left - 1
  BY <1>1, <1>2 DEF Looking
<1> HIDE DEF y
<1>4. y.age + y.left <= x.age + x.left BY <1>1, <1>2, <1>3
<1>5. x.age + x.left <= Flight BY DEF LookupIsRecent
<1>6. y.age + y.left <= Flight BY <1>1, <1>2, <1>3, <1>4, <1>5
<1>7. LookupIsRecent(y) BY <1>3, <1>6 DEF LookupIsRecent, Coherent
<1> QED BY <1>7 DEF y, n

\* A step of one lookup alone.
LEMMA LookupStep ==
  ASSUME LookupInv, NEW r \in Reader, NEW x, LookupIsRecent(x),
         lookup' = [lookup EXCEPT ![r] = x], UNCHANGED game,
         cache' = [p \in Page |-> cache'[p]], \A p \in Page : EntryIsRecent(p, cache'[p])
  PROVE  LookupInv'
<1>1. lookup' = [s \in Reader |-> IF s = r THEN x ELSE lookup[s]] BY DEF LookupInv
<1>2. lookup' = [s \in Reader |-> lookup'[s]] BY <1>1
<1>3. \A s \in Reader : LookupIsRecent(lookup'[s]) BY <1>1 DEF LookupInv
<1>4. (\A s \in Reader : LookupIsRecent(lookup[s]))' BY <1>3 DEF LookupIsRecent
<1>5. (\A p \in Page : EntryIsRecent(p, cache[p]))' OBVIOUS
<1> QED BY <1>2, <1>4, <1>5 DEF LookupInv

(* Each action keeps the invariant *)

LEMMA LookupInitially == LookupInit => LookupInv
<1> SUFFICES ASSUME LookupInit PROVE LookupInv OBVIOUS
<1>1. /\ game = 0 /\ cache = [p \in Page |-> NoEntry] /\ lookup = [r \in Reader |-> NoLookup]
  BY DEF LookupInit
<1>2. game \in 0..MaxState BY <1>1, FreshAssumption
<1>3. \A p \in Page : cache[p] = NoEntry BY <1>1
<1>4. \A r \in Reader : lookup[r] = NoLookup BY <1>1
<1> QED BY <1>1, <1>2, <1>3, <1>4, NothingRead DEF LookupInv

\* A lookup step that writes nothing.
LEMMA ReadingStep ==
  ASSUME LookupInv, NEW r \in Reader, NEW x, LookupIsRecent(x),
         lookup' = [lookup EXCEPT ![r] = x], UNCHANGED <<game, cache>>
  PROVE  LookupInv'
<1>1. cache' = [p \in Page |-> cache'[p]] /\ \A p \in Page : EntryIsRecent(p, cache'[p])
  BY DEF LookupInv
<1> QED BY <1>1, LookupStep

LEMMA MomentPassesKeeps ==
  ASSUME LookupInv, MomentPasses
  PROVE  LookupInv'
<1> DEFINE next(x) == [x EXCEPT !.left = x.left - 1, !.age = IF x.board = Nothing THEN 0 ELSE x.age + 1]
           after(r) == IF lookup[r].pc = "idle" THEN NoLookup ELSE next(lookup[r])
<1>1. /\ cache' = [p \in Page |-> Aged(cache[p])] /\ UNCHANGED game
      /\ lookup' = [r \in Reader |-> after(r)]
  BY DEF MomentPasses
<1>2. \A r \in Reader : LookupIsRecent(after(r))
  <2> SUFFICES ASSUME NEW r \in Reader PROVE LookupIsRecent(after(r)) OBVIOUS
  <2>1. LookupIsRecent(lookup[r]) BY DEF LookupInv
  <2>2. CASE lookup[r].pc = "idle" BY <2>2, NothingRead
  <2>3. CASE lookup[r].pc # "idle"
    <3>1. lookup[r].left > 0 BY <2>3 DEF MomentPasses
    <3>2. LookupIsRecent(next(lookup[r])) BY <2>1, <3>1, LookupAges
    <3> QED BY <2>3, <3>2
  <2> QED BY <2>2, <2>3
<1> HIDE DEF after
<1>3. \A p \in Page : EntryIsRecent(p, cache'[p]) BY <1>1, EntryAges DEF LookupInv
<1>4. cache' = [p \in Page |-> cache'[p]] /\ lookup' = [r \in Reader |-> lookup'[r]] BY <1>1
<1>5. \A r \in Reader : LookupIsRecent(lookup'[r]) BY <1>1, <1>2
<1>6. (\A r \in Reader : LookupIsRecent(lookup[r]))' BY <1>1, <1>5 DEF LookupIsRecent
<1> QED BY <1>1, <1>3, <1>4, <1>6 DEF LookupInv

LEMMA GamePlaysKeeps ==
  ASSUME LookupInv, GamePlays
  PROVE  LookupInv'
<1>1. game' = game + 1 /\ game < MaxState /\ UNCHANGED <<cache, lookup>> BY DEF GamePlays
<1>2. game \in Nat /\ game' \in 0..MaxState BY <1>1, FreshAssumption DEF LookupInv
<1>3. \A r \in Reader : LookupIsRecent(lookup[r])' 
  <2> SUFFICES ASSUME NEW r \in Reader PROVE LookupIsRecent(lookup[r])' OBVIOUS
  <2>1. LookupIsRecent(lookup[r]) BY DEF LookupInv
  <2>2. lookup[r].board # Nothing => lookup[r].board \in Nat
    BY <2>1, FreshAssumption DEF LookupIsRecent, Looking, Seen
  <2> QED BY <1>1, <1>2, <2>1, <2>2 DEF LookupIsRecent, Coherent
<1> QED BY <1>1, <1>2, <1>3 DEF LookupInv

LEMMA AskMatchupKeeps ==
  ASSUME LookupInv, NEW r \in Reader, NEW p \in Page, AskMatchup(r, p)
  PROVE  LookupInv'
<1> DEFINE x == [NoLookup EXCEPT !.pc = "board", !.page = p, !.left = Flight]
<1>1. lookup' = [lookup EXCEPT ![r] = x] /\ UNCHANGED <<game, cache>> BY DEF AskMatchup
<1>2. Flight \in Nat BY FreshAssumption
<1>3. /\ x \in Looking /\ x.pc = "board" /\ x.board = Nothing /\ x.extra = Nothing
      /\ x.age = 0 /\ x.left = Flight
  BY <1>2 DEF NoLookup, Looking, Seen
<1> HIDE DEF x
<1>4. LookupIsRecent(x) BY <1>2, <1>3 DEF LookupIsRecent, Coherent
<1> QED BY <1>1, <1>4, ReadingStep

LEMMA BoardIsReadKeeps ==
  ASSUME LookupInv, NEW r \in Reader, ReadBoard(r)
  PROVE  LookupInv'
<1> DEFINE old == lookup[r]
           x   == [old EXCEPT !.pc = "extra", !.board = game]
<1>1. old.pc = "board" /\ UNCHANGED <<game, cache>> BY DEF ReadBoard, GivesUp
<1>2. \/ lookup' = [lookup EXCEPT ![r].pc = "extra", ![r].board = game]
      \/ lookup' = [lookup EXCEPT ![r] = NoLookup]
  BY DEF ReadBoard, GivesUp
<1>3. CASE lookup' = [lookup EXCEPT ![r].pc = "extra", ![r].board = game]
  <2>1. LookupIsRecent(old) /\ game \in 0..MaxState /\ game \in Nat /\ DOMAIN lookup = Reader
    BY FreshAssumption DEF LookupInv
  <2>2. lookup' = [lookup EXCEPT ![r] = x] BY <1>3, <2>1
  <2>3. /\ x \in Looking /\ x.pc = "extra" /\ x.board = game /\ x.extra = old.extra
        /\ x.age = old.age /\ x.left = old.left /\ x.page = old.page
    BY <2>1 DEF LookupIsRecent, Looking, Seen
  <2>4. game # Nothing BY <2>1, FreshAssumption
  <2> HIDE DEF x
  <2>5. LookupIsRecent(x) BY <1>1, <2>1, <2>3, <2>4 DEF LookupIsRecent, Coherent
  <2> QED BY <1>1, <2>2, <2>5, ReadingStep
<1>4. CASE lookup' = [lookup EXCEPT ![r] = NoLookup] BY <1>1, <1>4, NothingRead, ReadingStep
<1> QED BY <1>2, <1>3, <1>4

LEMMA ExtraIsReadKeeps ==
  ASSUME LookupInv, NEW r \in Reader, ReadExtra(r)
  PROVE  LookupInv'
<1> DEFINE old  == lookup[r]
           y(e) == [old EXCEPT !.pc = "write", !.extra = e]
<1>1. old.pc = "extra" /\ UNCHANGED <<game, cache>> BY DEF ReadExtra
<1>2. PICK e \in Extras(r) : lookup' = [lookup EXCEPT ![r].pc = "write", ![r].extra = e]
  BY DEF ReadExtra
<1>3. LookupIsRecent(old) /\ game \in 0..MaxState /\ DOMAIN lookup = Reader BY DEF LookupInv
<1>4. e \in Seen /\ (e # Nothing => e = game) /\ (old.page = "box" /\ old.board = 0 => e = Nothing)
  BY <1>2, <1>3 DEF Extras, Seen
<1>5. lookup' = [lookup EXCEPT ![r] = y(e)] BY <1>2, <1>3
<1>6. /\ y(e) \in Looking /\ y(e).pc = "write" /\ y(e).board = old.board /\ y(e).extra = e
      /\ y(e).age = old.age /\ y(e).left = old.left /\ y(e).page = old.page
  BY <1>3, <1>4 DEF LookupIsRecent, Looking
<1> HIDE DEF y
<1>7. Coherent(y(e).page, y(e))
  <2>1. old.board <= game /\ old.board # Nothing BY <1>1, <1>3 DEF LookupIsRecent
  <2> QED BY <1>3, <1>4, <1>6, <2>1 DEF Coherent
<1>8. LookupIsRecent(y(e)) BY <1>1, <1>3, <1>6, <1>7 DEF LookupIsRecent
<1> QED BY <1>1, <1>5, <1>8, ReadingStep

LEMMA WriteCacheKeeps ==
  ASSUME LookupInv, NEW r \in Reader, WriteCache(r)
  PROVE  LookupInv'
<1> DEFINE x == lookup[r]
           c == [board |-> x.board, extra |-> x.extra, age |-> x.age, left |-> Keep(x.page)]
<1>1. x.pc = "write" /\ lookup' = [lookup EXCEPT ![r] = NoLookup] /\ UNCHANGED game
  BY DEF WriteCache
<1>2. LookupIsRecent(x) /\ x \in Looking BY DEF LookupInv, LookupIsRecent
<1>3. /\ x.page \in Page /\ x.age \in Nat /\ x.left \in Nat /\ x.board \in Seen /\ x.extra \in Seen
      /\ x.age + x.left <= Flight /\ Coherent(x.page, x)
  BY <1>2 DEF LookupIsRecent, Looking
<1>4. Flight \in Nat /\ Keep(x.page) \in Nat BY FreshAssumption DEF Keep
<1>5. CASE UNCHANGED cache
  <2>1. cache' = [p \in Page |-> cache'[p]] /\ \A p \in Page : EntryIsRecent(p, cache'[p])
    BY <1>5 DEF LookupInv
  <2> QED BY <1>1, <2>1, NothingRead, LookupStep
<1>6. CASE Kept(x) /\ cache' = [cache EXCEPT ![x.page] = c]
  <2>1. /\ c \in CacheType /\ c.board = x.board /\ c.extra = x.extra /\ c.age = x.age
        /\ c.left = Keep(x.page)
    BY <1>3, <1>4 DEF CacheType
  <2> HIDE DEF c
  <2>2. c.age + c.left <= Keep(x.page) + Flight BY <1>3, <1>4, <2>1
  <2>3. x.page = "matchup" => c.extra # Nothing BY <1>6, <2>1 DEF Kept
  <2>4. EntryIsRecent(x.page, c) BY <1>3, <2>1, <2>2, <2>3 DEF EntryIsRecent, Coherent
  <2>5. cache' = [p \in Page |-> IF p = x.page THEN c ELSE cache[p]] BY <1>6 DEF LookupInv
  <2>6. \A p \in Page : EntryIsRecent(p, cache'[p]) BY <2>4, <2>5 DEF LookupInv
  <2>7. cache' = [p \in Page |-> cache'[p]] BY <2>5
  <2> QED BY <1>1, <2>6, <2>7, NothingRead, LookupStep
<1>7. UNCHANGED cache \/ (Kept(x) /\ cache' = [cache EXCEPT ![x.page] = c])
  BY DEF WriteCache
<1> QED BY <1>5, <1>6, <1>7

LEMMA LookupsStep ==
  ASSUME LookupInv, [LookupNext]_lookupVars
  PROVE  LookupInv'
<1>1. CASE MomentPasses BY <1>1, MomentPassesKeeps
<1>2. CASE GamePlays BY <1>2, GamePlaysKeeps
<1>3. CASE \E r \in Reader, p \in Page : AskMatchup(r, p) BY <1>3, AskMatchupKeeps
<1>4. CASE \E r \in Reader : ReadBoard(r) \/ ReadExtra(r) \/ WriteCache(r)
  BY <1>4, BoardIsReadKeeps, ExtraIsReadKeeps, WriteCacheKeeps
<1>5. CASE UNCHANGED lookupVars
  BY <1>5 DEF lookupVars, LookupInv, LookupIsRecent, EntryIsRecent, Coherent, Looking, CacheType
<1> QED BY <1>1, <1>2, <1>3, <1>4, <1>5 DEF LookupNext

(* The theorem *)

LEMMA RecentIsShown == LookupInv => ShownIsRecent
<1> SUFFICES ASSUME LookupInv PROVE ShownIsRecent OBVIOUS
<1>1. ASSUME NEW p \in Page, NEW x \in Shown(p), x.board # Nothing
      PROVE  /\ x.age <= Keep(p) + Flight
             /\ x.extra # Nothing => x.extra >= x.board
             /\ p = "box" /\ x.board = 0 => x.extra = Nothing
  <2>1. Flight \in Nat /\ Keep(p) \in Nat BY FreshAssumption DEF Keep
  <2>2. CASE x = cache[p]
    <3>1. EntryIsRecent(p, x) BY <2>2 DEF LookupInv
    <3>2. x.age \in Nat /\ x.left \in Nat /\ x.age + x.left <= Keep(p) + Flight
      BY <1>1, <3>1 DEF EntryIsRecent, CacheType
    <3> QED BY <1>1, <2>1, <3>1, <3>2 DEF EntryIsRecent, Coherent
  <2>3. ASSUME NEW r \in Reader, lookup[r].page = p, x = lookup[r]
        PROVE  /\ x.age <= Keep(p) + Flight
               /\ x.extra # Nothing => x.extra >= x.board
               /\ p = "box" /\ x.board = 0 => x.extra = Nothing
    <3>1. LookupIsRecent(x) BY <2>3 DEF LookupInv
    <3>2. x.age \in Nat /\ x.left \in Nat /\ x.age + x.left <= Flight
      BY <3>1 DEF LookupIsRecent, Looking
    <3> QED BY <1>1, <2>1, <2>3, <3>1, <3>2 DEF LookupIsRecent, Coherent
  <2> QED BY <2>2, <2>3 DEF Shown
<1>2. cache["matchup"] # NoEntry => cache["matchup"].extra # Nothing
  BY DEF LookupInv, EntryIsRecent, Page
<1> QED BY <1>1, <1>2 DEF ShownIsRecent

\* Whatever the slates list, however many members look and whatever fails: nothing is
\* shown that is older than its page allows or contradicts itself, and no outage is kept.
THEOREM ShownIsAlwaysRecent == LookupSpec => []ShownIsRecent
<1>1. LookupInit => LookupInv BY LookupInitially
<1>2. LookupInv /\ [LookupNext]_lookupVars => LookupInv' BY LookupsStep
<1>3. LookupInv => ShownIsRecent BY RecentIsShown
<1> QED BY <1>1, <1>2, <1>3, PTL DEF LookupSpec

-----------------------------------------------------------------------------
(* CanonicalFeed: prices *)

LEMMA DivideBounds ==
  ASSUME NEW a \in Int, NEW b \in Int, b > 0
  PROVE  a \div b \in Int /\ b * (a \div b) <= a /\ a < b * (a \div b) + b
OBVIOUS

LEMMA ProductOrder ==
  ASSUME NEW a \in Int, NEW b \in Int, NEW c \in Int, c > 0
  PROVE  /\ a <= b => c * a <= c * b
         /\ c * a <= c * b => a <= b
         /\ a < b => c * a < c * b
         /\ c * a < c * b => a < b
<1>1. a <= b => c * a <= c * b OBVIOUS
<1>2. a < b => c * a < c * b OBVIOUS
<1>3. a < b \/ a = b \/ b < a OBVIOUS
<1>4. b < a => c * b < c * a OBVIOUS
<1> QED BY <1>1, <1>2, <1>3, <1>4

\* Round(n, d) is the integer nearest to n / d.
LEMMA RoundBounds ==
  ASSUME NEW n \in Int, NEW d \in Int, d > 0
  PROVE  /\ Round(n, d) \in Int
         /\ 2 * (d * Round(n, d)) <= 2 * n + d /\ 2 * n < 2 * (d * Round(n, d)) + d
<1> DEFINE a == 2 * n + d
           b == 2 * d
           r == a \div b
<1>1. a \in Int /\ b \in Int /\ b > 0 OBVIOUS
<1> HIDE DEF a, b
<1>2. r \in Int /\ b * r <= a /\ a < b * r + b BY <1>1, DivideBounds
<1>3. Round(n, d) = r BY DEF Round, a, b
<1> HIDE DEF r
<1>4. b * r = 2 * (d * r) BY <1>2 DEF b
<1>5. 2 * (d * r) <= 2 * n + d /\ 2 * n + d < 2 * (d * r) + 2 * d BY <1>2, <1>4 DEF a, b
<1>6. d * r \in Int BY <1>2
<1>7. 2 * n < 2 * (d * r) + d BY <1>5, <1>6
<1> QED BY <1>2, <1>3, <1>5, <1>7

\* An integer that n / d reaches is no more than the integer nearest to it.
LEMMA RoundReaches ==
  ASSUME NEW n \in Int, NEW d \in Int, d > 0, NEW k \in Int, d * k <= n
  PROVE  k <= Round(n, d)
<1> DEFINE r == Round(n, d)
<1>1. r \in Int /\ 2 * n < 2 * (d * r) + d BY RoundBounds
<1> HIDE DEF r
<1>2. 2 * (d * k) < 2 * (d * r) + d
  <2>1. d * k \in Int /\ d * r \in Int BY <1>1
  <2> QED BY <1>1, <2>1
<1>3. d * (2 * k) < d * (2 * r + 1)
  <2>1. d * (2 * k) = 2 * (d * k) /\ d * (2 * r + 1) = 2 * (d * r) + d BY <1>1
  <2> QED BY <1>2, <2>1
<1>4. 2 * k < 2 * r + 1 BY <1>1, <1>3, ProductOrder
<1>5. k <= r BY <1>1, <1>4
<1> QED BY <1>5 DEF r

LEMMA RoundMirrors ==
  ASSUME NEW n \in Int, NEW d \in Int, d > 0
  PROVE  Round(n, d) + Round(-n, d) \in 0..1
<1> DEFINE r == Round(n, d)
           s == Round(-n, d)
<1>0. -n \in Int OBVIOUS
<1>1. r \in Int /\ 2 * (d * r) <= 2 * n + d /\ 2 * n < 2 * (d * r) + d BY RoundBounds
<1>2. s \in Int /\ 2 * (d * s) <= 2 * (-n) + d /\ 2 * (-n) < 2 * (d * s) + d BY <1>0, RoundBounds
<1> HIDE DEF r, s
<1>3. d * r \in Int /\ d * s \in Int /\ d * (r + s) = d * r + d * s BY <1>1, <1>2
<1>4. 2 * (d * r + d * s) <= 2 * d /\ 0 < 2 * (d * r + d * s) + 2 * d BY <1>1, <1>2, <1>3
<1>5. d * (r + s) <= d * 1 /\ d * (-1) < d * (r + s)
  <2>1. d * (-1) = -d /\ d * 1 = d OBVIOUS
  <2>2. d * r + d * s <= d /\ -d < d * r + d * s BY <1>3, <1>4
  <2> QED BY <1>3, <2>1, <2>2
<1>6. r + s <= 1 /\ -1 < r + s
  <2>1. r + s \in Int /\ 1 \in Int /\ -1 \in Int BY <1>1, <1>2
  <2> QED BY <1>5, <2>1, ProductOrder
<1>7. r + s \in 0..1 BY <1>1, <1>2, <1>6
<1> QED BY <1>7 DEF r, s

\* The price that the odds of d to n are, rounded.
PriceOf(n, d) == IF d >= n THEN Round(100 * d, n) ELSE Round(-100 * n, d)

LEMMA PricesMirror ==
  ASSUME NEW n \in Int, NEW d \in Int, n > 0, d > 0
  PROVE  /\ PriceOf(n, d) \in Int
         /\ d >= n => PriceOf(n, d) >= 100
         /\ d < n => PriceOf(n, d) <= -99
         /\ PriceOf(n, d) + PriceOf(d, n) \in -1..1 \/ {PriceOf(n, d), PriceOf(d, n)} \subseteq {100, -100}
<1> DEFINE u == 100 * d
           v == 100 * n
<1>0. u \in Int /\ v \in Int /\ -u \in Int /\ -v \in Int /\ n * 100 = v /\ d * 100 = u
      /\ -100 * n = -v /\ -100 * d = -u
  OBVIOUS
<1>1. PriceOf(n, d) = IF d >= n THEN Round(u, n) ELSE Round(-v, d) BY <1>0 DEF PriceOf
<1>2. PriceOf(d, n) = IF n >= d THEN Round(v, d) ELSE Round(-u, n) BY <1>0 DEF PriceOf
<1>3. /\ d >= n => n * 100 <= u
      /\ d <= n => d * 100 <= v
  BY <1>0
<1> HIDE DEF u, v
<1>4. Round(u, n) \in Int /\ Round(-u, n) \in Int /\ Round(v, d) \in Int /\ Round(-v, d) \in Int
  BY <1>0, RoundBounds
<1>5. Round(u, n) + Round(-u, n) \in 0..1 /\ Round(v, d) + Round(-v, d) \in 0..1 BY <1>0, RoundMirrors
<1>6. d >= n => 100 <= Round(u, n)
  <2>1. 100 \in Int OBVIOUS
  <2> QED BY <1>0, <1>3, <2>1, RoundReaches
<1>7. d <= n => 100 <= Round(v, d)
  <2>1. 100 \in Int OBVIOUS
  <2> QED BY <1>0, <1>3, <2>1, RoundReaches
<1>8. CASE d > n BY <1>1, <1>2, <1>4, <1>5, <1>6, <1>8
<1>9. CASE d < n BY <1>1, <1>2, <1>4, <1>5, <1>7, <1>9
<1>10. CASE d = n
  <2>1. Round(u, n) = 100
    <3>1. Round(u, n) \in Int /\ 2 * (n * Round(u, n)) <= 2 * u + n BY <1>0, RoundBounds
    <3>2. 100 <= Round(u, n) BY <1>6, <1>10
    <3> DEFINE r == Round(u, n)
    <3> HIDE DEF r
    <3>3. r \in Int /\ 100 <= r /\ 2 * (n * r) <= 2 * (n * 100) + n BY <1>0, <1>10, <3>1, <3>2 DEF r
    <3>4. r < 101
      <4>1. SUFFICES ASSUME 101 <= r PROVE FALSE BY <3>3
      <4>2. n * 101 <= n * r BY <3>3, <4>1, ProductOrder
      <4>3. n * 101 = n * 100 + n /\ n * 100 \in Int /\ n * r \in Int BY <3>3
      <4> QED BY <3>3, <4>2, <4>3
    <3> QED BY <3>3, <3>4 DEF r
  <2>2. u = v BY <1>10 DEF u, v
  <2>3. PriceOf(n, d) = 100 /\ PriceOf(d, n) = 100 BY <1>1, <1>2, <1>10, <2>1, <2>2
  <2> QED BY <2>3, <1>10
<1>11. d > n \/ d < n \/ d = n OBVIOUS
<1> QED BY <1>8, <1>9, <1>10, <1>11

LEMMA ProbabilityIs ==
  ASSUME NEW x \in Int \ {0}
  PROVE  /\ Probability(x).n \in Int /\ Probability(x).n > 0
         /\ Probability(x).d \in Int /\ Probability(x).d > 0
         /\ x > 0 => Probability(x).n = 100 /\ Probability(x).d = x + 100
         /\ x < 0 => Probability(x).n = -x /\ Probability(x).d = 100 - x
BY DEF Probability

\* The odds of the two prices.
Against(own, other) == Probability(own).d * Probability(other).n
For(own, other)     == Probability(own).n * Probability(other).d

LEMMA FairIs ==
  ASSUME NEW own \in Int \ {0}, NEW other \in Int \ {0}
  PROVE  /\ For(own, other) \in Int /\ For(own, other) > 0
         /\ Against(own, other) \in Int /\ Against(own, other) > 0
         /\ For(other, own) = Against(own, other) /\ Against(other, own) = For(own, other)
         /\ vigFreeMoneylinePrice(own, other) = PriceOf(For(own, other), Against(own, other))
<1> DEFINE a == Probability(own).n
           b == Probability(own).d
           c == Probability(other).n
           e == Probability(other).d
<1>1. a \in Int /\ b \in Int /\ c \in Int /\ e \in Int /\ a > 0 /\ b > 0 /\ c > 0 /\ e > 0 BY ProbabilityIs
<1>2. For(own, other) = a * e /\ Against(own, other) = b * c /\ For(other, own) = c * b
      /\ Against(other, own) = e * a
  BY DEF For, Against
<1>3. vigFreeMoneylinePrice(own, other) = PriceOf(For(own, other), Against(own, other))
  BY DEF vigFreeMoneylinePrice, PriceOf, For, Against
<1> HIDE DEF a, b, c, e
<1>4. a * e \in Int /\ b * c \in Int /\ a * e > 0 /\ b * c > 0 /\ c * b = b * c /\ e * a = a * e BY <1>1
<1> QED BY <1>2, <1>3, <1>4

LEMMA FairIsNoWorse ==
  ASSUME NEW own \in Int \ {0}, NEW other \in Int \ {0}, own \notin 1..99,
         Probability(own).n * Probability(other).d + Probability(other).n * Probability(own).d
           >= Probability(own).d * Probability(other).d
  PROVE  vigFreeMoneylinePrice(own, other) >= own
<1> DEFINE n == For(own, other)
           d == Against(own, other)
           c == Probability(other).n
           e == Probability(other).d
<1>1. c \in Int /\ e \in Int /\ c > 0 /\ e > 0 BY ProbabilityIs
<1>2. n \in Int /\ d \in Int /\ n > 0 /\ d > 0 /\ vigFreeMoneylinePrice(own, other) = PriceOf(n, d) BY FairIs
<1>3. PriceOf(n, d) \in Int /\ (d >= n => PriceOf(n, d) >= 100) BY <1>2, PricesMirror
<1>4. CASE own > 0
  <2>1. own >= 100 /\ own \in Int BY <1>4
  <2>2. Probability(own).n = 100 /\ Probability(own).d = own + 100 BY <1>4, ProbabilityIs
  <2>3. n = 100 * e /\ d = (own + 100) * c BY <2>2 DEF For, Against
  <2>4. 100 * e + c * (own + 100) >= (own + 100) * e BY <2>2
  <2> HIDE DEF n, d, c, e
  <2>5. (own + 100) * e = own * e + 100 * e /\ c * (own + 100) = (own + 100) * c
        /\ own * e \in Int /\ 100 * e \in Int /\ (own + 100) * c \in Int
    BY <1>1, <2>1
  <2>6. d >= own * e BY <1>2, <2>3, <2>4, <2>5
  <2>7. n * own <= 100 * d
    <3>1. n * own = 100 * (own * e) BY <1>1, <2>1, <2>3
    <3>2. 100 * (own * e) <= 100 * d BY <1>2, <2>5, <2>6
    <3> QED BY <3>1, <3>2
  <2>8. own * e >= 100 * e
    <3>1. e * 100 <= e * own BY <1>1, <2>1, ProductOrder
    <3>2. e * 100 = 100 * e /\ e * own = own * e BY <1>1, <2>1
    <3> QED BY <3>1, <3>2
  <2>9. d >= n BY <1>2, <2>3, <2>5, <2>6, <2>8
  <2>10. PriceOf(n, d) = Round(100 * d, n) BY <2>9 DEF PriceOf
  <2>11. 100 * d \in Int BY <1>2
  <2>12. own <= Round(100 * d, n) BY <1>2, <2>1, <2>7, <2>11, RoundReaches
  <2> QED BY <1>2, <1>3, <2>1, <2>10, <2>12
<1>5. CASE own < 0
  <2> DEFINE a == -own
  <2>1. a \in Int /\ a > 0 /\ own \in Int /\ own = -a BY <1>5
  <2>2. Probability(own).n = a /\ Probability(own).d = 100 + a BY <1>5, ProbabilityIs
  <2>3. n = a * e /\ d = (100 + a) * c BY <2>2 DEF For, Against
  <2>4. a * e + c * (100 + a) >= (100 + a) * e BY <2>2
  <2> HIDE DEF n, d, c, e, a
  <2>5. (100 + a) * e = a * e + 100 * e /\ c * (100 + a) = (100 + a) * c
        /\ a * e \in Int /\ 100 * e \in Int /\ (100 + a) * c \in Int
    BY <1>1, <2>1
  <2>6. d >= 100 * e BY <1>2, <2>3, <2>4, <2>5
  <2>7. CASE d >= n BY <1>2, <1>3, <2>1, <2>7
  <2>8. CASE d < n
    <3>1. PriceOf(n, d) = Round(-100 * n, d) BY <1>2, <2>8 DEF PriceOf
    <3>2. a * (100 * e) <= a * d BY <1>2, <2>1, <2>5, <2>6, ProductOrder
    <3>3. a * (100 * e) = 100 * (a * e) BY <1>1, <2>1
    <3>4. 100 * n <= a * d BY <2>3, <3>2, <3>3
    <3>5. d * own = -(a * d)
      <4>1. d * own = d * (-a) BY <2>1
      <4>2. d * (-a) = -(a * d) BY <1>2, <2>1
      <4> QED BY <4>1, <4>2
    <3>6. -100 * n \in Int /\ -100 * n = -(100 * n) BY <1>2
    <3>7. d * own <= -100 * n
      <4>1. a * d \in Int /\ 100 * n \in Int BY <1>2, <2>1
      <4> QED BY <3>4, <3>5, <3>6, <4>1
    <3>8. own <= Round(-100 * n, d) BY <1>2, <2>1, <3>6, <3>7, RoundReaches
    <3> QED BY <1>2, <1>3, <2>1, <3>1, <3>8
  <2> QED BY <1>2, <2>7, <2>8
<1> QED BY <1>4, <1>5

LEMMA StrikesAreAlwaysFair == StrikesAreFair
<1>1. SUFFICES ASSUME NEW own \in Prices, NEW other \in Prices
      PROVE  LET fair == vigFreeMoneylinePrice(own, other)
                 back == vigFreeMoneylinePrice(other, own)
             IN  /\ LET p == Probability(own)
                        q == Probability(other)
                    IN  own \notin 1..99 /\ p.n * q.d + q.n * p.d >= p.d * q.d => fair >= own
                 /\ fair + back \in -1..1 \/ {fair, back} \subseteq {100, -100}
                 /\ fair \notin {-MaximumMoneylineOdds, MaximumMoneylineOdds} /\ moneylineStrikeIsAvailable(fair)
                      => moneylineStrikeIsAvailable(back)
  BY DEF StrikesAreFair
<1>2. own \in Int \ {0} /\ other \in Int \ {0} BY FeedAssumption
<1> DEFINE fair == vigFreeMoneylinePrice(own, other)
           back == vigFreeMoneylinePrice(other, own)
           n == For(own, other)
           d == Against(own, other)
<1>3. n \in Int /\ n > 0 /\ d \in Int /\ d > 0 /\ fair = PriceOf(n, d) /\ back = PriceOf(d, n)
  BY <1>2, FairIs
<1>4. LET p == Probability(own)
          q == Probability(other)
      IN  own \notin 1..99 /\ p.n * q.d + q.n * p.d >= p.d * q.d => fair >= own
  BY <1>2, FairIsNoWorse
<1> HIDE DEF fair, back, n, d
<1>5. fair \in Int /\ (fair >= 100 \/ fair <= -99) /\ back \in Int /\ (back >= 100 \/ back <= -99)
  <2>1. fair \in Int /\ (d >= n => fair >= 100) /\ (d < n => fair <= -99) BY <1>3, PricesMirror
  <2>2. back \in Int /\ (n >= d => back >= 100) /\ (n < d => back <= -99) BY <1>3, PricesMirror
  <2> QED BY <1>3, <2>1, <2>2
<1>6. fair + back \in -1..1 \/ {fair, back} \subseteq {100, -100} BY <1>3, PricesMirror
<1>7. fair \notin {-MaximumMoneylineOdds, MaximumMoneylineOdds} /\ moneylineStrikeIsAvailable(fair)
        => moneylineStrikeIsAvailable(back)
  BY <1>5, <1>6 DEF moneylineStrikeIsAvailable, MaximumMoneylineOdds
<1> QED BY <1>4, <1>6, <1>7 DEF fair, back

(* Sides *)

SideOf(event, outcome) == resolveCanonicalOutcomeSide(event, outcome.name)

\* A book's outcomes in an event, given what the poll said of the book.
BookTells(event, state, k, outcomes) ==
  /\ outcomes \in SUBSET NamedPoint
  /\ state = "absent" => outcomes = {}
  /\ state = "partial" => \E h \in NamedPoint : outcomes = {h}
  /\ state \in {"whole", "skewed", "twice"} =>
       \E h, a \in NamedPoint :
         /\ outcomes = {h, a} /\ SideOf(event, h) = "home" /\ SideOf(event, a) = "away"
         /\ state = "skewed" => h.point + a.point = 1
         /\ state # "skewed" => h.point = Quote(k, event.home) /\ a.point = Quote(k, event.away)

\* An event of a poll: whose sides it names, whose scores and quotes it carries.
EventTells(event, poll) ==
  /\ event \in Game
  /\ event.home = TeamA <=> event.away # TeamA
  /\ poll.score # Nowhere => event.homeScore = Points[event.home] /\ event.awayScore = Points[event.away]
  /\ \A k \in BookIds : /\ event.listed[k] <=> poll.odds # Nowhere /\ poll.books[k] = "twice"
                        /\ poll.odds = Nowhere => event.outcomes[k] = {}
                        /\ poll.odds # Nowhere => BookTells(event, poll.books[k], k, event.outcomes[k])

LEMMA ListingIs ==
  ASSUME NEW s \in Listings, s # Nowhere
  PROVE  s \in Sides /\ s.home # s.away /\ (s.home = TeamA <=> s.away # TeamA)
BY FeedAssumption DEF Listings, Order1, Order2, Another, Sides, Team

LEMMA QuoteIs ==
  ASSUME NEW k \in BookIds, NEW t \in Team, NEW u \in Team, t = TeamA <=> u # TeamA
  PROVE  Quote(k, t) \in Int /\ Quote(k, u) \in Int /\ Quote(k, t) + Quote(k, u) = 0
<1>1. k \in Int /\ Handicap \in Int BY FeedAssumption DEF BookIds
<1> QED BY <1>1 DEF Quote

LEMMA BookOutcomesTell ==
  ASSUME NEW poll \in FeedPolls, poll.odds # Nowhere, NEW k \in BookIds,
         NEW event, event.home = poll.odds.home, event.away = poll.odds.away
  PROVE  BookTells(event, poll.books[k], k, BookOutcomes(poll, k))
<1> DEFINE home == poll.odds.home
           away == poll.odds.away
           h == [name |-> Name(poll, home), point |-> Quote(k, home) + 0]
           a == [name |-> Name(poll, away), point |-> Quote(k, away) + 0]
           b == [name |-> Name(poll, away), point |-> Quote(k, away) + 1]
           state == poll.books[k]
<1>1. poll.odds \in Listings /\ poll.named \in {"teams", "sides"} /\ state \in BookStates BY DEF FeedPolls
<1>2. home \in Team /\ away \in Team /\ home # away /\ (home = TeamA <=> away # TeamA)
  BY <1>1, ListingIs DEF Sides
<1>3. Quote(k, home) \in Int /\ Quote(k, away) \in Int /\ Quote(k, home) + Quote(k, away) = 0
  BY <1>2, QuoteIs
<1>4. /\ Name(poll, home) \in {home, "home"}
      /\ Name(poll, away) \in {away, "away"}
  BY <1>1, <1>2 DEF Name
<1>5. home \notin {"home", "away"} /\ away \notin {"home", "away"} BY <1>2, FeedAssumption
<1>6. /\ resolveCanonicalOutcomeSide(event, Name(poll, home)) = "home"
      /\ resolveCanonicalOutcomeSide(event, Name(poll, away)) = "away"
  BY <1>2, <1>4, <1>5 DEF resolveCanonicalOutcomeSide
<1>7. /\ state = "absent" => BookOutcomes(poll, k) = {}
      /\ state = "partial" => BookOutcomes(poll, k) = {h}
      /\ state = "skewed" => BookOutcomes(poll, k) = {h, b}
      /\ state \in {"whole", "twice"} => BookOutcomes(poll, k) = {h, a}
  BY DEF BookOutcomes
<1>8. h \in NamedPoint /\ a \in NamedPoint /\ b \in NamedPoint BY <1>2, <1>3, <1>4 DEF NamedPoint
<1>9. SideOf(event, h) = "home" /\ SideOf(event, a) = "away" /\ SideOf(event, b) = "away" BY <1>6 DEF SideOf
<1>10. h.point = Quote(k, home) /\ a.point = Quote(k, away) /\ h.point + b.point = 1 BY <1>3
<1> HIDE DEF h, a, b, state
<1>11. BookOutcomes(poll, k) \in SUBSET NamedPoint BY <1>1, <1>7, <1>8 DEF BookStates
<1>12. state = "partial" => \E x \in NamedPoint : BookOutcomes(poll, k) = {x} BY <1>7, <1>8
<1>13. state \in {"whole", "skewed", "twice"} =>
         \E x, y \in NamedPoint :
           /\ BookOutcomes(poll, k) = {x, y} /\ SideOf(event, x) = "home" /\ SideOf(event, y) = "away"
           /\ state = "skewed" => x.point + y.point = 1
           /\ state # "skewed" => x.point = Quote(k, event.home) /\ y.point = Quote(k, event.away)
  BY <1>7, <1>8, <1>9, <1>10
<1> QED BY <1>7, <1>11, <1>12, <1>13 DEF BookTells, state

LEMMA MergedTells ==
  ASSUME NEW poll \in FeedPolls, Merged(poll) # Nowhere
  PROVE  EventTells(Merged(poll), poll)
<1> DEFINE teams == IF poll.odds # Nowhere THEN poll.odds ELSE poll.score
           m == Merged(poll)
           scores == ScoresFor(poll, teams)
           listed == [k \in BookIds |-> poll.odds # Nowhere /\ poll.books[k] = "twice"]
           quoted == [k \in BookIds |-> IF poll.odds = Nowhere THEN {} ELSE BookOutcomes(poll, k)]
<1>1. poll.odds \in Listings /\ poll.score \in Listings /\ poll.books \in [BookIds -> BookStates] BY DEF FeedPolls
<1>2. /\ teams # Nowhere
      /\ m = [home |-> teams.home, away |-> teams.away, homeScore |-> scores[1], awayScore |-> scores[2],
              listed |-> listed, outcomes |-> quoted]
  BY DEF Merged
<1>3. teams \in Sides /\ (teams.home = TeamA <=> teams.away # TeamA) BY <1>1, <1>2, ListingIs
<1>4. /\ scores[1] \in TeamScore /\ scores[2] \in TeamScore
      /\ poll.score # Nowhere => scores[1] = Points[teams.home] /\ scores[2] = Points[teams.away]
  BY <1>3 DEF ScoresFor, ScoreOf, TeamScore, Sides
<1> HIDE DEF scores
<1>5. /\ m.home = teams.home /\ m.away = teams.away /\ m.homeScore = scores[1] /\ m.awayScore = scores[2]
      /\ m.listed = listed /\ m.outcomes = quoted
  BY <1>2
<1>6. ASSUME NEW k \in BookIds, poll.odds # Nowhere PROVE BookTells(m, poll.books[k], k, quoted[k])
  <2>1. quoted[k] = BookOutcomes(poll, k) BY <1>6
  <2>2. m.home = poll.odds.home /\ m.away = poll.odds.away BY <1>5, <1>6
  <2> HIDE DEF m, quoted
  <2>3. BookTells(m, poll.books[k], k, BookOutcomes(poll, k)) BY <1>6, <2>2, BookOutcomesTell
  <2> QED BY <2>1, <2>3
<1>7. quoted \in [BookIds -> SUBSET NamedPoint]
  <2>1. SUFFICES ASSUME NEW k \in BookIds PROVE quoted[k] \in SUBSET NamedPoint OBVIOUS
  <2>2. CASE poll.odds = Nowhere BY <2>2
  <2>3. CASE poll.odds # Nowhere BY <1>6, <2>3 DEF BookTells
  <2> QED BY <2>2, <2>3
<1>8. \A k \in BookIds : /\ listed[k] <=> poll.odds # Nowhere /\ poll.books[k] = "twice"
                         /\ poll.odds = Nowhere => quoted[k] = {}
  OBVIOUS
<1>9. listed \in [BookIds -> BOOLEAN] OBVIOUS
<1> HIDE DEF listed, quoted, teams
<1>10. m \in Game BY <1>2, <1>3, <1>4, <1>7, <1>9 DEF Game, Sides
<1> HIDE DEF m
<1>11. EventTells(m, poll)
  <2>1. m.home = TeamA <=> m.away # TeamA BY <1>3, <1>5
  <2>2. poll.score # Nowhere => m.homeScore = Points[m.home] /\ m.awayScore = Points[m.away] BY <1>4, <1>5
  <2>3. \A k \in BookIds : /\ m.listed[k] <=> poll.odds # Nowhere /\ poll.books[k] = "twice"
                           /\ poll.odds = Nowhere => m.outcomes[k] = {}
                           /\ poll.odds # Nowhere => BookTells(m, poll.books[k], k, m.outcomes[k])
    BY <1>5, <1>6, <1>8
  <2> QED BY <1>10, <2>1, <2>2, <2>3 DEF EventTells
<1> QED BY <1>11 DEF m

LEMMA AliasIsBound ==
  ASSUME NEW event, event.home \in Team, event.away \in Team, event.home # event.away, NEW o \in NamedPoint
  PROVE  /\ BindAlias(event, o) \in NamedPoint /\ BindAlias(event, o).point = o.point
         /\ SideOf(event, o) = "home" => BindAlias(event, o).name = event.home
         /\ SideOf(event, o) = "away" => BindAlias(event, o).name = event.away
<1> DEFINE n == CASE o.name = "home" -> event.home [] o.name = "away" -> event.away [] OTHER -> o.name
<1>1. o.name \in Team \cup {"home", "away"} /\ o.point \in Int BY DEF NamedPoint
<1>2. n \in Team \cup {"home", "away"} BY <1>1
<1>3. BindAlias(event, o) = [name |-> n, point |-> o.point] BY DEF BindAlias, NamedPoint
<1>4. SideOf(event, o) = "home" => n = event.home
  BY <1>1, FeedAssumption DEF SideOf, resolveCanonicalOutcomeSide
<1>5. SideOf(event, o) = "away" => n = event.away
  BY <1>1, FeedAssumption DEF SideOf, resolveCanonicalOutcomeSide
<1> HIDE DEF n
<1> QED BY <1>1, <1>2, <1>3, <1>4, <1>5 DEF NamedPoint

\* A team's quotes stay the team's when the sides change.
LEMMA TurnedTells ==
  ASSUME NEW poll \in FeedPolls, NEW event, EventTells(event, poll), NEW expected,
         expected.home = event.away, expected.away = event.home
  PROVE  EventTells(Turned(expected, event), poll)
<1> DEFINE e == Turned(expected, event)
           bound(k) == {BindAlias(event, o) : o \in event.outcomes[k]}
<1>1. /\ event \in Game /\ event.home \in Team /\ event.away \in Team
      /\ event.homeScore \in TeamScore /\ event.awayScore \in TeamScore
      /\ event.listed \in [BookIds -> BOOLEAN] /\ event.outcomes \in [BookIds -> SUBSET NamedPoint]
  BY DEF EventTells, Game
<1>2. (event.home = TeamA <=> event.away # TeamA) /\ event.home # event.away BY DEF EventTells
<1>3. e = [home |-> event.away, away |-> event.home, homeScore |-> event.awayScore,
           awayScore |-> event.homeScore, listed |-> event.listed, outcomes |-> [k \in BookIds |-> bound(k)]]
  <2> DEFINE all == [k \in BookIds |-> bound(k)]
  <2>1. e = [event EXCEPT !.home = expected.home, !.away = expected.away, !.homeScore = event.awayScore,
                          !.awayScore = event.homeScore, !.outcomes = all]
    BY DEF Turned
  <2> HIDE DEF all, e
  <2>2. e = [home |-> event.away, away |-> event.home, homeScore |-> event.awayScore,
             awayScore |-> event.homeScore, listed |-> event.listed, outcomes |-> all]
    BY <1>1, <2>1 DEF Game
  <2> QED BY <2>2 DEF all
<1> HIDE DEF e
<1>4. /\ e.home = event.away /\ e.away = event.home /\ e.homeScore = event.awayScore
      /\ e.awayScore = event.homeScore /\ e.listed = event.listed
      /\ \A k \in BookIds : e.outcomes[k] = bound(k)
  BY <1>3
<1>5. \A k \in BookIds : bound(k) \in SUBSET NamedPoint BY <1>1, <1>2, AliasIsBound
<1>6. e \in Game
  <2> DEFINE all == [k \in BookIds |-> bound(k)]
  <2>1. all \in [BookIds -> SUBSET NamedPoint] BY <1>5
  <2> HIDE DEF all
  <2>2. e = [home |-> event.away, away |-> event.home, homeScore |-> event.awayScore,
             awayScore |-> event.homeScore, listed |-> event.listed, outcomes |-> all]
    BY <1>3 DEF all
  <2> QED BY <1>1, <2>1, <2>2 DEF Game
<1>7. ASSUME NEW k \in BookIds, poll.odds # Nowhere PROVE BookTells(e, poll.books[k], k, bound(k))
  <2> DEFINE state == poll.books[k]
             outs == event.outcomes[k]
  <2>1. BookTells(event, state, k, outs) BY <1>7 DEF EventTells
  <2>2. state = "absent" => bound(k) = {} BY <2>1 DEF BookTells
  <2>3. ASSUME state = "partial" PROVE \E h \in NamedPoint : bound(k) = {h}
    <3>1. PICK h \in NamedPoint : outs = {h} BY <2>1, <2>3 DEF BookTells
    <3>2. bound(k) = {BindAlias(event, h)} BY <3>1
    <3> QED BY <1>1, <1>2, <3>2, AliasIsBound
  <2>4. ASSUME state \in {"whole", "skewed", "twice"}
        PROVE  \E h, a \in NamedPoint :
                 /\ bound(k) = {h, a} /\ SideOf(e, h) = "home" /\ SideOf(e, a) = "away"
                 /\ state = "skewed" => h.point + a.point = 1
                 /\ state # "skewed" => h.point = Quote(k, e.home) /\ a.point = Quote(k, e.away)
    <3>1. PICK h, a \in NamedPoint :
            /\ outs = {h, a} /\ SideOf(event, h) = "home" /\ SideOf(event, a) = "away"
            /\ state = "skewed" => h.point + a.point = 1
            /\ state # "skewed" => h.point = Quote(k, event.home) /\ a.point = Quote(k, event.away)
      BY <2>1, <2>4 DEF BookTells
    <3> DEFINE x == BindAlias(event, a)
               y == BindAlias(event, h)
    <3>2. bound(k) = {x, y} BY <3>1
    <3>3. x \in NamedPoint /\ x.point = a.point /\ x.name = event.away BY <1>1, <1>2, <3>1, AliasIsBound
    <3>4. y \in NamedPoint /\ y.point = h.point /\ y.name = event.home BY <1>1, <1>2, <3>1, AliasIsBound
    <3> HIDE DEF x, y
    <3>5. SideOf(e, x) = "home"
      BY <1>1, <1>2, <1>4, <3>3, FeedAssumption DEF SideOf, resolveCanonicalOutcomeSide
    <3>6. SideOf(e, y) = "away"
      BY <1>1, <1>2, <1>4, <3>4, FeedAssumption DEF SideOf, resolveCanonicalOutcomeSide
    <3>7. h.point \in Int /\ a.point \in Int BY DEF NamedPoint
    <3>8. state = "skewed" => x.point + y.point = 1 BY <3>1, <3>3, <3>4, <3>7
    <3>9. state # "skewed" => x.point = Quote(k, e.home) /\ y.point = Quote(k, e.away)
      BY <1>4, <3>1, <3>3, <3>4
    <3> QED BY <3>2, <3>3, <3>4, <3>5, <3>6, <3>8, <3>9
  <2> HIDE DEF bound, state
  <2> QED BY <1>5, <2>2, <2>3, <2>4 DEF BookTells, state
<1>8. e.home = TeamA <=> e.away # TeamA BY <1>2, <1>4
<1>9. poll.score # Nowhere => e.homeScore = Points[e.home] /\ e.awayScore = Points[e.away]
  BY <1>4 DEF EventTells
<1>10. \A k \in BookIds : /\ e.listed[k] <=> poll.odds # Nowhere /\ poll.books[k] = "twice"
                          /\ poll.odds = Nowhere => e.outcomes[k] = {}
  BY <1>4 DEF EventTells
<1> HIDE DEF bound
<1>11. EventTells(e, poll) BY <1>4, <1>6, <1>7, <1>8, <1>9, <1>10 DEF EventTells
<1> QED BY <1>11 DEF e

(* Books *)

LEMMA MarketIs ==
  ASSUME NEW event, NEW state \in BookStates, NEW k \in BookIds, NEW outcomes,
         BookTells(event, state, k, outcomes), event.home \in Team, event.away \in Team,
         event.home = TeamA <=> event.away # TeamA
  PROVE  /\ validateCanonicalMarket(event, outcomes) = "incomplete" <=> state \in {"absent", "partial"}
         /\ state = "skewed" => validateCanonicalMarket(event, outcomes) = "invalid"
<1>1. CASE state = "absent"
  <2>1. Cardinality(outcomes) = 0 BY <1>1, FS_EmptySet DEF BookTells
  <2> QED BY <1>1, <2>1 DEF validateCanonicalMarket
<1>2. CASE state = "partial"
  <2>1. PICK h \in NamedPoint : outcomes = {h} BY <1>2 DEF BookTells
  <2>2. Cardinality(outcomes) = 1 BY <2>1, FS_Singleton
  <2> QED BY <1>2, <2>2 DEF validateCanonicalMarket
<1>3. CASE state \in {"whole", "skewed", "twice"}
  <2>1. PICK h, a \in NamedPoint :
          /\ outcomes = {h, a} /\ SideOf(event, h) = "home" /\ SideOf(event, a) = "away"
          /\ state = "skewed" => h.point + a.point = 1
          /\ state # "skewed" => h.point = Quote(k, event.home) /\ a.point = Quote(k, event.away)
    BY <1>3 DEF BookTells
  <2>2. h # a BY <2>1
  <2>3. Cardinality(outcomes) = 2
    <3>1. IsFiniteSet({h}) /\ Cardinality({h}) = 1 BY FS_Singleton
    <3>2. a \notin {h} BY <2>2
    <3>3. Cardinality({h} \cup {a}) = Cardinality({h}) + 1 BY <3>1, <3>2, FS_AddElement
    <3>4. outcomes = {h} \cup {a} BY <2>1
    <3> QED BY <3>1, <3>3, <3>4
  <2>4. h.point \in Int /\ a.point \in Int BY DEF NamedPoint
  <2>5. validateCanonicalMarket(event, outcomes) # "incomplete" BY <2>3 DEF validateCanonicalMarket
  <2>6. ASSUME state = "skewed" PROVE validateCanonicalMarket(event, outcomes) = "invalid"
    <3>1. ~ \E o, p \in outcomes : o # p /\ o.point = -p.point
      <4>1. h.point # -a.point /\ a.point # -h.point BY <2>1, <2>4, <2>6
      <4> QED BY <2>1, <4>1
    <3> QED BY <2>3, <3>1 DEF validateCanonicalMarket
  <2> QED BY <1>3, <2>5, <2>6
<1> QED BY <1>1, <1>2, <1>3 DEF BookStates

LEMMA LeastBook ==
  ASSUME NEW S \in SUBSET BookIds, S # {}
  PROVE  \E t \in S : \A u \in S : t <= u
<1>0. S \subseteq Nat
  <2>1. BookIds \subseteq Nat BY FeedAssumption DEF BookIds
  <2> QED BY <2>1
<1>1. IsWellFoundedOn(OpToRel(<, Nat), Nat) BY NatLessThanWellFounded
<1>2. PICK t \in S : \A u \in S : ~ (<<u, t>> \in OpToRel(<, Nat)) BY <1>0, <1>1, WFMin
<1>3. ASSUME NEW u \in S PROVE t <= u
  <2>1. t \in Nat /\ u \in Nat BY <1>0
  <2>2. ~ (u < t) BY <1>2, <2>1 DEF OpToRel
  <2> QED BY <2>1, <2>2
<1> QED BY <1>3

\* An offer, made of the books of a poll, is the first whole market's.
OfferTells(event, books, offer) ==
  offer # Nowhere =>
    /\ offer.book \in BookIds
    /\ books[offer.book] = "whole"
    /\ \A k \in 1..offer.book - 1 : books[k] \in {"absent", "partial"}
    /\ \A o \in offer.outcomes :
         LET side == SideOf(event, o)
             team == IF side = "home" THEN event.home ELSE event.away
         IN  side # "none" /\ o.point = Quote(offer.book, team)

LEMMA ChosenTells ==
  ASSUME NEW poll \in FeedPolls, NEW event, EventTells(event, poll), ~Throws(event)
  PROVE  OfferTells(event, poll.books, Chosen(event)) /\ Chosen(event) \in Offer \cup {Nowhere}
<1> DEFINE present == {k \in BookIds : validateCanonicalMarket(event, event.outcomes[k]) # "incomplete"}
           c == CHOOSE k \in present : \A j \in present : k <= j
           outs == event.outcomes[c]
           offer == [book |-> c, outcomes |-> outs]
<1>1. CASE present = {} BY <1>1 DEF Chosen, OfferTells
<1>2. CASE present # {}
  <2>1. \E t \in present : \A u \in present : t <= u BY <1>2, LeastBook
  <2>2. c \in present /\ \A j \in present : c <= j BY <2>1
  <2>3. Chosen(event) = offer BY <1>2 DEF Chosen
  <2>4. c \in BookIds /\ validateCanonicalMarket(event, outs) # "incomplete" BY <2>2
  <2>5. poll.books \in [BookIds -> BookStates] BY DEF FeedPolls
  <2>6. event.home \in Team /\ event.away \in Team /\ (event.home = TeamA <=> event.away # TeamA)
    BY DEF EventTells, Game
  <2>7. outs \in SUBSET NamedPoint BY <2>4 DEF EventTells, Game
  <2>8. offer \in Offer BY <2>4, <2>7 DEF Offer
  <2>9. offer # Nowhere BY <2>8, FeedAssumption
  <2>10. poll.odds # Nowhere
    <3>1. SUFFICES ASSUME poll.odds = Nowhere PROVE FALSE OBVIOUS
    <3>2. outs = {} BY <2>4, <3>1 DEF EventTells
    <3>3. validateCanonicalMarket(event, outs) = "incomplete" BY <3>2, FS_EmptySet DEF validateCanonicalMarket
    <3> QED BY <2>4, <3>3
  <2>11. \A k \in BookIds : BookTells(event, poll.books[k], k, event.outcomes[k]) BY <2>10 DEF EventTells
  <2>12. \A k \in BookIds : poll.books[k] # "twice" BY <2>10 DEF EventTells, Throws
  <2>13. validateCanonicalMarket(event, offer.outcomes) # "invalid" BY <2>3, <2>9 DEF Throws
  <2> HIDE DEF c, present
  <2>14. poll.books[c] = "whole"
    <3>1. BookTells(event, poll.books[c], c, outs) /\ poll.books[c] \in BookStates BY <2>4, <2>5, <2>11
    <3>2. poll.books[c] \notin {"absent", "partial"} BY <2>4, <2>6, <3>1, MarketIs
    <3>3. poll.books[c] # "skewed" BY <2>4, <2>6, <2>13, <3>1, MarketIs
    <3> QED BY <2>4, <2>12, <3>1, <3>2, <3>3 DEF BookStates
  <2>15. ASSUME NEW k \in 1..c - 1 PROVE poll.books[k] \in {"absent", "partial"}
    <3>1. k \in BookIds /\ k < c BY <2>4, FeedAssumption DEF BookIds
    <3>2. c \in Int /\ k \in Int BY <2>4, FeedAssumption DEF BookIds
    <3>3. ~ (c <= k) BY <3>1, <3>2
    <3>4. k \notin present BY <2>2, <3>3
    <3>5. validateCanonicalMarket(event, event.outcomes[k]) = "incomplete" BY <3>1, <3>4 DEF present
    <3>6. BookTells(event, poll.books[k], k, event.outcomes[k]) /\ poll.books[k] \in BookStates
      BY <2>5, <2>11, <3>1
    <3> QED BY <2>6, <3>1, <3>5, <3>6, MarketIs
  <2>16. ASSUME NEW o \in outs
         PROVE  LET side == SideOf(event, o)
                    team == IF side = "home" THEN event.home ELSE event.away
                IN  side # "none" /\ o.point = Quote(c, team)
    <3>1. BookTells(event, "whole", c, outs) BY <2>4, <2>11, <2>14
    <3>2. PICK h, a \in NamedPoint :
            /\ outs = {h, a} /\ SideOf(event, h) = "home" /\ SideOf(event, a) = "away"
            /\ h.point = Quote(c, event.home) /\ a.point = Quote(c, event.away)
      BY <3>1 DEF BookTells
    <3>3. o = h \/ o = a BY <3>2
    <3> QED BY <3>2, <3>3
  <2>17. OfferTells(event, poll.books, offer)
    <3>1. offer.book = c /\ offer.outcomes = outs OBVIOUS
    <3> HIDE DEF offer, outs
    <3> QED BY <2>4, <2>14, <2>15, <2>16, <3>1 DEF OfferTells
  <2> QED BY <2>3, <2>8, <2>17
<1> QED BY <1>1, <1>2

(* Rows *)

SidesInv == /\ stored # Nowhere => stored \in Row
            /\ SidesBelongToTeams

LEMMA EventIngested ==
  ASSUME NEW poll \in FeedPolls, NEW event, EventTells(event, poll), ~Throws(event),
         stored' = [home |-> event.home, away |-> event.away, homeScore |-> event.homeScore,
                    awayScore |-> event.awayScore, offer |-> Chosen(event)],
         told' = [books |-> poll.books, scored |-> poll.score # Nowhere]
  PROVE  SidesInv'
<1>1. OfferTells(event, poll.books, Chosen(event)) /\ Chosen(event) \in Offer \cup {Nowhere} BY ChosenTells
<1>2. /\ stored'.home = event.home /\ stored'.away = event.away /\ stored'.homeScore = event.homeScore
      /\ stored'.awayScore = event.awayScore /\ stored'.offer = Chosen(event)
      /\ told'.books = poll.books /\ (told'.scored <=> poll.score # Nowhere)
  OBVIOUS
<1>3. stored' \in Row BY <1>1 DEF EventTells, Game, Row
<1>4. \A o : SideOf(stored', o) = SideOf(event, o) BY <1>2 DEF SideOf, resolveCanonicalOutcomeSide
<1>5. told'.scored => stored'.homeScore = Points[stored'.home] /\ stored'.awayScore = Points[stored'.away]
  BY <1>2 DEF EventTells
<1>6. OfferTells(stored', told'.books, stored'.offer)
  <2>1. OfferTells(stored', poll.books, Chosen(event)) BY <1>1, <1>2, <1>4 DEF OfferTells
  <2> QED BY <1>2, <2>1
<1>7. SidesBelongToTeams' BY <1>5, <1>6 DEF SidesBelongToTeams, OfferTells, SideOf
<1> QED BY <1>3, <1>7 DEF SidesInv

LEMMA IngestKeeps ==
  ASSUME SidesInv, NEW poll \in FeedPolls, Ingest(poll)
  PROVE  SidesInv' /\ (stored # Nowhere => stored'.home = stored.home /\ stored'.away = stored.away)
<1> DEFINE merged == Merged(poll)
           event == IF merged = Nowhere \/ stored = Nowhere THEN merged ELSE orientProviderEvent(stored, merged)
<1>1. CASE event = Nowhere
  <2>1. stored # Nowhere /\ stored' = [stored EXCEPT !.offer = Nowhere] /\ told' = told BY <1>1 DEF Ingest
  <2>2. stored \in Row BY <2>1 DEF SidesInv
  <2>3. /\ stored'.home = stored.home /\ stored'.away = stored.away /\ stored'.homeScore = stored.homeScore
        /\ stored'.awayScore = stored.awayScore /\ stored'.offer = Nowhere
    BY <2>1, <2>2 DEF Row
  <2>4. stored' \in Row BY <2>1, <2>2 DEF Row
  <2>5. told.scored => stored.homeScore = Points[stored.home] /\ stored.awayScore = Points[stored.away]
    BY <2>1 DEF SidesInv, SidesBelongToTeams
  <2>6. SidesBelongToTeams' BY <2>1, <2>3, <2>5 DEF SidesBelongToTeams
  <2> QED BY <2>3, <2>4, <2>6 DEF SidesInv
<1>2. CASE event # Nowhere
  <2>1. /\ ~Throws(event)
        /\ stored' = [home |-> event.home, away |-> event.away, homeScore |-> event.homeScore,
                      awayScore |-> event.awayScore, offer |-> Chosen(event)]
        /\ told' = [books |-> poll.books, scored |-> poll.score # Nowhere]
    BY <1>2 DEF Ingest
  <2>2. merged # Nowhere BY <1>2
  <2>3. EventTells(merged, poll) BY <2>2, MergedTells
  <2>4. EventTells(event, poll) /\ (stored # Nowhere => event.home = stored.home /\ event.away = stored.away)
    <3>1. CASE stored = Nowhere BY <2>3, <3>1
    <3>2. CASE stored # Nowhere
      <4>1. event = orientProviderEvent(stored, merged) BY <2>2, <3>2
      <4>2. eventTeamOrder(stored, merged) \in {"same", "swapped", "conflict"} BY DEF eventTeamOrder
      <4>3. CASE eventTeamOrder(stored, merged) = "same"
        <5>1. event = merged BY <4>1, <4>3 DEF orientProviderEvent
        <5>2. stored.home = merged.home /\ stored.away = merged.away BY <4>3 DEF eventTeamOrder
        <5> QED BY <2>3, <5>1, <5>2
      <4>4. CASE eventTeamOrder(stored, merged) = "swapped"
        <5>1. event = Turned(stored, merged) BY <4>1, <4>4 DEF orientProviderEvent
        <5>2. stored.home = merged.away /\ stored.away = merged.home BY <4>4 DEF eventTeamOrder
        <5>3. EventTells(Turned(stored, merged), poll) BY <2>3, <5>2, TurnedTells
        <5>4. Turned(stored, merged).home = stored.home /\ Turned(stored, merged).away = stored.away
          BY <2>3 DEF Turned, EventTells, Game
        <5> QED BY <5>1, <5>3, <5>4
      <4>5. CASE eventTeamOrder(stored, merged) = "conflict"
        <5>1. orientProviderEvent(stored, merged) = Nowhere BY <4>5 DEF orientProviderEvent
        <5> QED BY <1>2, <4>1, <5>1
      <4> QED BY <4>2, <4>3, <4>4, <4>5
    <3> QED BY <3>1, <3>2
  <2> HIDE DEF event
  <2>5. SidesInv' BY <2>1, <2>4, EventIngested
  <2>6. stored'.home = event.home /\ stored'.away = event.away BY <2>1
  <2> QED BY <2>4, <2>5, <2>6
<1> QED BY <1>1, <1>2

\* CanonicalFeed: on whatever sides the provider's two containers list the teams, and
\* however a book names its outcomes, a row's offer is the first whole market, each
\* side at what that book quotes its team; a score is its team's; no team changes
\* sides; and for any prices the fair strikes are mirrored and no worse than a price
\* that takes the book's share.
THEOREM TeamsAlwaysKeepTheirSides == FeedSpec => TeamsKeepTheirSides
<1>1. FeedInit => SidesInv BY DEF FeedInit, SidesInv, SidesBelongToTeams
<1>2. SidesInv /\ [FeedNext]_feedVars => SidesInv'
  <2>1. CASE FeedNext BY <2>1, IngestKeeps DEF FeedNext
  <2>2. CASE UNCHANGED feedVars BY <2>2 DEF SidesInv, SidesBelongToTeams, feedVars
  <2> QED BY <2>1, <2>2
<1>3. SidesInv => SidesBelongToTeams /\ StrikesAreFair BY StrikesAreAlwaysFair DEF SidesInv
<1>4. SidesInv /\ [FeedNext]_feedVars
        => [stored # Nowhere => stored'.home = stored.home /\ stored'.away = stored.away]_feedVars
  BY IngestKeeps DEF FeedNext
<1>5. QED BY <1>1, <1>2, <1>3, <1>4, PTL DEF FeedSpec, TeamsKeepTheirSides, TeamsStay
=============================================================================
