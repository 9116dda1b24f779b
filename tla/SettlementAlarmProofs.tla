------------------------ MODULE SettlementAlarmProofs ------------------------
(***************************************************************************)
(* Proofs about SettlementAlarm: for any events, delays and retry limits,  *)
(* and for runs that overlap or are cut off anywhere, the rows and what    *)
(* runs hold of them keep their types, the one alarm covers what waits for *)
(* it, the object never rests with work and no alarm, and an event is      *)
(* watched until its last look.                                            *)
(***************************************************************************)
EXTENDS SettlementAlarm, WellFoundedInduction, TLAPS

(* The least of a set of times *)

LEMMA SmallestExists ==
  ASSUME NEW S \in SUBSET Nat, S # {}
  PROVE  \E t \in S : \A u \in S : t <= u
<1>1. IsWellFoundedOn(OpToRel(<, Nat), Nat) BY NatLessThanWellFounded
<1>2. PICK t \in S : \A u \in S : ~ (<<u, t>> \in OpToRel(<, Nat)) BY <1>1, WFMin
<1>3. ASSUME NEW u \in S PROVE t <= u
  <2>1. t \in Nat /\ u \in Nat OBVIOUS
  <2>2. ~ (u < t) BY <1>2, <2>1 DEF OpToRel
  <2> QED BY <2>1, <2>2
<1> QED BY <1>3

\* A deadline t is early enough for the times that are set.
Early(t, times) == \A d \in times : d # Never => t # Never /\ t <= d

LEMMA SoonestIsEarly ==
  ASSUME NEW times \in SUBSET Time
  PROVE  /\ Soonest(times) \in Time
         /\ Early(Soonest(times), times)
         /\ Soonest(times) # Never => Soonest(times) \in times
<1> DEFINE set == times \ {Never}
<1>1. CASE set = {} BY <1>1 DEF Soonest, Time, Never, Early
<1>2. CASE set # {}
  <2>1. set \in SUBSET Nat BY DEF Time, Never
  <2>2. \E t \in set : \A u \in set : t <= u BY <1>2, <2>1, SmallestExists
  <2> DEFINE s == CHOOSE t \in set : \A u \in set : t <= u
  <2>3. s \in set /\ \A u \in set : s <= u BY <2>2
  <2>4. Soonest(times) = s BY <1>2 DEF Soonest
  <2> QED BY <2>1, <2>3, <2>4 DEF Time, Never, Early
<1> QED BY <1>1, <1>2

-----------------------------------------------------------------------------
(* Types of the rows, and of what a run holds between its awaits *)

Phase     == {"none", "open", "final_15", "final_24", "complete"}
LifeType  == [phase : Phase, errors : 0..MaxErrors-1, due : Time, final : Time]
SentType  == [attempts : 0..MaxAttempts-1, due : Time]
DbType    == [season : {"active", "closed"}, canonical : BOOLEAN, confirmed : BOOLEAN,
              discovery : [errors : 0..MaxErrors-1, due : Time],
              life : [Event -> LifeType], open : SUBSET Event,
              snapshot : [Event -> 0..MaxVersion], outbox : [Row -> SentType]]

\* Functions from some members of S to T.
Partial(S, T) == UNION {[D -> T] : D \in SUBSET S}

RunType == [pc : {"idle", "discovering", "asking", "answered", "draining"},
            held : Partial(Event, LifeType), answer : Partial(Event, 1..MaxVersion),
            errors : 0..MaxErrors-1, deadline : Time,
            rows : Partial(Row, 0..MaxAttempts-1)]

Types ==
  /\ db \in DbType
  /\ alarm \in Time /\ arming \in BOOLEAN /\ announced \in BOOLEAN
  /\ interrupted \in SUBSET {"crash", "overlap"} /\ stale \in SUBSET Event
  /\ run \in [Run -> RunType]
  /\ feed \in [Event -> 0..MaxVersion]

\* What a run holds: events that were due to be looked at, and answers about them.
Holds ==
  \A r \in Run :
    /\ DOMAIN run[r].answer \subseteq DOMAIN run[r].held
    /\ run[r].pc = "idle" => run[r] = Idle
    /\ \A e \in DOMAIN run[r].held :
         run[r].held[e].phase \notin {"none", "complete"} /\ run[r].held[e].due = 0

LEMMA PartialIs ==
  ASSUME NEW S, NEW T, NEW f
  PROVE  f \in Partial(S, T) <=> DOMAIN f \subseteq S /\ f \in [DOMAIN f -> T]
BY DEF Partial

LEMMA NothingHeld ==
  /\ DOMAIN Nothing = {}
  /\ \A S, T : Nothing \in Partial(S, T)
<1>1. Nothing = [x \in {} |-> x] BY DEF Nothing
<1> QED BY <1>1 DEF Partial

LEMMA IdleType == Idle \in RunType
BY DelaysAssumption, NothingHeld DEF Idle, RunType, Time, Never

LEMMA DelayTimes ==
  /\ PollDelay \in Nat /\ RetryDelay \in Nat /\ SendDelay \in Nat
  /\ Final15 \in Nat /\ Final24 \in Nat /\ DiscoveryDelay \in Nat
  /\ PollDelay \in Time /\ RetryDelay \in Time /\ SendDelay \in Time
  /\ Final15 \in Time /\ Final24 \in Time /\ DiscoveryDelay \in Time
  /\ 0 \in Time /\ Never \in Time
  /\ 0 \in 0..MaxErrors-1 /\ 0 \in 0..MaxAttempts-1
BY DelaysAssumption DEF Time, Never

-----------------------------------------------------------------------------
(* Deadlines, and the record of a run that has just read the rows b *)

Waiting(b) ==
  {b.life[e].due : e \in Watched(b)} \cup (IF Seeking(b) THEN {b.discovery.due} ELSE {})

Unsent(b) == {b.outbox[r].due : r \in Pending(b)}

LEMMA DeadlinesAreEarly ==
  ASSUME NEW b \in DbType
  PROVE  /\ Waiting(b) \subseteq Time /\ Unsent(b) \subseteq Nat
         /\ SettlementDeadline(b) \in Time /\ NextOutboxAttempt(b) \in Time
         /\ Early(SettlementDeadline(b), Waiting(b))
         /\ Early(NextOutboxAttempt(b), Unsent(b))
         /\ SettlementDeadline(b) # Never => SettlementDeadline(b) \in Waiting(b)
         /\ NextOutboxAttempt(b) # Never => NextOutboxAttempt(b) \in Unsent(b)
<1>1. Waiting(b) \subseteq Time BY DEF Waiting, Watched, DbType, LifeType
<1>2. Unsent(b) \subseteq Nat BY DEF Unsent, Pending, DbType, SentType, Time, Never
<1>3. SettlementDeadline(b) = Soonest(Waiting(b)) BY DEF SettlementDeadline, Waiting
<1>4. NextOutboxAttempt(b) = Soonest(Unsent(b)) BY DEF NextOutboxAttempt, Unsent
<1>5. Unsent(b) \subseteq Time BY <1>2 DEF Time
<1> QED BY <1>1, <1>2, <1>3, <1>4, <1>5, SoonestIsEarly

\* The run's record agrees with the rows it was made from.
Fresh(x, b) ==
  /\ x \in RunType
  /\ x.pc \notin {"idle", "answered"} /\ DOMAIN x.answer = {}
  /\ \A e \in DOMAIN x.held :
       x.held[e] = b.life[e] /\ b.life[e].phase \notin {"none", "complete"} /\ b.life[e].due = 0
  /\ DOMAIN x.rows \subseteq Pending(b)
  /\ x.pc = "draining" => x.deadline = SettlementDeadline(b)

LEMMA DrainingIsFresh ==
  ASSUME NEW b \in DbType
  PROVE  Fresh(Draining(b), b) /\ Draining(b).pc = "draining"
<1> DEFINE rows == [r \in DueRows(b) |-> b.outbox[r].attempts]
<1>1. DueRows(b) \subseteq Pending(b) /\ Pending(b) \subseteq Row BY DEF DueRows, Pending
<1>2. rows \in Partial(Row, 0..MaxAttempts-1)
  <2>1. \A r \in DueRows(b) : b.outbox[r].attempts \in 0..MaxAttempts-1
    BY <1>1 DEF DbType, SentType
  <2>2. rows \in [DueRows(b) -> 0..MaxAttempts-1] BY <2>1
  <2> QED BY <1>1, <2>2 DEF Partial
<1>3. DOMAIN rows \subseteq Pending(b) BY <1>1
<1>4. Draining(b) = [Idle EXCEPT !.pc = "draining", !.deadline = SettlementDeadline(b), !.rows = rows]
  BY DEF Draining
<1> HIDE DEF rows
<1>5. Draining(b) = [pc |-> "draining", held |-> Nothing, answer |-> Nothing, errors |-> 0,
                     deadline |-> SettlementDeadline(b), rows |-> rows]
  BY <1>4 DEF Idle
<1>6. Draining(b) \in RunType
  BY <1>2, <1>5, DeadlinesAreEarly, NothingHeld, DelaysAssumption DEF RunType
<1> QED BY <1>3, <1>5, <1>6, NothingHeld DEF Fresh

LEMMA AskingIsFresh ==
  ASSUME NEW b \in DbType
  PROVE  Fresh(Asking(b), b) /\ Asking(b).pc \in {"asking", "draining"}
<1>1. CASE DueEvents(b) = {} BY <1>1, DrainingIsFresh DEF Asking
<1>2. CASE DueEvents(b) # {}
  <2> DEFINE held == [e \in DueEvents(b) |-> b.life[e]]
  <2>1. DueEvents(b) \subseteq Event BY DEF DueEvents, Watched
  <2>2. held \in Partial(Event, LifeType) BY <2>1, PartialIs DEF DbType
  <2>3. Asking(b) = [pc |-> "asking", held |-> held, answer |-> Nothing, errors |-> 0,
                     deadline |-> Never, rows |-> Nothing]
    BY <1>2 DEF Asking, Idle
  <2>4. \A e \in DOMAIN held :
          held[e] = b.life[e] /\ b.life[e].phase \notin {"none", "complete"} /\ b.life[e].due = 0
    BY DEF DueEvents, Watched
  <2> HIDE DEF held
  <2>5. Asking(b) \in RunType
    BY <2>2, <2>3, NothingHeld, DelaysAssumption DEF RunType, Time
  <2> QED BY <2>3, <2>4, <2>5, NothingHeld DEF Fresh
<1> QED BY <1>1, <1>2

LEMMA StartedIsFresh ==
  ASSUME NEW b \in DbType
  PROVE  Fresh(Started(b), b)
<1>1. CASE Seeking(b) /\ b.discovery.due = 0
  <2>1. Started(b) = [pc |-> "discovering", held |-> Nothing, answer |-> Nothing,
                      errors |-> b.discovery.errors, deadline |-> Never, rows |-> Nothing]
    BY <1>1 DEF Started, Idle
  <2> QED BY <2>1, NothingHeld DEF Fresh, RunType, DbType, Time
<1>2. CASE ~(Seeking(b) /\ b.discovery.due = 0) BY <1>2, AskingIsFresh DEF Started
<1> QED BY <1>1, <1>2

-----------------------------------------------------------------------------
(* What the transactions of a run do to the rows *)

\* Settlement keeps the answers, closes wagers and seasons, and touches no lifecycle.
LEMMA SettleKeeps ==
  ASSUME NEW b \in DbType, NEW answer \in Partial(Event, 1..MaxVersion),
         NEW c, c = Settle(Keep(b, answer))
  PROVE  /\ c \in DbType
         /\ c.life = b.life /\ c.discovery = b.discovery /\ c.open \subseteq b.open
         /\ c.canonical = b.canonical /\ c.confirmed = b.confirmed
         /\ c.season \in {b.season, "closed"}
         /\ \A e \in Event :
              c.snapshot[e] = IF e \in DOMAIN answer THEN answer[e] ELSE b.snapshot[e]
         /\ c.outbox \in {b.outbox, [b.outbox EXCEPT ![Settlement] = FreshRow]}
<1> DEFINE kept == [e \in Event |-> IF e \in DOMAIN answer THEN answer[e] ELSE b.snapshot[e]]
           k    == Keep(b, answer)
<1>1. answer \in [DOMAIN answer -> 1..MaxVersion] BY PartialIs
<1>2. kept \in [Event -> 0..MaxVersion]
  <2>1. \A e \in Event : e \in DOMAIN answer => answer[e] \in 1..MaxVersion BY <1>1
  <2>2. \A e \in Event : b.snapshot[e] \in 0..MaxVersion BY DEF DbType
  <2>3. \A n \in 1..MaxVersion : n \in 0..MaxVersion BY DelaysAssumption
  <2> QED BY <2>1, <2>2, <2>3
<1>3. k = [b EXCEPT !.snapshot = kept] BY DEF Keep
<1>4. \A e \in Event : kept[e] = IF e \in DOMAIN answer THEN answer[e] ELSE b.snapshot[e] OBVIOUS
<1> HIDE DEF kept
<1>5. /\ k \in DbType /\ k.snapshot = kept
      /\ k.life = b.life /\ k.discovery = b.discovery /\ k.open = b.open /\ k.outbox = b.outbox
      /\ k.canonical = b.canonical /\ k.confirmed = b.confirmed /\ k.season = b.season
  BY <1>2, <1>3 DEF DbType
<1> HIDE DEF k
<1>6. FreshRow \in SentType
  BY DelaysAssumption DEF FreshRow, SentType, Time
<1>7. PICK open \in SUBSET k.open, season \in {k.season, "closed"},
           outbox \in {k.outbox, [k.outbox EXCEPT ![Settlement] = FreshRow]} :
        c = [k EXCEPT !.open = open, !.season = season, !.outbox = outbox]
  <2> DEFINE open   == IF k.season = "active" THEN {e \in k.open : k.snapshot[e] = 0} ELSE k.open
             closes == /\ k.season = "active" /\ k.confirmed
                       /\ k.snapshot[SuperBowl] > 0 /\ open = {}
             season == IF closes THEN "closed" ELSE k.season
             outbox == [k.outbox EXCEPT ![Settlement] =
                          IF open # k.open \/ closes THEN FreshRow ELSE @]
  <2>1. c = [k EXCEPT !.open = open, !.season = season, !.outbox = outbox]
    BY DEF Settle, k, DbType
  <2>2. open \in SUBSET k.open /\ season \in {k.season, "closed"} OBVIOUS
  <2>3. k.outbox \in [Row -> SentType] BY <1>5 DEF DbType
  <2> HIDE DEF open, closes
  <2>4. outbox \in {k.outbox, [k.outbox EXCEPT ![Settlement] = FreshRow]} BY <2>3
  <2> QED BY <2>1, <2>2, <2>4
<1>8. outbox \in [Row -> SentType] BY <1>5, <1>6 DEF DbType
<1>9. c \in DbType
  BY <1>5, <1>7, <1>8 DEF DbType
<1>10. /\ c.life = k.life /\ c.discovery = k.discovery /\ c.open = open /\ c.outbox = outbox
       /\ c.canonical = k.canonical /\ c.confirmed = k.confirmed /\ c.season = season
       /\ c.snapshot = k.snapshot
  BY <1>5, <1>7 DEF DbType
<1> QED BY <1>4, <1>5, <1>7, <1>9, <1>10

LEMMA LaterLook ==
  ASSUME NEW life \in LifeType, NEW errors \in 0..MaxErrors-1, NEW due \in Time
  PROVE  LET next == [life EXCEPT !.errors = errors, !.due = due]
         IN  next \in LifeType /\ next.phase = life.phase /\ next.final = life.final /\ next.due = due
BY DEF LifeType

\* The rows after ApplyResults.
Applied(b, held, answer) ==
  [Settle(Keep(b, answer)) EXCEPT !.life = [e \in Event |->
     CASE e \in DOMAIN answer -> Advance(held[e])
       [] e \in DOMAIN held \ DOMAIN answer ->
            [Settle(Keep(b, answer)).life[e] EXCEPT !.errors = 0, !.due = PollDelay]
       [] OTHER -> Settle(Keep(b, answer)).life[e]]]

LEMMA AdvanceLife ==
  ASSUME NEW life \in LifeType, life.phase \notin {"none", "complete"}
  PROVE  /\ Advance(life) \in LifeType
         /\ life.phase = "open" =>
              /\ Advance(life).phase = "final_15" /\ Advance(life).final = Final24
              /\ Advance(life).due = Final15
         /\ life.phase = "final_15" =>
              Advance(life).phase = "final_24" /\ Advance(life).final = life.final
                /\ Advance(life).due = life.final
         /\ life.phase = "final_24" => Advance(life).phase = "complete" /\ Advance(life).final = life.final
<1>1. CASE life.phase = "open"
  BY <1>1, DelayTimes, DelaysAssumption DEF Advance, LifeType, Phase
<1>2. CASE life.phase = "final_15"
  BY <1>2, DelaysAssumption DEF Advance, LifeType, Phase
<1>3. CASE life.phase = "final_24"
  BY <1>3, DelayTimes DEF Advance, LifeType, Phase
<1> QED BY <1>1, <1>2, <1>3 DEF LifeType, Phase

LEMMA AppliedRows ==
  ASSUME NEW b \in DbType, NEW held \in Partial(Event, LifeType),
         NEW answer \in Partial(Event, 1..MaxVersion), DOMAIN answer \subseteq DOMAIN held,
         \A e \in DOMAIN held : held[e].phase \notin {"none", "complete"},
         NEW c, c = Applied(b, held, answer)
  PROVE  /\ c \in DbType
         /\ c.discovery = b.discovery /\ c.open \subseteq b.open
         /\ c.canonical = b.canonical /\ c.confirmed = b.confirmed
         /\ c.season \in {b.season, "closed"}
         /\ \A e \in Event :
              /\ e \in DOMAIN answer =>
                   c.snapshot[e] = answer[e] /\ c.life[e] = Advance(held[e])
              /\ e \notin DOMAIN answer => c.snapshot[e] = b.snapshot[e]
              /\ e \in DOMAIN held \ DOMAIN answer =>
                   /\ c.life[e].phase = b.life[e].phase /\ c.life[e].final = b.life[e].final
                   /\ c.life[e].due = PollDelay
              /\ e \notin DOMAIN held => c.life[e] = b.life[e]
         /\ c.outbox \in {b.outbox, [b.outbox EXCEPT ![Settlement] = FreshRow]}
<1> DEFINE s == Settle(Keep(b, answer))
           life == [e \in Event |->
                      CASE e \in DOMAIN answer -> Advance(held[e])
                        [] e \in DOMAIN held \ DOMAIN answer ->
                             [s.life[e] EXCEPT !.errors = 0, !.due = PollDelay]
                        [] OTHER -> s.life[e]]
<1>1. c = [s EXCEPT !.life = life] BY DEF Applied
<1> HIDE DEF s
<1>2. /\ s \in DbType
      /\ s.life = b.life /\ s.discovery = b.discovery /\ s.open \subseteq b.open
      /\ s.canonical = b.canonical /\ s.confirmed = b.confirmed
      /\ s.season \in {b.season, "closed"}
      /\ \A e \in Event :
           s.snapshot[e] = IF e \in DOMAIN answer THEN answer[e] ELSE b.snapshot[e]
      /\ s.outbox \in {b.outbox, [b.outbox EXCEPT ![Settlement] = FreshRow]}
  BY SettleKeeps DEF s
<1>3. life \in [Event -> LifeType]
  <2> SUFFICES ASSUME NEW e \in Event PROVE life[e] \in LifeType OBVIOUS
  <2>1. b.life[e] \in LifeType BY DEF DbType
  <2>2. CASE e \in DOMAIN answer
    <3>1. held[e] \in LifeType BY <2>2, PartialIs
    <3> QED BY <2>2, <3>1, AdvanceLife
  <2>3. CASE e \in DOMAIN held \ DOMAIN answer
    <3>1. [b.life[e] EXCEPT !.errors = 0, !.due = PollDelay] \in LifeType
      BY <2>1, LaterLook, DelayTimes
    <3> QED BY <1>2, <2>3, <3>1
  <2>4. CASE e \notin DOMAIN held BY <1>2, <2>1, <2>4
  <2> QED BY <2>2, <2>3, <2>4
<1>4. ASSUME NEW e \in Event
      PROVE  /\ e \in DOMAIN answer => life[e] = Advance(held[e])
             /\ e \in DOMAIN held \ DOMAIN answer =>
                  /\ life[e].phase = b.life[e].phase /\ life[e].final = b.life[e].final
                  /\ life[e].due = PollDelay
             /\ e \notin DOMAIN held => life[e] = b.life[e]
  <2>1. b.life[e] \in LifeType BY DEF DbType
  <2> DEFINE next == [b.life[e] EXCEPT !.errors = 0, !.due = PollDelay]
  <2>2. next.phase = b.life[e].phase /\ next.final = b.life[e].final /\ next.due = PollDelay
    BY <2>1 DEF LifeType
  <2>3. CASE e \in DOMAIN answer BY <2>3
  <2>4. CASE e \in DOMAIN held \ DOMAIN answer
    <3>1. life[e] = next BY <1>2, <2>4
    <3> QED BY <2>2, <2>4, <3>1
  <2>5. CASE e \notin DOMAIN held BY <1>2, <2>5
  <2> QED BY <2>3, <2>4, <2>5
<1> HIDE DEF life
<1>5. c \in DbType /\ c.life = life BY <1>1, <1>2, <1>3 DEF DbType
<1>6. /\ c.discovery = s.discovery /\ c.open = s.open /\ c.outbox = s.outbox
      /\ c.canonical = s.canonical /\ c.confirmed = s.confirmed /\ c.season = s.season
      /\ c.snapshot = s.snapshot
  BY <1>1, <1>2 DEF DbType
<1> QED BY <1>2, <1>4, <1>5, <1>6

\* A failed run moves the next look of what it holds, and nothing else.
LEMMA BackOffRows ==
  ASSUME NEW b \in DbType, NEW held \in Partial(Event, LifeType), NEW c, c = BackOff(b, held)
  PROVE  /\ c \in DbType /\ c = [b EXCEPT !.life = c.life]
         /\ \A e \in Event :
              /\ c.life[e].phase = b.life[e].phase /\ c.life[e].final = b.life[e].final
              /\ IF e \in DOMAIN held THEN c.life[e].due \in {PollDelay, RetryDelay}
                 ELSE c.life[e] = b.life[e]
<1> DEFINE life == [e \in Event |->
             IF e \notin DOMAIN held THEN b.life[e]
             ELSE IF held[e].errors + 1 >= MaxErrors
             THEN [b.life[e] EXCEPT !.errors = 0, !.due = PollDelay]
             ELSE [b.life[e] EXCEPT !.errors = held[e].errors + 1, !.due = RetryDelay]]
<1>1. c = [b EXCEPT !.life = life] BY DEF BackOff
<1>2. ASSUME NEW e \in Event
      PROVE  /\ life[e] \in LifeType
             /\ life[e].phase = b.life[e].phase /\ life[e].final = b.life[e].final
             /\ IF e \in DOMAIN held THEN life[e].due \in {PollDelay, RetryDelay}
                ELSE life[e] = b.life[e]
  <2>1. b.life[e] \in LifeType BY DEF DbType
  <2>2. CASE e \notin DOMAIN held BY <2>1, <2>2
  <2>3. CASE e \in DOMAIN held /\ held[e].errors + 1 >= MaxErrors
    <3> DEFINE next == [b.life[e] EXCEPT !.errors = 0, !.due = PollDelay]
    <3>1. life[e] = next BY <2>3
    <3> HIDE DEF life
    <3>2. PollDelay \in Time /\ 0 \in 0..MaxErrors-1 BY DelayTimes
    <3>3. /\ next \in LifeType /\ next.due = PollDelay
          /\ next.phase = b.life[e].phase /\ next.final = b.life[e].final
      BY <2>1, <3>2 DEF LifeType
    <3> QED BY <2>3, <3>1, <3>3
  <2>4. CASE e \in DOMAIN held /\ ~(held[e].errors + 1 >= MaxErrors)
    <3>1. held[e] \in LifeType BY <2>4, PartialIs
    <3>2. held[e].errors \in 0..MaxErrors-1 BY <3>1 DEF LifeType
    <3>3. held[e].errors + 1 \in 0..MaxErrors-1 BY <2>4, <3>2, DelaysAssumption
    <3> DEFINE next == [b.life[e] EXCEPT !.errors = held[e].errors + 1, !.due = RetryDelay]
    <3>4. life[e] = next BY <2>4
    <3> HIDE DEF life
    <3>5. RetryDelay \in Time BY DelayTimes
    <3>6. /\ next \in LifeType /\ next.due = RetryDelay
          /\ next.phase = b.life[e].phase /\ next.final = b.life[e].final
      BY <2>1, <3>3, <3>5 DEF LifeType
    <3> QED BY <2>4, <3>4, <3>6
  <2> QED BY <2>2, <2>3, <2>4
<1>3. life \in [Event -> LifeType] BY <1>2
<1> HIDE DEF life
<1>4. c \in DbType /\ c.life = life BY <1>1, <1>3 DEF DbType
<1> QED BY <1>1, <1>2, <1>4

-----------------------------------------------------------------------------
(* Types are kept *)

LEMMA InitTypes == Init => Types /\ Holds
<1> SUFFICES ASSUME Init PROVE Types /\ Holds OBVIOUS
<1>1. NoLife \in LifeType /\ NoRow \in SentType
  BY DelayTimes DEF NoLife, LifeType, Phase, NoRow, SentType
<1>2. [errors |-> 0, due |-> 0] \in [errors : 0..MaxErrors-1, due : Time] BY DelayTimes
<1>3. 0 \in 0..MaxVersion BY DelaysAssumption
<1>4. db \in DbType BY <1>1, <1>2, <1>3 DEF Init, DbType
<1>5. \A r \in Run : run[r] = Idle BY DEF Init
<1>6. Types BY <1>3, <1>4, IdleType, DelayTimes DEF Init, Types
<1>7. Holds BY <1>5, NothingHeld DEF Holds, Idle
<1> QED BY <1>6, <1>7

\* A run's record is replaced by one made from the rows as they are now.
LEMMA FreshHolds ==
  ASSUME Types, Holds, NEW r \in Run, NEW x, Fresh(x, db'), db' \in DbType,
         run' = [run EXCEPT ![r] = x]
  PROVE  run' \in [Run -> RunType] /\ Holds'
<1>1. run' \in [Run -> RunType] BY DEF Types, Fresh
<1>2. run'[r] = x /\ \A s \in Run \ {r} : run'[s] = run[s] BY DEF Types
<1>3. DOMAIN x.answer \subseteq DOMAIN x.held /\ x.pc # "idle" BY DEF Fresh
<1>4. \A e \in DOMAIN x.held : x.held[e].phase \notin {"none", "complete"} /\ x.held[e].due = 0
  BY DEF Fresh
<1> QED BY <1>1, <1>2, <1>3, <1>4 DEF Holds

LEMMA CommandTypes ==
  ASSUME Types, Holds, ConfirmSuperBowl \/ \E e \in Event : PlaceWager(e)
  PROVE  Types' /\ Holds'
<1>1. OpenLife \in LifeType /\ FreshRow \in SentType
  BY DelayTimes DEF OpenLife, LifeType, Phase, FreshRow, SentType
<1>2. CASE ConfirmSuperBowl
  <2>1. SuperBowl \in Event /\ Confirmation \in Row BY NamesAssumption DEF Row
  <2>2. db' \in DbType BY <1>1, <1>2, <2>1 DEF ConfirmSuperBowl, Committed, DbType, Types
  <2> QED BY <1>2, <2>2 DEF ConfirmSuperBowl, Committed, Types, Holds
<1>3. ASSUME NEW e \in Event, PlaceWager(e) PROVE Types' /\ Holds'
  <2>1. e \in Row BY DEF Row
  <2>2. db' \in DbType BY <1>1, <1>3, <2>1 DEF PlaceWager, Committed, DbType, Types
  <2> QED BY <1>3, <2>2 DEF PlaceWager, Committed, Types, Holds
<1> QED BY <1>2, <1>3

LEMMA SlotTypes ==
  ASSUME Types, Holds, Arm \/ AlarmFires \/ ServiceSettles \/ Crash
  PROVE  Types' /\ Holds'
<1>1. CASE Arm BY <1>1, DelayTimes DEF Arm, Types, Holds
<1>2. ASSUME NEW r \in Run, run' = [run EXCEPT ![r] = Started(db)], UNCHANGED db
      PROVE  run' \in [Run -> RunType] /\ Holds'
  <2>1. Fresh(Started(db), db') /\ db' \in DbType BY <1>2, StartedIsFresh DEF Types
  <2> QED BY <1>2, <2>1, FreshHolds
<1>3. CASE AlarmFires
  <2>1. "alarm" \in Run BY NamesAssumption
  <2> QED BY <1>2, <1>3, <2>1, DelayTimes DEF AlarmFires, Overlaps, Types
<1>4. CASE ServiceSettles
  BY <1>2, <1>4 DEF ServiceSettles, Overlaps, Types
<1>5. CASE Crash
  <2>1. run' \in [Run -> RunType] /\ \A r \in Run : run'[r] = Idle BY <1>5, IdleType DEF Crash
  <2>2. Holds' BY <2>1, NothingHeld DEF Holds, Idle
  <2> QED BY <1>5, <2>1, <2>2, DelayTimes DEF Crash, Types
<1> QED BY <1>1, <1>3, <1>4, <1>5

LEMMA DiscoveryTypes ==
  ASSUME Types, Holds, NEW r \in Run, DiscoveryAnswers(r) \/ DiscoveryFails(r)
  PROVE  Types' /\ Holds' /\ Fresh(Asking(db'), db')
<1>1. ASSUME NEW b \in DbType, Step(r, b) PROVE Types' /\ Holds' /\ Fresh(Asking(db'), db')
  <2>1. Fresh(Asking(b), b) BY AskingIsFresh
  <2>2. db' = b /\ run' = [run EXCEPT ![r] = Asking(b)] BY <1>1 DEF Step
  <2>3. run' \in [Run -> RunType] /\ Holds' BY <2>1, <2>2, FreshHolds
  <2> QED BY <1>1, <2>1, <2>2, <2>3 DEF Step, Types
<1>2. CASE DiscoveryAnswers(r)
  <2> DEFINE found == announced /\ feed[SuperBowl] = 0
             b == [db EXCEPT !.canonical = @ \/ found,
                     !.discovery = [errors |-> 0, due |-> IF found THEN Never ELSE DiscoveryDelay]]
  <2>1. b \in DbType BY DelayTimes DEF Types, DbType
  <2> QED BY <1>1, <1>2, <2>1 DEF DiscoveryAnswers
<1>3. CASE DiscoveryFails(r)
  <2> DEFINE errors == run[r].errors + 1
             d == IF errors >= MaxErrors THEN [errors |-> 0, due |-> DiscoveryDelay]
                  ELSE [errors |-> errors, due |-> RetryDelay]
  <2>1. run[r].errors \in 0..MaxErrors-1 BY DEF Types, RunType
  <2>2. d \in [errors : 0..MaxErrors-1, due : Time] BY <2>1, DelayTimes, DelaysAssumption
  <2> HIDE DEF d
  <2>3. [db EXCEPT !.discovery = d] \in DbType BY <2>2 DEF Types, DbType
  <2> QED BY <1>1, <1>3, <2>3 DEF DiscoveryFails, d
<1> QED BY <1>2, <1>3

LEMMA QueryTypes ==
  ASSUME Types, Holds, NEW r \in Run, QueryResults(r)
  PROVE  Types' /\ Holds'
<1> DEFINE S == {d \in DOMAIN run[r].held : feed[d] > 0}
           answer == [e \in S |-> feed[e]]
<1>1. run[r] \in RunType BY DEF Types
<1>2. DOMAIN run[r].held \subseteq Event BY <1>1, PartialIs DEF RunType
<1>3. answer \in Partial(Event, 1..MaxVersion)
  <2>1. \A e \in S : feed[e] \in 1..MaxVersion BY <1>2, DelaysAssumption DEF Types
  <2>2. answer \in [S -> 1..MaxVersion] BY <2>1
  <2> QED BY <1>2, <2>2 DEF Partial
<1>4. DOMAIN answer \subseteq DOMAIN run[r].held OBVIOUS
<1>5. run' = [run EXCEPT ![r].pc = "answered", ![r].answer = answer] BY DEF QueryResults
<1> HIDE DEF answer
<1> DEFINE x == [run[r] EXCEPT !.pc = "answered", !.answer = answer]
<1>6. x \in RunType /\ x.pc = "answered" /\ x.answer = answer /\ x.held = run[r].held
  BY <1>1, <1>3 DEF RunType
<1>7. run' = [run EXCEPT ![r] = x] BY <1>5 DEF Types
<1> HIDE DEF x
<1>8. run' \in [Run -> RunType] /\ run'[r] = x /\ \A s \in Run \ {r} : run'[s] = run[s]
  BY <1>6, <1>7 DEF Types
<1>9. Holds' BY <1>4, <1>6, <1>8 DEF Holds
<1> QED BY <1>8, <1>9 DEF QueryResults, Types

\* What ApplyResults and RunFails do, in terms of the run that does it.
LEMMA ApplyIs ==
  ASSUME Types, Holds, NEW r \in Run, ApplyResults(r)
  PROVE  /\ db' = Applied(db, run[r].held, run[r].answer)
         /\ run' = [run EXCEPT ![r] = Draining(db')]
         /\ run[r].held \in Partial(Event, LifeType)
         /\ run[r].answer \in Partial(Event, 1..MaxVersion)
         /\ DOMAIN run[r].answer \subseteq DOMAIN run[r].held
         /\ DOMAIN run[r].held \subseteq Event
         /\ \A e \in DOMAIN run[r].held : run[r].held[e].phase \notin {"none", "complete"}
         /\ run[r].pc = "answered"
         /\ UNCHANGED <<alarm, arming, interrupted, feed, announced, stale>>
<1>1. run[r] \in RunType BY DEF Types
<1>2. run[r].held \in Partial(Event, LifeType) /\ run[r].answer \in Partial(Event, 1..MaxVersion)
  BY <1>1 DEF RunType
<1>3. DOMAIN run[r].held \subseteq Event BY <1>2, PartialIs
<1>4. db' = Applied(db, run[r].held, run[r].answer) BY DEF ApplyResults, Applied
<1>5. run' = [run EXCEPT ![r] = Draining(db')] BY DEF ApplyResults
<1> QED BY <1>2, <1>3, <1>4, <1>5 DEF ApplyResults, Holds

LEMMA FailIs ==
  ASSUME Types, NEW r \in Run, RunFails(r)
  PROVE  /\ db' = BackOff(db, run[r].held)
         /\ run' = [run EXCEPT ![r] = Draining(db')]
         /\ run[r].held \in Partial(Event, LifeType)
         /\ DOMAIN run[r].held \subseteq Event
         /\ UNCHANGED <<alarm, arming, interrupted, feed, announced>>
         /\ stale' = stale \cup {e \in DOMAIN run[r].held : run[r].held[e].phase # db.life[e].phase}
<1>1. run[r].held \in Partial(Event, LifeType) BY DEF Types, RunType
<1> QED BY <1>1, PartialIs DEF RunFails

LEMMA AnswerTypes ==
  ASSUME Types, Holds, NEW r \in Run, ApplyResults(r) \/ RunFails(r)
  PROVE  Types' /\ Holds' /\ Fresh(Draining(db'), db')
<1>1. ASSUME db' \in DbType, run' = [run EXCEPT ![r] = Draining(db')],
             UNCHANGED <<alarm, arming, interrupted, feed, announced>>, stale' \subseteq Event
      PROVE  Types' /\ Holds' /\ Fresh(Draining(db'), db')
  <2>1. Fresh(Draining(db'), db') BY <1>1, DrainingIsFresh
  <2> QED BY <1>1, <2>1, FreshHolds DEF Types
<1>2. stale \subseteq Event BY DEF Types
<1>3. CASE ApplyResults(r)
  <2> DEFINE held == run[r].held answer == run[r].answer
  <2>1. /\ db' = Applied(db, held, answer) /\ held \in Partial(Event, LifeType)
        /\ answer \in Partial(Event, 1..MaxVersion) /\ DOMAIN answer \subseteq DOMAIN held
        /\ \A e \in DOMAIN held : held[e].phase \notin {"none", "complete"}
    BY <1>3, ApplyIs
  <2>2. db \in DbType BY DEF Types
  <2> HIDE DEF held, answer
  <2>3. db' \in DbType BY <2>1, <2>2, AppliedRows
  <2> QED BY <1>1, <1>2, <1>3, <2>3, ApplyIs
<1>4. CASE RunFails(r)
  <2>1. db' \in DbType BY <1>4, FailIs, BackOffRows DEF Types
  <2> QED BY <1>1, <1>2, <1>4, <2>1, FailIs
<1> QED BY <1>3, <1>4

\* What a send does: the run is done with one of its rows.
LEMMA SendIs ==
  ASSUME Types, Holds, NEW r \in Run, NEW row \in Row, SendSucceeds(r, row) \/ SendFails(r, row)
  PROVE  /\ run[r].pc = "draining" /\ row \in DOMAIN run[r].rows
         /\ \E value \in SentType :
              db' = IF db.outbox[row].due = Never THEN db ELSE [db EXCEPT !.outbox[row] = value]
         /\ \E x \in RunType :
              /\ run' = [run EXCEPT ![r] = x]
              /\ x = [run[r] EXCEPT !.rows = x.rows]
              /\ DOMAIN x.rows = DOMAIN run[r].rows \ {row}
         /\ UNCHANGED <<alarm, arming, interrupted, feed, announced, stale>>
<1>1. NoRow \in SentType BY DelayTimes DEF NoRow, SentType
<1>2. PICK value \in SentType : Sent(r, row, value)
  <2>1. CASE SendSucceeds(r, row) BY <1>1, <2>1 DEF SendSucceeds
  <2>2. CASE SendFails(r, row)
    <3> DEFINE attempts == run[r].rows[row] + 1
    <3>1. row \in DOMAIN run[r].rows BY <2>2 DEF SendFails, Sent
    <3>2. run[r].rows \in [DOMAIN run[r].rows -> 0..MaxAttempts-1]
      <4>1. run[r].rows \in Partial(Row, 0..MaxAttempts-1) BY DEF Types, RunType
      <4> QED BY <4>1, PartialIs
    <3>3. run[r].rows[row] \in 0..MaxAttempts-1 BY <3>1, <3>2
    <3>4. CASE attempts >= MaxAttempts BY <1>1, <2>2, <3>4 DEF SendFails
    <3>5. CASE ~(attempts >= MaxAttempts)
      <4>1. attempts \in 0..MaxAttempts-1 BY <3>3, <3>5, DelaysAssumption
      <4>2. [attempts |-> attempts, due |-> SendDelay] \in SentType
        BY <4>1, DelayTimes DEF SentType
      <4> QED BY <2>2, <3>5, <4>2 DEF SendFails
    <3> QED BY <3>4, <3>5
  <2> QED BY <2>1, <2>2
<1> DEFINE rows == [q \in DOMAIN run[r].rows \ {row} |-> run[r].rows[q]]
           x == [run[r] EXCEPT !.rows = rows]
<1>3. run[r] \in RunType BY DEF Types
<1>4. rows \in Partial(Row, 0..MaxAttempts-1)
  <2>1. /\ DOMAIN run[r].rows \subseteq Row
        /\ run[r].rows \in [DOMAIN run[r].rows -> 0..MaxAttempts-1]
    BY <1>3, PartialIs DEF RunType
  <2>2. rows \in [DOMAIN run[r].rows \ {row} -> 0..MaxAttempts-1] BY <2>1
  <2> QED BY <2>1, <2>2 DEF Partial
<1>5. run' = [run EXCEPT ![r].rows = rows] BY <1>2 DEF Sent
<1>6. DOMAIN rows = DOMAIN run[r].rows \ {row} OBVIOUS
<1> HIDE DEF rows
<1>7. x \in RunType /\ x.rows = rows BY <1>3, <1>4 DEF RunType
<1>8. run' = [run EXCEPT ![r] = x] BY <1>5 DEF Types
<1>9. /\ run[r].pc = "draining" /\ row \in DOMAIN run[r].rows
      /\ db' = IF db.outbox[row].due = Never THEN db ELSE [db EXCEPT !.outbox[row] = value]
      /\ UNCHANGED <<alarm, arming, interrupted, feed, announced, stale>>
  BY <1>2 DEF Sent
<1> HIDE DEF x
<1>10. x = [run[r] EXCEPT !.rows = x.rows] BY <1>7 DEF x
<1> QED BY <1>6, <1>7, <1>8, <1>9, <1>10

LEMMA SendTypes ==
  ASSUME Types, Holds, NEW r \in Run, NEW row \in Row, SendSucceeds(r, row) \/ SendFails(r, row)
  PROVE  Types' /\ Holds'
<1>1. db' \in DbType BY SendIs DEF Types, DbType
<1>2. PICK x \in RunType : run' = [run EXCEPT ![r] = x] /\ x = [run[r] EXCEPT !.rows = x.rows]
  BY SendIs
<1>3. run' \in [Run -> RunType] /\ run'[r] = x /\ \A s \in Run \ {r} : run'[s] = run[s]
  BY <1>2 DEF Types
<1>4. x.pc = "draining" /\ x.held = run[r].held /\ x.answer = run[r].answer
  BY <1>2, SendIs DEF Types, RunType
<1>5. Holds' BY <1>3, <1>4 DEF Holds
<1> QED BY <1>1, <1>3, <1>5, SendIs DEF Types

LEMMA FinishTypes ==
  ASSUME Types, Holds, NEW r \in Run, Finish(r)
  PROVE  Types' /\ Holds'
<1>1. run' = [run EXCEPT ![r] = Idle] BY DEF Finish
<1>2. run' \in [Run -> RunType] BY <1>1, IdleType DEF Types
<1>3. Holds' BY <1>1, NothingHeld DEF Holds, Idle, Types
<1>4. NextAlarm(run[r].deadline, db) \in Time
  <2>1. run[r].deadline \in Time BY DEF Types, RunType
  <2>2. NextOutboxAttempt(db) \in Time BY DeadlinesAreEarly DEF Types
  <2> QED BY <2>1, <2>2, SoonestIsEarly DEF NextAlarm
<1> QED BY <1>2, <1>3, <1>4 DEF Finish, Types

\* Time passes for every timer alike.
LEMMA LaterTime ==
  ASSUME NEW t \in Time
  PROVE  /\ Later(t) \in Time
         /\ Later(t) = Never <=> t = Never
         /\ t = 0 => Later(t) = 0
         /\ \A u \in Time : t <= u => Later(t) <= Later(u)
BY DEF Later, Time, Never

LEMMA TickIs ==
  ASSUME Types, Tick
  PROVE  /\ db' \in DbType
         /\ db' = [db EXCEPT !.life = db'.life, !.discovery = db'.discovery, !.outbox = db'.outbox]
         /\ \A e \in Event : /\ db'.life[e].phase = db.life[e].phase
                             /\ db'.life[e].due = Later(db.life[e].due)
                             /\ db'.life[e].final = Later(db.life[e].final)
         /\ db'.discovery.due = Later(db.discovery.due)
         /\ \A row \in Row : db'.outbox[row].due = Later(db.outbox[row].due)
         /\ ~arming /\ \A r \in Run : run[r] = Idle
         /\ alarm' = Later(alarm) /\ alarm' \in Time
<1> DEFINE life == [e \in Event |-> [db.life[e] EXCEPT !.due = Later(@), !.final = Later(@)]]
           discovery == [db.discovery EXCEPT !.due = Later(@)]
           outbox == [r \in Row |-> [db.outbox[r] EXCEPT !.due = Later(@)]]
<1>1. /\ db \in DbType /\ db.life \in [Event -> LifeType] /\ db.outbox \in [Row -> SentType]
      /\ db.discovery \in [errors : 0..MaxErrors-1, due : Time]
  BY DEF Types, DbType
<1>2. ASSUME NEW e \in Event
      PROVE  /\ life[e] \in LifeType /\ life[e].phase = db.life[e].phase
             /\ life[e].due = Later(db.life[e].due) /\ life[e].final = Later(db.life[e].final)
  <2>1. db.life[e] \in LifeType BY <1>1
  <2>2. Later(db.life[e].due) \in Time /\ Later(db.life[e].final) \in Time
    BY <2>1, LaterTime DEF LifeType
  <2> QED BY <2>1, <2>2 DEF LifeType
<1>3. discovery \in [errors : 0..MaxErrors-1, due : Time] /\ discovery.due = Later(db.discovery.due)
  BY <1>1, LaterTime
<1>4. ASSUME NEW r \in Row
      PROVE  outbox[r] \in SentType /\ outbox[r].due = Later(db.outbox[r].due)
  <2>1. db.outbox[r] \in SentType BY <1>1
  <2>2. Later(db.outbox[r].due) \in Time BY <2>1, LaterTime DEF SentType
  <2> QED BY <2>1, <2>2 DEF SentType
<1>5. db' = [db EXCEPT !.life = life, !.discovery = discovery, !.outbox = outbox]
  BY <1>1, Zenon DEF Tick
<1>6. life \in [Event -> LifeType] /\ outbox \in [Row -> SentType] BY <1>2, <1>4
<1> HIDE DEF life, discovery, outbox
<1>7. /\ db' \in DbType /\ db'.life = life /\ db'.discovery = discovery /\ db'.outbox = outbox
  BY <1>1, <1>3, <1>5, <1>6 DEF DbType
<1>8. alarm' \in Time BY LaterTime DEF Tick, Types
<1> QED BY <1>2, <1>3, <1>4, <1>5, <1>7, <1>8 DEF Tick

LEMMA WorldTypes ==
  ASSUME Types, Holds, Tick \/ Announce \/ \E e \in Event : Publish(e)
  PROVE  Types' /\ Holds'
<1>1. CASE Tick BY <1>1, TickIs DEF Tick, Types, Holds
<1>2. CASE Announce BY <1>2 DEF Announce, Types, Holds
<1>3. ASSUME NEW e \in Event, Publish(e) PROVE Types' /\ Holds'
  BY <1>3, DelaysAssumption DEF Publish, Types, Holds
<1> QED BY <1>1, <1>2, <1>3

LEMMA TypesStep == Types /\ Holds /\ [Next]_vars => Types' /\ Holds'
<1> SUFFICES ASSUME Types, Holds, [Next]_vars PROVE Types' /\ Holds' OBVIOUS
<1>1. CASE UNCHANGED vars BY <1>1 DEF vars, Types, Holds
<1>2. ASSUME NEW r \in Run, RunStep(r) PROVE Types' /\ Holds'
  BY <1>2, DiscoveryTypes, QueryTypes, AnswerTypes, SendTypes, FinishTypes DEF RunStep
<1> QED BY <1>1, <1>2, CommandTypes, SlotTypes, WorldTypes DEF Next

LEMMA TypesAlways == Spec => [](Types /\ Holds)
<1> QED BY InitTypes, TypesStep, PTL DEF Spec

\* Rows and runs are of their types, and no retry counter reaches its limit
\* (alarm.ts:75-79, outbox.ts).
THEOREM TypeCorrect == Spec => []TypeOK
<1>1. Types /\ Holds => TypeOK
  <2> SUFFICES ASSUME Types, Holds PROVE TypeOK OBVIOUS
  <2>1. /\ db \in DbType /\ db.life \in [Event -> LifeType]
        /\ db.outbox \in [Row -> [attempts : 0..MaxAttempts-1, due : Time]]
        /\ db.discovery \in [errors : 0..MaxErrors-1, due : Time]
    BY DEF Types, DbType, SentType
  <2>2. LifeType \subseteq Life /\ \A e \in Event : db.life[e].errors < MaxErrors
    BY <2>1, DelaysAssumption DEF LifeType, Life, Phase
  <2>3. db.life \in [Event -> Life] BY <2>1, <2>2
  <2>4. \A r \in Run : run[r] \in RunType BY DEF Types
  <2> QED BY <2>1, <2>2, <2>3, <2>4 DEF TypeOK, Types, Holds, DbType, RunType
<1> QED BY <1>1, TypesAlways, PTL
-----------------------------------------------------------------------------
(* The alarm is kept: the inductive invariant *)

Set(times) == \E t \in times : t # Never

\* A lifecycle is ahead of its last look by as much as it should be, unless two
\* runs held it and the later to write had failed.
Kept ==
  \A e \in Event :
    /\ e \in db.open => db.life[e].phase # "none"
    /\ db.life[e].phase \in {"final_15", "final_24", "complete"} => db.snapshot[e] > 0
    /\ e \notin stale =>
         /\ db.life[e].phase = "final_15" => db.life[e].final # Never
         /\ db.life[e].phase = "final_24" =>
              /\ db.life[e].final # Never /\ db.life[e].due # Never
              /\ db.life[e].final <= db.life[e].due
         /\ db.life[e].phase = "complete" => db.life[e].final = 0

Seen == {"final_15", "final_24", "complete"}

\* What a run holds of an event, h, and what became of it since, l: the first look may
\* have been taken by another run, whose next look is then ahead; later looks may have
\* been taken too, and the time of the last one stays.
Fits(h, l) ==
  /\ h.phase = "open" => l.phase = "open" \/ (l.phase = "final_15" /\ l.final # Never /\ l.due # 0)
  /\ h.phase # "open" => l.phase \in Seen /\ l.final = h.final

\* An answer is about a published result, and only of an event that was not seen to end
\* before can there be none; a last look is taken in time.
RunFits(x, life, f, old) ==
  /\ \A e \in DOMAIN x.answer : f[e] > 0
  /\ x.pc = "answered" => \A e \in DOMAIN x.held \ DOMAIN x.answer : x.held[e].phase = "open"
  /\ \A e \in DOMAIN x.held :
       /\ Fits(x.held[e], life[e])
       /\ x.held[e].phase = "final_24" /\ e \notin old => x.held[e].final = 0

\* Two runs that hold an event agree on whether its first look is still to come.
Agree(x, y) ==
  \A e \in DOMAIN x.held \cap DOMAIN y.held : x.held[e].phase = "open" <=> y.held[e].phase = "open"

Published(life, f) == \A e \in Event : life[e].phase \in Seen => f[e] > 0

Taken ==
  /\ Published(db.life, feed)
  /\ \A r \in Run : RunFits(run[r], db.life, feed, stale)
  /\ \A r, s \in Run : Agree(run[r], run[s])

\* No run is about to send the row of a command that is still to come.
Untouched(row) == db.outbox[row].due = Never /\ \A r \in Run : row \notin DOMAIN run[r].rows

Unwritten ==
  /\ \A e \in Event : db.life[e].phase = "none" => Untouched(e)
  /\ ~db.confirmed => Untouched(Confirmation)

\* While no runs overlap one runs at a time, and the alarm is not set while its own
\* run is on its way except by a command.
Lone ==
  "overlap" \notin interrupted =>
    /\ \A r, s \in Run : r # s => run[r] = Idle \/ run[s] = Idle
    /\ run["alarm"] # Idle => alarm \in {Never, 0}

\* The deadline a run took before it began to send is still early enough, or a command
\* has committed since, whose row the run will find pending when it sets the alarm.
HasRead(r) ==
  \/ Early(run[r].deadline, Waiting(db))
  \/ \E row \in Pending(db) \ DOMAIN run[r].rows : db.outbox[row].due = 0

Covered ==
  "overlap" \notin interrupted => \A r \in Run : run[r].pc = "draining" => HasRead(r)

\* When something waits, somebody is going to set the alarm, or it is set.
Attends(r) ==
  \/ run[r].pc \in {"discovering", "asking", "answered"}
  \/ run[r].pc = "draining" /\ run[r].deadline # Never

Attended ==
  Set(Waiting(db)) /\ ("crash" \notin interrupted \/ \E r \in Run : run[r] # Idle)
    => arming \/ alarm # Never \/ \E r \in Run : Attends(r)

RowsAttended == "crash" \notin interrupted /\ Pending(db) # {} /\ Quiet => alarm # Never

AtRest == Quiet /\ interrupted = {} => Early(alarm, Waiting(db) \cup Unsent(db))

SlotInvariant == Unwritten /\ Lone /\ Covered /\ AtRest /\ Attended /\ RowsAttended
LEMMA KeptSame ==
  ASSUME Kept, db'.life = db.life, db'.open \subseteq db.open, db'.snapshot = db.snapshot,
         stale' = stale
  PROVE  Kept'
BY DEF Kept

LEMMA CommandKeeps ==
  ASSUME Types, Kept, ConfirmSuperBowl \/ \E e \in Event : PlaceWager(e)
  PROVE  Kept'
<1>1. ASSUME NEW e \in Event, stale' = stale, db'.snapshot = db.snapshot,
             db'.open \subseteq db.open \cup {e},
             db'.life = [db.life EXCEPT ![e] = IF @.phase = "none" THEN OpenLife ELSE @]
      PROVE  Kept'
  <2>1. \A f \in Event : f # e => db'.life[f] = db.life[f] BY <1>1 DEF Types, DbType
  <2>2. db'.life[e] = IF db.life[e].phase = "none" THEN OpenLife ELSE db.life[e]
    BY <1>1 DEF Types, DbType
  <2> QED BY <1>1, <2>1, <2>2 DEF Kept, OpenLife
<1>2. CASE ConfirmSuperBowl
  <2>1. SuperBowl \in Event BY NamesAssumption
  <2> QED BY <1>1, <1>2, <2>1 DEF ConfirmSuperBowl, Committed, Types, DbType
<1>3. ASSUME NEW e \in Event, PlaceWager(e) PROVE Kept'
  BY <1>1, <1>3 DEF PlaceWager, Committed, Types, DbType
<1> QED BY <1>2, <1>3

LEMMA AnswerKeeps ==
  ASSUME Types, Holds, Kept, Taken, NEW r \in Run, ApplyResults(r)
  PROVE  Kept'
<1> DEFINE held == run[r].held answer == run[r].answer
<1>1. /\ db' = Applied(db, held, answer)
      /\ held \in Partial(Event, LifeType) /\ answer \in Partial(Event, 1..MaxVersion)
      /\ DOMAIN answer \subseteq DOMAIN held /\ DOMAIN held \subseteq Event
      /\ \A e \in DOMAIN held : held[e].phase \notin {"none", "complete"} /\ held[e].due = 0
      /\ stale' = stale
      /\ \A e \in DOMAIN held \ DOMAIN answer : held[e].phase = "open"
      /\ \A e \in DOMAIN held :
           /\ Fits(held[e], db.life[e])
           /\ held[e].phase = "final_24" /\ e \notin stale => held[e].final = 0
  BY ApplyIs DEF Holds, Taken, RunFits
<1> HIDE DEF held, answer
<1>2. db \in DbType /\ db.life \in [Event -> LifeType] BY DEF Types, DbType
<1>3. /\ db'.open \subseteq db.open
      /\ \A e \in Event :
           /\ e \in DOMAIN answer =>
                db'.snapshot[e] = answer[e] /\ db'.life[e] = Advance(held[e])
           /\ e \notin DOMAIN answer => db'.snapshot[e] = db.snapshot[e]
           /\ e \in DOMAIN held \ DOMAIN answer =>
                /\ db'.life[e].phase = db.life[e].phase /\ db'.life[e].final = db.life[e].final
                /\ db'.life[e].due = PollDelay
           /\ e \notin DOMAIN held => db'.life[e] = db.life[e]
  BY <1>1, <1>2, AppliedRows
<1> SUFFICES ASSUME NEW e \in Event
             PROVE  /\ e \in db'.open => db'.life[e].phase # "none"
                    /\ db'.life[e].phase \in {"final_15", "final_24", "complete"} => db'.snapshot[e] > 0
                    /\ e \notin stale' =>
                         /\ db'.life[e].phase = "final_15" => db'.life[e].final # Never
                         /\ db'.life[e].phase = "final_24" =>
                              /\ db'.life[e].final # Never /\ db'.life[e].due # Never
                              /\ db'.life[e].final <= db'.life[e].due
                         /\ db'.life[e].phase = "complete" => db'.life[e].final = 0
  BY DEF Kept
<1>4. db.life[e] \in LifeType BY <1>2
<1>5. CASE e \in DOMAIN answer
  <2>1. held[e] \in LifeType /\ held[e].phase \notin {"none", "complete"} /\ held[e].due = 0
    BY <1>1, <1>5, PartialIs
  <2>2. answer[e] > 0
    <3>1. answer \in [DOMAIN answer -> 1..MaxVersion] BY <1>1, PartialIs
    <3>2. answer[e] \in 1..MaxVersion BY <1>5, <3>1
    <3> QED BY <3>2, DelaysAssumption
  <2>3. db'.life[e] = Advance(held[e]) /\ db'.snapshot[e] = answer[e] BY <1>3, <1>5
  <2>4. /\ Fits(held[e], db.life[e])
        /\ held[e].phase = "final_24" /\ e \notin stale => held[e].final = 0
    BY <1>1, <1>5
  <2>5. Advance(held[e]).phase # "none" BY <2>1, AdvanceLife DEF LifeType, Phase
  <2>6. CASE held[e].phase = "open"
    <3>1. Advance(held[e]).phase = "final_15" /\ Advance(held[e]).final = Final24
      BY <2>1, <2>6, AdvanceLife
    <3> QED BY <2>2, <2>3, <3>1, DelayTimes DEF Never
  <2>7. CASE held[e].phase = "final_15"
    <3>1. /\ Advance(held[e]).phase = "final_24" /\ Advance(held[e]).final = held[e].final
          /\ Advance(held[e]).due = held[e].final
      BY <2>1, <2>7, AdvanceLife
    <3>2. e \notin stale' => held[e].final # Never
      BY <1>1, <2>4, <2>7 DEF Kept, Fits, Seen, Never
    <3>3. held[e].final \in Time BY <2>1 DEF LifeType
    <3> QED BY <2>2, <2>3, <3>1, <3>2, <3>3 DEF Time, Never
  <2>8. CASE held[e].phase = "final_24"
    <3>1. Advance(held[e]).phase = "complete" /\ Advance(held[e]).final = held[e].final
      BY <2>1, <2>8, AdvanceLife
    <3> QED BY <1>1, <2>2, <2>3, <2>4, <2>8, <3>1
  <2> QED BY <2>1, <2>6, <2>7, <2>8 DEF LifeType, Phase
<1>6. CASE e \in DOMAIN held \ DOMAIN answer
  <2>1. db'.open \subseteq db.open BY <1>3
  <2>2. /\ db'.life[e].phase = db.life[e].phase /\ db'.life[e].final = db.life[e].final
        /\ db'.life[e].due = PollDelay
    BY <1>3, <1>6
  <2>3. db'.snapshot[e] = db.snapshot[e] BY <1>3, <1>6
  <2>4. db.life[e].phase = "open" \/ (db.life[e].phase = "final_15" /\ db.life[e].final # Never)
    BY <1>1, <1>6 DEF Fits
  <2>5. db.life[e].phase \in {"final_15", "final_24", "complete"} => db.snapshot[e] > 0 BY DEF Kept
  <2> QED BY <2>1, <2>2, <2>3, <2>4, <2>5
<1>7. CASE e \notin DOMAIN held
  <2>1. db'.life[e] = db.life[e] /\ db'.snapshot[e] = db.snapshot[e] BY <1>1, <1>3, <1>7
  <2> QED BY <1>1, <1>3, <2>1 DEF Kept
<1> QED BY <1>5, <1>6, <1>7

LEMMA FailKeeps ==
  ASSUME Types, Holds, Kept, Taken, NEW r \in Run, RunFails(r)
  PROVE  Kept'
<1> DEFINE held == run[r].held
<1>1. /\ db' = BackOff(db, held) /\ held \in Partial(Event, LifeType)
      /\ \A e \in DOMAIN held : held[e].phase \notin {"none", "complete"} /\ held[e].due = 0
      /\ stale' = stale \cup {e \in DOMAIN held : held[e].phase # db.life[e].phase}
      /\ \A e \in DOMAIN held :
           /\ Fits(held[e], db.life[e])
           /\ held[e].phase = "final_24" /\ e \notin stale => held[e].final = 0
  BY FailIs DEF Holds, Taken, RunFits
<1> HIDE DEF held
<1>2. db \in DbType /\ db.life \in [Event -> LifeType] BY DEF Types, DbType
<1>3. /\ db' = [db EXCEPT !.life = db'.life] /\ db' \in DbType
      /\ \A e \in Event :
           /\ db'.life[e].phase = db.life[e].phase /\ db'.life[e].final = db.life[e].final
           /\ IF e \in DOMAIN held THEN db'.life[e].due \in {PollDelay, RetryDelay}
              ELSE db'.life[e] = db.life[e]
  BY <1>1, <1>2, BackOffRows
<1>4. db'.open = db.open /\ db'.snapshot = db.snapshot BY <1>2, <1>3 DEF DbType
<1>5. ASSUME NEW e \in Event, e \notin stale', db.life[e].phase = "final_24"
      PROVE  db'.life[e].due # Never /\ db.life[e].final <= db'.life[e].due
  <2>1. db.life[e].final \in Time /\ db.life[e].final # Never /\ db.life[e].final <= db.life[e].due
        /\ db.life[e].due # Never
    BY <1>1, <1>2, <1>5 DEF Kept, LifeType
  <2>2. CASE e \in DOMAIN held
    <3>1. db.life[e].final = 0 BY <1>1, <1>5, <2>2 DEF Fits
    <3> QED BY <1>3, <2>1, <2>2, <3>1, DelayTimes DEF Time, Never
  <2> QED BY <1>3, <2>1, <2>2
<1> QED BY <1>1, <1>3, <1>4, <1>5 DEF Kept

LEMMA TickKeeps ==
  ASSUME Types, Kept, Tick
  PROVE  Kept'
<1>1. /\ \A e \in Event : /\ db'.life[e].phase = db.life[e].phase
                          /\ db'.life[e].due = Later(db.life[e].due)
                          /\ db'.life[e].final = Later(db.life[e].final)
      /\ db' = [db EXCEPT !.life = db'.life, !.discovery = db'.discovery, !.outbox = db'.outbox]
  BY TickIs
<1>2. db'.open = db.open /\ db'.snapshot = db.snapshot BY <1>1 DEF Types, DbType
<1>3. stale' = stale BY DEF Tick
<1>4. ASSUME NEW e \in Event
      PROVE  /\ db.life[e].final # Never => db'.life[e].final # Never
             /\ db.life[e].due # Never => db'.life[e].due # Never
             /\ db.life[e].final <= db.life[e].due => db'.life[e].final <= db'.life[e].due
             /\ db.life[e].final = 0 => db'.life[e].final = 0
  <2>1. db.life[e].due \in Time /\ db.life[e].final \in Time BY DEF Types, DbType, LifeType
  <2> QED BY <1>1, <2>1, LaterTime
<1> QED BY <1>1, <1>2, <1>3, <1>4 DEF Kept

LEMMA KeptStep == Types /\ Holds /\ Kept /\ Taken /\ [Next]_vars => Kept'
<1> SUFFICES ASSUME Types, Holds, Kept, Taken, [Next]_vars PROVE Kept' OBVIOUS
<1>1. CASE UNCHANGED <<db, stale>> BY <1>1, KeptSame
<1>2. ASSUME NEW r \in Run, RunStep(r) PROVE Kept'
  <2>1. CASE DiscoveryAnswers(r) \/ DiscoveryFails(r)
    BY <2>1, KeptSame DEF DiscoveryAnswers, DiscoveryFails, Step, Types, DbType
  <2>2. ASSUME NEW row \in Row, SendSucceeds(r, row) \/ SendFails(r, row) PROVE Kept'
    BY <2>2, SendIs, KeptSame DEF Types, DbType
  <2>3. CASE QueryResults(r) \/ Finish(r) BY <1>1, <2>3 DEF QueryResults, Finish
  <2> QED BY <1>2, <2>1, <2>2, <2>3, AnswerKeeps, FailKeeps DEF RunStep
<1>3. CASE UNCHANGED vars BY <1>1, <1>3 DEF vars
<1>4. CASE Arm \/ AlarmFires \/ ServiceSettles \/ Crash \/ Announce \/ \E e \in Event : Publish(e)
  BY <1>1, <1>4 DEF Arm, AlarmFires, ServiceSettles, Crash, Announce, Publish
<1> QED BY <1>2, <1>3, <1>4, CommandKeeps, TickKeeps DEF Next

-----------------------------------------------------------------------------
(* What runs hold of the events, while others move them on *)

\* A run that has just read the rows fits them, and agrees with every run that does.
LEMMA FreshFits ==
  ASSUME Types', Kept', NEW x, Fresh(x, db')
  PROVE  /\ RunFits(x, db'.life, feed', stale')
         /\ \A y : RunFits(y, db'.life, feed', stale') => Agree(x, y) /\ Agree(y, x)
<1>1. /\ x.pc # "answered" /\ DOMAIN x.answer = {} /\ DOMAIN x.held \subseteq Event
      /\ \A e \in DOMAIN x.held : /\ x.held[e] = db'.life[e] /\ x.held[e] \in LifeType
                                   /\ x.held[e].phase \notin {"none", "complete"}
                                   /\ x.held[e].due = 0
  BY PartialIs DEF Fresh, RunType, Types, DbType
<1>2. ASSUME NEW e \in DOMAIN x.held
      PROVE  /\ x.held[e].phase \in {"open", "final_15", "final_24"}
             /\ x.held[e].phase = "final_24" /\ e \notin stale' => x.held[e].final = 0
  <2>1. x.held[e].phase \in {"open", "final_15", "final_24"} BY <1>1 DEF LifeType, Phase
  <2>2. x.held[e].final \in Time BY <1>1 DEF LifeType
  <2> QED BY <1>1, <2>1, <2>2 DEF Kept, Time, Never
<1>3. RunFits(x, db'.life, feed', stale') BY <1>1, <1>2 DEF RunFits, Fits, Seen
<1>4. ASSUME NEW y, RunFits(y, db'.life, feed', stale') PROVE Agree(x, y) /\ Agree(y, x)
  BY <1>1, <1>2, <1>4 DEF Agree, RunFits, Fits, Seen
<1> QED BY <1>3, <1>4

\* A run's record is replaced by one made from the rows as they are now, and the other
\* runs fit those rows.
LEMMA ReplacedTaken ==
  ASSUME Types, Types', Kept', Taken, NEW r \in Run, NEW x, Fresh(x, db'),
         run' = [run EXCEPT ![r] = x], Published(db'.life, feed'),
         \A s \in Run \ {r} : RunFits(run[s], db'.life, feed', stale')
  PROVE  Taken'
<1>1. run'[r] = x /\ \A s \in Run \ {r} : run'[s] = run[s] BY DEF Types
<1>2. \A s \in Run : RunFits(run'[s], db'.life, feed', stale') BY <1>1, FreshFits
<1>3. \A s \in Run : Agree(x, run'[s]) /\ Agree(run'[s], x) BY <1>2, FreshFits
<1>4. \A s, t \in Run : Agree(run'[s], run'[t]) BY <1>1, <1>3 DEF Taken
<1> QED BY <1>2, <1>4 DEF Taken

\* Runs that keep what they hold still fit when lifecycles stay.
LEMMA TakenSame ==
  ASSUME Taken, db'.life = db.life, feed' = feed, stale' = stale,
         \A r \in Run : \/ run'[r] = run[r]
                        \/ DOMAIN run'[r].held = {} /\ DOMAIN run'[r].answer = {}
                        \/ /\ run'[r].held = run[r].held /\ run'[r].answer = run[r].answer
                           /\ run'[r].pc # "answered"
  PROVE  Taken'
<1>1. \A r \in Run : RunFits(run'[r], db'.life, feed', stale') BY DEF Taken, RunFits
<1>2. \A r, s \in Run : Agree(run'[r], run'[s]) BY DEF Taken, Agree
<1> QED BY <1>1, <1>2 DEF Taken

LEMMA QueryTaken ==
  ASSUME Types, Holds, Taken, NEW r \in Run, QueryResults(r)
  PROVE  Taken'
<1> DEFINE S == {d \in DOMAIN run[r].held : feed[d] > 0}
           answer == [e \in S |-> feed[e]]
<1>1. run[r] \in RunType /\ DOMAIN run[r].held \subseteq Event BY PartialIs DEF Types, RunType
<1>2. DOMAIN answer = S OBVIOUS
<1>3. run' = [run EXCEPT ![r].pc = "answered", ![r].answer = answer] BY DEF QueryResults
<1> HIDE DEF answer
<1>4. /\ run'[r].held = run[r].held /\ run'[r].answer = answer
      /\ \A s \in Run \ {r} : run'[s] = run[s]
  BY <1>1, <1>3 DEF Types, RunType
<1>5. ASSUME NEW e \in DOMAIN run[r].held, e \notin S PROVE run[r].held[e].phase = "open"
  <2>1. e \in Event /\ ~(feed[e] > 0) BY <1>1, <1>5
  <2>2. db.life[e].phase \notin Seen BY <2>1 DEF Taken, Published
  <2> QED BY <2>2 DEF Taken, RunFits, Fits
<1>6. UNCHANGED <<db, feed, stale>> BY DEF QueryResults
<1>7. RunFits(run'[r], db.life, feed, stale) BY <1>2, <1>4, <1>5 DEF Taken, RunFits
<1>8. \A s, t \in Run : Agree(run'[s], run'[t]) BY <1>4 DEF Taken, Agree
<1> QED BY <1>4, <1>6, <1>7, <1>8 DEF Taken

\* What another run holds still fits after r has written what it held.
LEMMA AnswerTaken ==
  ASSUME Types, Types', Holds, Kept', Taken, NEW r \in Run, ApplyResults(r)
  PROVE  Taken'
<1> DEFINE held == run[r].held answer == run[r].answer
<1>1. /\ db' = Applied(db, held, answer) /\ run' = [run EXCEPT ![r] = Draining(db')]
      /\ held \in Partial(Event, LifeType) /\ answer \in Partial(Event, 1..MaxVersion)
      /\ DOMAIN answer \subseteq DOMAIN held /\ DOMAIN held \subseteq Event
      /\ \A e \in DOMAIN held : held[e].phase \notin {"none", "complete"}
      /\ feed' = feed /\ stale' = stale
      /\ \A e \in DOMAIN answer : feed[e] > 0
      /\ \A e \in DOMAIN held : Fits(held[e], db.life[e])
      /\ \A s \in Run : Agree(run[s], run[r])
  BY ApplyIs DEF Taken, RunFits
<1>2. \A s \in Run : \A e \in DOMAIN run[s].held \cap DOMAIN held :
        run[s].held[e].phase = "open" <=> held[e].phase = "open"
  BY <1>1 DEF Agree
<1> HIDE DEF held, answer
<1>3. db \in DbType /\ db' \in DbType BY DEF Types
<1>4. \A e \in Event :
        /\ e \in DOMAIN answer => db'.life[e] = Advance(held[e])
        /\ e \in DOMAIN held \ DOMAIN answer =>
             /\ db'.life[e].phase = db.life[e].phase /\ db'.life[e].final = db.life[e].final
             /\ db'.life[e].due = PollDelay
        /\ e \notin DOMAIN held => db'.life[e] = db.life[e]
  BY <1>1, <1>3, AppliedRows
<1>5. Published(db'.life, feed')
  BY <1>1, <1>4 DEF Taken, Published
<1>6. ASSUME NEW s \in Run, NEW e \in DOMAIN run[s].held PROVE Fits(run[s].held[e], db'.life[e])
  <2> DEFINE h == run[s].held[e]
  <2>1. Fits(h, db.life[e]) /\ e \in Event BY PartialIs DEF Taken, RunFits, Types, RunType
  <2>2. CASE e \in DOMAIN answer
    <3>1. held[e] \in LifeType /\ held[e].phase \notin {"none", "complete"} BY <1>1, <2>2, PartialIs
    <3>2. Fits(held[e], db.life[e]) /\ (h.phase = "open" <=> held[e].phase = "open")
          /\ db'.life[e] = Advance(held[e])
      BY <1>1, <1>2, <1>4, <2>1, <2>2
    <3>3. CASE held[e].phase = "open"
      <4>1. /\ db'.life[e].phase = "final_15" /\ db'.life[e].final = Final24
            /\ db'.life[e].due = Final15
        BY <3>1, <3>2, <3>3, AdvanceLife
      <4>2. Final24 # Never /\ Final15 # 0 BY DelayTimes, DelaysAssumption DEF Never
      <4>3. h.phase = "open" BY <3>2, <3>3
      <4> QED BY <4>1, <4>2, <4>3 DEF Fits
    <3>4. CASE held[e].phase # "open"
      <4>1. db'.life[e].phase \in Seen /\ db'.life[e].final = held[e].final
        <5>1. held[e].phase \in {"final_15", "final_24"} BY <3>1, <3>4 DEF LifeType, Phase
        <5> QED BY <3>1, <3>2, <5>1, AdvanceLife DEF Seen
      <4>2. h.phase # "open" /\ h.final = held[e].final BY <2>1, <3>2, <3>4 DEF Fits
      <4> QED BY <4>1, <4>2 DEF Fits
    <3> QED BY <3>3, <3>4
  <2>3. CASE e \in DOMAIN held \ DOMAIN answer
    <3>1. PollDelay # 0 BY DelaysAssumption
    <3> QED BY <1>4, <2>1, <2>3, <3>1 DEF Fits
  <2>4. CASE e \notin DOMAIN held BY <1>4, <2>1, <2>4
  <2> QED BY <2>2, <2>3, <2>4
<1>7. \A s \in Run : RunFits(run[s], db'.life, feed', stale') BY <1>1, <1>6 DEF Taken, RunFits
<1>8. Fresh(Draining(db'), db') BY <1>3, DrainingIsFresh
<1> QED BY <1>1, <1>5, <1>7, <1>8, ReplacedTaken

LEMMA FailTaken ==
  ASSUME Types, Types', Holds, Kept', Taken, NEW r \in Run, RunFails(r)
  PROVE  Taken'
<1> DEFINE held == run[r].held
<1>1. /\ db' = BackOff(db, held) /\ run' = [run EXCEPT ![r] = Draining(db')]
      /\ held \in Partial(Event, LifeType) /\ feed' = feed /\ stale \subseteq stale'
  BY FailIs
<1> HIDE DEF held
<1>2. db \in DbType /\ db' \in DbType BY DEF Types
<1>3. \A e \in Event :
        /\ db'.life[e].phase = db.life[e].phase /\ db'.life[e].final = db.life[e].final
        /\ IF e \in DOMAIN held THEN db'.life[e].due \in {PollDelay, RetryDelay}
           ELSE db'.life[e] = db.life[e]
  BY <1>1, <1>2, BackOffRows
<1>4. Published(db'.life, feed') BY <1>1, <1>3 DEF Taken, Published
<1>5. ASSUME NEW s \in Run, NEW e \in DOMAIN run[s].held PROVE Fits(run[s].held[e], db'.life[e])
  <2>1. Fits(run[s].held[e], db.life[e]) /\ e \in Event BY PartialIs DEF Taken, RunFits, Types, RunType
  <2>2. PollDelay # 0 /\ RetryDelay # 0 BY DelaysAssumption
  <2> QED BY <1>3, <2>1, <2>2 DEF Fits
<1>6. \A s \in Run : RunFits(run[s], db'.life, feed', stale') BY <1>1, <1>5 DEF Taken, RunFits
<1>7. Fresh(Draining(db'), db') BY <1>2, DrainingIsFresh
<1> QED BY <1>1, <1>4, <1>6, <1>7, ReplacedTaken

\* A run starts, or goes on to ask: it takes the rows as they are.
LEMMA StartTaken ==
  ASSUME Types, Types', Kept', Taken, NEW r \in Run, NEW x, Fresh(x, db'),
         run' = [run EXCEPT ![r] = x], db'.life = db.life, UNCHANGED <<feed, stale>>
  PROVE  Taken'
<1>1. Published(db'.life, feed') /\ \A s \in Run : RunFits(run[s], db'.life, feed', stale')
  BY DEF Taken
<1> QED BY <1>1, ReplacedTaken

\* A command writes the lifecycle of an event that no run holds.
LEMMA CommandTaken ==
  ASSUME Types, Taken, ConfirmSuperBowl \/ \E e \in Event : PlaceWager(e)
  PROVE  Taken'
<1>1. UNCHANGED <<run, feed, stale>>
  BY DEF ConfirmSuperBowl, PlaceWager, Committed
<1>2. \E e \in Event : db'.life = [db.life EXCEPT ![e] = IF @.phase = "none" THEN OpenLife ELSE @]
  <2>1. SuperBowl \in Event BY NamesAssumption
  <2> QED BY <2>1 DEF ConfirmSuperBowl, PlaceWager, Committed, Types, DbType
<1>3. ASSUME NEW e \in Event
      PROVE  \/ db'.life[e] = db.life[e]
             \/ db.life[e].phase = "none" /\ db'.life[e].phase = "open"
  BY <1>2 DEF Types, DbType, OpenLife
<1>4. Published(db'.life, feed') BY <1>1, <1>3 DEF Taken, Published, Seen
<1>5. ASSUME NEW r \in Run PROVE RunFits(run[r], db'.life, feed, stale)
  <2>1. DOMAIN run[r].held \subseteq Event BY PartialIs DEF Types, RunType
  <2>2. \A e \in DOMAIN run[r].held : db.life[e].phase # "none"
    BY DEF Taken, RunFits, Fits, Seen
  <2>3. \A e \in DOMAIN run[r].held : db'.life[e] = db.life[e] BY <1>3, <2>1, <2>2
  <2> QED BY <2>3 DEF Taken, RunFits
<1> QED BY <1>1, <1>4, <1>5 DEF Taken

\* When no run is in progress nothing is held.
LEMMA RestTaken ==
  ASSUME \A r \in Run : run'[r] = Idle, Published(db'.life, feed')
  PROVE  Taken'
<1>1. \A r \in Run : DOMAIN run'[r].held = {} /\ DOMAIN run'[r].answer = {}
  BY NothingHeld DEF Idle
<1> QED BY <1>1 DEF Taken, RunFits, Agree

LEMMA WorldTaken ==
  ASSUME Types, Taken, Tick \/ Crash \/ \E e \in Event : Publish(e)
  PROVE  Taken'
<1>1. CASE Tick
  <2>1. Published(db'.life, feed') BY <1>1, TickIs DEF Tick, Taken, Published
  <2>2. \A r \in Run : run'[r] = Idle BY <1>1 DEF Tick
  <2> QED BY <2>1, <2>2, RestTaken
<1>2. CASE Crash
  <2>1. \A r \in Run : run'[r] = Idle BY <1>2 DEF Crash
  <2> QED BY <1>2, <2>1, RestTaken DEF Crash, Taken
<1>3. ASSUME NEW e \in Event, Publish(e) PROVE Taken'
  <2>1. \A d \in Event : feed[d] > 0 => feed'[d] > 0
    BY <1>3, DelaysAssumption DEF Publish, Types
  <2>2. UNCHANGED <<db, run, stale>> BY <1>3 DEF Publish
  <2>3. ASSUME NEW r \in Run PROVE RunFits(run[r], db.life, feed', stale)
    <3>1. DOMAIN run[r].answer \subseteq Event BY PartialIs DEF Types, RunType
    <3> QED BY <2>1, <3>1 DEF Taken, RunFits
  <2>4. Published(db.life, feed') BY <2>1 DEF Taken, Published
  <2> QED BY <2>2, <2>3, <2>4 DEF Taken
<1> QED BY <1>1, <1>2, <1>3

LEMMA TakenStep == Types /\ Holds /\ Kept /\ Taken /\ [Next]_vars => Taken'
<1> SUFFICES ASSUME Types, Holds, Kept, Taken, [Next]_vars PROVE Taken' OBVIOUS
<1>1. Types' /\ Holds' /\ Kept' BY TypesStep, KeptStep
<1>2. CASE UNCHANGED <<db, run, feed, stale>> BY <1>2 DEF Taken
<1>3. CASE UNCHANGED vars BY <1>2, <1>3 DEF vars
<1>4. ASSUME NEW r \in Run, RunStep(r) PROVE Taken'
  <2>1. CASE DiscoveryAnswers(r) \/ DiscoveryFails(r)
    <3>1. Fresh(Asking(db'), db') BY <2>1, DiscoveryTypes
    <3>2. /\ run' = [run EXCEPT ![r] = Asking(db')] /\ db'.life = db.life
          /\ UNCHANGED <<feed, stale>>
      BY <2>1 DEF DiscoveryAnswers, DiscoveryFails, Step, Types, DbType
    <3> QED BY <1>1, <3>1, <3>2, StartTaken
  <2>2. ASSUME NEW row \in Row, SendSucceeds(r, row) \/ SendFails(r, row) PROVE Taken'
    <3>1. PICK value \in SentType :
            db' = IF db.outbox[row].due = Never THEN db ELSE [db EXCEPT !.outbox[row] = value]
      BY <2>2, SendIs
    <3>2. db'.life = db.life BY <3>1 DEF Types, DbType
    <3>3. UNCHANGED <<feed, stale>> BY <2>2 DEF SendSucceeds, SendFails, Sent
    <3>4. \A s \in Run : /\ run'[s].held = run[s].held /\ run'[s].answer = run[s].answer
                         /\ run'[s].pc = run[s].pc
      <4>1. run \in [Run -> RunType] BY DEF Types
      <4>2. PICK x \in RunType : /\ run' = [run EXCEPT ![r] = x]
                                /\ x = [run[r] EXCEPT !.rows = x.rows]
        BY <2>2, SendIs
      <4>3. x.held = run[r].held /\ x.answer = run[r].answer /\ x.pc = run[r].pc
        BY <4>1, <4>2 DEF RunType
      <4> QED BY <4>1, <4>2, <4>3
    <3>5. \A s \in Run : RunFits(run'[s], db.life, feed, stale) BY <3>4 DEF Taken, RunFits
    <3>6. \A s, t \in Run : Agree(run'[s], run'[t]) BY <3>4 DEF Taken, Agree
    <3> QED BY <3>2, <3>3, <3>5, <3>6 DEF Taken
  <2>3. CASE Finish(r)
    <3>1. \A s \in Run : run'[s] = run[s] \/ run'[s] = Idle BY <2>3 DEF Finish, Types
    <3>2. DOMAIN Idle.held = {} /\ DOMAIN Idle.answer = {} BY NothingHeld DEF Idle
    <3> QED BY <2>3, <3>1, <3>2, TakenSame DEF Finish
  <2> QED BY <1>1, <1>4, <2>1, <2>2, <2>3, QueryTaken, AnswerTaken, FailTaken DEF RunStep
<1>5. CASE AlarmFires
  <2>1. "alarm" \in Run BY NamesAssumption
  <2>2. Fresh(Started(db'), db') BY <1>1, StartedIsFresh DEF Types
  <2> QED BY <1>1, <1>5, <2>1, <2>2, StartTaken DEF AlarmFires
<1>6. CASE ServiceSettles
  <2>1. Fresh(Started(db'), db') BY <1>1, StartedIsFresh DEF Types
  <2> QED BY <1>1, <1>6, <2>1, StartTaken DEF ServiceSettles
<1>7. CASE Arm \/ Announce BY <1>2, <1>7 DEF Arm, Announce
<1> QED BY <1>3, <1>4, <1>5, <1>6, <1>7, CommandTaken, WorldTaken DEF Next

-----------------------------------------------------------------------------
(* The alarm is kept: commands, and the slot itself *)

LEMMA InitSlot == Init => Kept /\ Taken /\ SlotInvariant
<1> SUFFICES ASSUME Init PROVE Kept /\ Taken /\ SlotInvariant OBVIOUS
<1>1. /\ \A e \in Event : db.life[e] = NoLife
      /\ \A row \in Row : db.outbox[row] = NoRow
      /\ \A r \in Run : run[r] = Idle
      /\ db.open = {} /\ arming /\ alarm = Never
  BY DEF Init
<1>2. Kept BY <1>1 DEF Kept, NoLife
<1>3. \A row \in Row : Untouched(row) BY <1>1, NothingHeld DEF Untouched, NoRow, Idle
<1>4. \A e \in Event : e \in Row BY DEF Row
<1>5. Confirmation \in Row BY DEF Row
<1>6. Unwritten BY <1>3, <1>4, <1>5 DEF Unwritten
<1>7. "alarm" \in Run BY NamesAssumption
<1>8. Lone /\ Covered BY <1>1, <1>7 DEF Lone, Covered, Idle
<1>9. Taken
  <2>1. \A r \in Run : DOMAIN run[r].held = {} /\ DOMAIN run[r].answer = {}
    BY <1>1, NothingHeld DEF Idle
  <2> QED BY <1>1, <2>1 DEF Taken, RunFits, Agree, Published, Seen, NoLife
<1> QED BY <1>1, <1>2, <1>6, <1>8, <1>9 DEF SlotInvariant, AtRest, Attended, RowsAttended, Quiet

\* What is overdue is covered by an alarm that is.
LEMMA EarlyAtOnce ==
  ASSUME NEW times \in SUBSET Time
  PROVE  Early(0, times)
BY DEF Early, Time, Never

LEMMA WaitingSame ==
  ASSUME NEW b, NEW c, c.life = b.life, c.discovery = b.discovery, c.season = b.season,
         c.canonical = b.canonical
  PROVE  Waiting(c) = Waiting(b)
BY DEF Waiting, Watched, Seeking

LEMMA CommandSlot ==
  ASSUME Types, Holds, SlotInvariant, ConfirmSuperBowl \/ \E e \in Event : PlaceWager(e)
  PROVE  SlotInvariant'
<1>1. arming' /\ UNCHANGED <<alarm, interrupted, run>>
  BY DEF ConfirmSuperBowl, PlaceWager, Committed
<1>2. AtRest' /\ Attended' /\ RowsAttended' BY <1>1 DEF AtRest, Attended, RowsAttended, Quiet
<1>3. Lone' BY <1>1 DEF Lone, SlotInvariant
<1>4. db \in DbType BY DEF Types
<1>5. ASSUME NEW e \in Event, NEW row \in Row, NEW fresh,
             fresh = FreshRow,
             db'.life = [db.life EXCEPT ![e] = IF @.phase = "none" THEN OpenLife ELSE @],
             db'.outbox = [db.outbox EXCEPT ![row] = fresh],
             row \in Event => row = e,
             row \notin Event => row = Confirmation /\ db'.confirmed,
             db.confirmed => db'.confirmed,
             \/ Waiting(db') = Waiting(db)
             \/ \A r \in Run : row \notin DOMAIN run[r].rows
      PROVE  Unwritten' /\ Covered'
  <2>1. db.life \in [Event -> LifeType] /\ db.outbox \in [Row -> SentType] BY <1>4 DEF DbType
  <2>2. /\ \A f \in Event : f # e => db'.life[f] = db.life[f]
        /\ db'.life[e].phase # "none"
        /\ \A f \in Event : db'.life[f].phase = "none" => db.life[f].phase = "none"
    BY <1>5, <2>1 DEF OpenLife
  <2>3. \A q \in Row : q # row => db'.outbox[q] = db.outbox[q] BY <1>5, <2>1
  <2>4. db'.outbox[row].due = 0 BY <1>5, <2>1 DEF FreshRow
  <2>5. Unwritten'
    <3>1. ASSUME NEW f \in Event, db'.life[f].phase = "none" PROVE Untouched(f)'
      <4>1. db.life[f].phase = "none" /\ f # e BY <2>2, <3>1
      <4>2. f \in Row /\ f # row BY <1>5, <4>1, NamesAssumption DEF Row
      <4>3. Untouched(f) BY <4>1 DEF Unwritten, SlotInvariant
      <4> QED BY <1>1, <2>3, <4>2, <4>3 DEF Untouched
    <3>2. ASSUME ~db'.confirmed PROVE Untouched(Confirmation)'
      <4>1. ~db.confirmed /\ row # Confirmation BY <1>5, <3>2, NamesAssumption
      <4>2. Untouched(Confirmation) BY <4>1 DEF Unwritten, SlotInvariant
      <4>3. Confirmation \in Row BY DEF Row
      <4> QED BY <1>1, <2>3, <4>1, <4>2, <4>3 DEF Untouched
    <3> QED BY <3>1, <3>2 DEF Unwritten
  <2>6. Covered'
    <3> SUFFICES ASSUME "overlap" \notin interrupted, NEW r \in Run, run[r].pc = "draining"
                 PROVE  HasRead(r)'
      BY <1>1 DEF Covered
    <3>1. HasRead(r) BY DEF Covered, SlotInvariant
    <3>2. CASE row \notin DOMAIN run[r].rows
      <4>1. row \in Pending(db') BY <2>4 DEF Pending, Never
      <4> QED BY <1>1, <2>4, <3>2, <4>1 DEF HasRead
    <3>3. CASE row \in DOMAIN run[r].rows
      <4>1. Waiting(db') = Waiting(db) BY <1>5, <3>3
      <4>2. CASE Early(run[r].deadline, Waiting(db)) BY <1>1, <4>1, <4>2 DEF HasRead
      <4>3. ASSUME NEW q \in Pending(db) \ DOMAIN run[r].rows, db.outbox[q].due = 0
            PROVE  HasRead(r)'
        <5>1. q \in Row /\ q # row BY <3>3 DEF Pending
        <5>2. db'.outbox[q].due = 0 /\ q \in Pending(db') BY <2>3, <4>3, <5>1 DEF Pending, Never
        <5> QED BY <1>1, <5>2 DEF HasRead
      <4> QED BY <3>1, <4>2, <4>3 DEF HasRead
    <3> QED BY <3>2, <3>3
  <2> QED BY <2>5, <2>6
<1>6. CASE ConfirmSuperBowl
  <2>1. SuperBowl \in Event /\ Confirmation \in Row /\ Confirmation \notin Event
    BY NamesAssumption DEF Row
  <2>2. /\ db'.life = [db.life EXCEPT ![SuperBowl] = IF @.phase = "none" THEN OpenLife ELSE @]
        /\ db'.outbox = [db.outbox EXCEPT ![Confirmation] = FreshRow] /\ db'.confirmed
    BY <1>4, <1>6 DEF ConfirmSuperBowl, Committed, DbType
  <2>3. \A r \in Run : Confirmation \notin DOMAIN run[r].rows
    BY <1>6 DEF ConfirmSuperBowl, SlotInvariant, Unwritten, Untouched
  <2>4. Unwritten' /\ Covered' BY <1>5, <2>1, <2>2, <2>3
  <2> QED BY <1>2, <1>3, <2>4 DEF SlotInvariant
<1>7. ASSUME NEW e \in Event, PlaceWager(e) PROVE SlotInvariant'
  <2>1. e \in Row BY DEF Row
  <2>2. /\ db'.life = [db.life EXCEPT ![e] = IF @.phase = "none" THEN OpenLife ELSE @]
        /\ db'.outbox = [db.outbox EXCEPT ![e] = FreshRow]
        /\ db'.confirmed = db.confirmed /\ db'.discovery = db.discovery
        /\ db'.season = db.season /\ db'.canonical = db.canonical
    BY <1>4, <1>7 DEF PlaceWager, Committed, DbType
  <2>3. CASE db.life[e].phase = "none"
    <3>1. \A r \in Run : e \notin DOMAIN run[r].rows
      BY <2>3 DEF SlotInvariant, Unwritten, Untouched
    <3>2. Unwritten' /\ Covered' BY <1>5, <2>1, <2>2, <3>1
    <3> QED BY <1>2, <1>3, <3>2 DEF SlotInvariant
  <2>4. CASE db.life[e].phase # "none"
    <3>1. db'.life = db.life BY <1>4, <2>2, <2>4 DEF DbType
    <3>2. Waiting(db') = Waiting(db) BY <2>2, <3>1, WaitingSame
    <3>3. Unwritten' /\ Covered' BY <1>5, <2>1, <2>2, <3>2
    <3> QED BY <1>2, <1>3, <3>3 DEF SlotInvariant
  <2> QED BY <2>3, <2>4
<1> QED BY <1>6, <1>7

LEMMA ArmSlot ==
  ASSUME Types, SlotInvariant, Arm
  PROVE  SlotInvariant'
<1>1. /\ alarm' = 0 /\ UNCHANGED <<db, run>>
      /\ "overlap" \in interrupted' <=> "overlap" \in interrupted
  BY DEF Arm
<1>2. Waiting(db) \cup Unsent(db) \in SUBSET Time BY DeadlinesAreEarly DEF Types, Time
<1>3. AtRest' BY <1>1, <1>2, EarlyAtOnce DEF AtRest
<1>4. 0 # Never BY DEF Never
<1>5. Unwritten' /\ Lone' BY <1>1 DEF Unwritten, Untouched, Lone, SlotInvariant
<1>6. Covered' BY <1>1 DEF Covered, HasRead, SlotInvariant
<1> QED BY <1>1, <1>3, <1>4, <1>5, <1>6 DEF SlotInvariant, Attended, RowsAttended

-----------------------------------------------------------------------------
(* The alarm is kept: runs *)

\* A record made from the rows as they are: whatever waits, its run attends to.
LEMMA FreshAttends ==
  ASSUME NEW r \in Run, db' \in DbType, Fresh(run'[r], db')
  PROVE  /\ run'[r].pc = "draining" => HasRead(r)'
         /\ Set(Waiting(db')) => Attends(r)'
<1>1. Early(SettlementDeadline(db'), Waiting(db')) BY DeadlinesAreEarly
<1>2. run'[r].pc = "draining" => run'[r].deadline = SettlementDeadline(db') BY DEF Fresh
<1>3. run'[r].pc \in {"discovering", "asking", "answered", "draining"}
  BY DEF Fresh, RunType
<1>4. Set(Waiting(db')) => SettlementDeadline(db') # Never BY <1>1 DEF Set, Early
<1> QED BY <1>1, <1>2, <1>3, <1>4 DEF HasRead, Attends

\* A run takes up the rows as they are, at its start or after an await.
LEMMA FreshSlot ==
  ASSUME Types, Holds, Unwritten, NEW r \in Run, NEW x, Fresh(x, db'), db' \in DbType,
         run' = [run EXCEPT ![r] = x],
         \A e \in Event : db'.life[e].phase = "none" => db.life[e].phase = "none",
         db'.confirmed = db.confirmed,
         db'.outbox \in {db.outbox, [db.outbox EXCEPT ![Settlement] = FreshRow]},
         "overlap" \notin interrupted' => \A s \in Run \ {r} : run[s] = Idle,
         "overlap" \notin interrupted' /\ run'["alarm"] # Idle => alarm' \in {Never, 0}
  PROVE  SlotInvariant'
<1>1. run'[r] = x /\ \A s \in Run \ {r} : run'[s] = run[s] BY DEF Types
<1>2. x.pc # "idle" /\ x # Idle BY DEF Fresh, Idle
<1>3. ~Quiet' BY <1>1, <1>2 DEF Quiet
<1>4. AtRest' /\ RowsAttended' BY <1>3 DEF AtRest, RowsAttended
<1>5. /\ run'[r].pc = "draining" => HasRead(r)'
      /\ Set(Waiting(db')) => Attends(r)'
  BY <1>1, FreshAttends
<1>6. Attended' BY <1>5 DEF Attended
<1>7. Lone' BY <1>1 DEF Lone
<1>8. Covered'
  <2>1. ASSUME "overlap" \notin interrupted', NEW s \in Run, run'[s].pc = "draining", s # r
        PROVE  FALSE
    BY <1>1, <2>1 DEF Idle
  <2> QED BY <1>5, <2>1 DEF Covered
<1>9. ASSUME NEW q \in Row, q # Settlement, Untouched(q) PROVE Untouched(q)'
  <2>1. db'.outbox[q] = db.outbox[q] BY <1>9 DEF Types, DbType
  <2>2. q \notin Pending(db') BY <1>9, <2>1 DEF Untouched, Pending
  <2>3. q \notin DOMAIN x.rows BY <2>2 DEF Fresh
  <2> QED BY <1>1, <1>9, <2>1, <2>3 DEF Untouched
<1>10. Unwritten'
  <2>1. \A e \in Event : e \in Row /\ e # Settlement BY NamesAssumption DEF Row
  <2>2. Confirmation \in Row /\ Confirmation # Settlement BY NamesAssumption DEF Row
  <2> QED BY <1>9, <2>1, <2>2 DEF Unwritten
<1> QED BY <1>4, <1>6, <1>7, <1>8, <1>10 DEF SlotInvariant

LEMMA StartSlot ==
  ASSUME Types, Holds, SlotInvariant, AlarmFires \/ ServiceSettles
  PROVE  SlotInvariant'
<1>1. "alarm" \in Run BY NamesAssumption
<1>2. db \in DbType BY DEF Types
<1>3. Fresh(Started(db), db) BY <1>2, StartedIsFresh
<1>4. CASE AlarmFires
  <2>1. /\ run' = [run EXCEPT !["alarm"] = Started(db)] /\ db' = db /\ alarm' = Never
        /\ "overlap" \notin interrupted' => \A s \in Run \ {"alarm"} : run[s] = Idle
    BY <1>4 DEF AlarmFires, Overlaps
  <2> QED BY <1>1, <1>2, <1>3, <2>1, FreshSlot DEF SlotInvariant
<1>5. CASE ServiceSettles
  <2>1. /\ run' = [run EXCEPT !["settle"] = Started(db)] /\ db' = db /\ "settle" \in Run
        /\ "overlap" \notin interrupted' => \A s \in Run \ {"settle"} : run[s] = Idle
    BY <1>5 DEF ServiceSettles, Overlaps
  <2>2. run'["alarm"] = run["alarm"] BY <1>1, <2>1 DEF Types
  <2>3. "overlap" \notin interrupted' => run'["alarm"] = Idle BY <1>1, <2>1, <2>2
  <2> QED BY <1>2, <1>3, <2>1, <2>3, FreshSlot DEF SlotInvariant
<1> QED BY <1>4, <1>5

\* A step of a run that is on its way and stays so.
LEMMA LoneStep ==
  ASSUME Types, Lone, NEW r \in Run, run[r] # Idle, interrupted' = interrupted, alarm' = alarm,
         \A s \in Run \ {r} : run'[s] = run[s]
  PROVE  /\ "overlap" \notin interrupted' => \A s \in Run \ {r} : run[s] = Idle
         /\ "overlap" \notin interrupted' /\ run'["alarm"] # Idle => alarm' \in {Never, 0}
<1>1. "alarm" \in Run BY NamesAssumption
<1>2. "overlap" \notin interrupted' => \A s \in Run \ {r} : run[s] = Idle BY DEF Lone
<1>3. r # "alarm" => run'["alarm"] = run["alarm"] BY <1>1
<1> QED BY <1>2, <1>3 DEF Lone

LEMMA DiscoverySlot ==
  ASSUME Types, Holds, SlotInvariant, NEW r \in Run, DiscoveryAnswers(r) \/ DiscoveryFails(r)
  PROVE  SlotInvariant'
<1>1. Types' /\ Fresh(Asking(db'), db') BY DiscoveryTypes
<1>2. /\ run' = [run EXCEPT ![r] = Asking(db')] /\ run[r].pc = "discovering"
      /\ UNCHANGED <<alarm, arming, interrupted>>
      /\ db'.life = db.life /\ db'.confirmed = db.confirmed /\ db'.outbox = db.outbox
  BY DEF DiscoveryAnswers, DiscoveryFails, Step, Types, DbType
<1>3. run[r] # Idle BY <1>2 DEF Idle
<1>4. \A s \in Run \ {r} : run'[s] = run[s] BY <1>2 DEF Types
<1>5. /\ "overlap" \notin interrupted' => \A s \in Run \ {r} : run[s] = Idle
      /\ "overlap" \notin interrupted' /\ run'["alarm"] # Idle => alarm' \in {Never, 0}
  BY <1>2, <1>3, <1>4, LoneStep DEF SlotInvariant
<1>6. db' \in DbType BY <1>1 DEF Types
<1> HIDE DEF DiscoveryAnswers, DiscoveryFails
<1> QED BY <1>1, <1>2, <1>5, <1>6, FreshSlot DEF SlotInvariant

LEMMA AnswerSlot ==
  ASSUME Types, Holds, SlotInvariant, NEW r \in Run, ApplyResults(r) \/ RunFails(r)
  PROVE  SlotInvariant'
<1>1. Types' /\ Fresh(Draining(db'), db') BY AnswerTypes
<1>2. /\ run' = [run EXCEPT ![r] = Draining(db')]
      /\ UNCHANGED <<alarm, arming, interrupted>>
  BY ApplyIs, FailIs
<1>3. run[r] # Idle
  <2>1. ApplyResults(r) => run[r].pc = "answered" BY DEF ApplyResults
  <2>2. RunFails(r) => run[r].pc \in {"asking", "answered"} BY DEF RunFails
  <2> QED BY <2>1, <2>2 DEF Idle
<1>4. \A s \in Run \ {r} : run'[s] = run[s] BY <1>2 DEF Types
<1>5. /\ "overlap" \notin interrupted' => \A s \in Run \ {r} : run[s] = Idle
      /\ "overlap" \notin interrupted' /\ run'["alarm"] # Idle => alarm' \in {Never, 0}
  BY <1>2, <1>3, <1>4, LoneStep DEF SlotInvariant
<1>6. db' \in DbType /\ db \in DbType BY <1>1 DEF Types
<1>7. /\ \A e \in Event : db'.life[e].phase = "none" => db.life[e].phase = "none"
      /\ db'.confirmed = db.confirmed
      /\ db'.outbox \in {db.outbox, [db.outbox EXCEPT ![Settlement] = FreshRow]}
  <2>1. CASE ApplyResults(r)
    <3> DEFINE held == run[r].held answer == run[r].answer
    <3>1. /\ db' = Applied(db, held, answer)
          /\ held \in Partial(Event, LifeType) /\ answer \in Partial(Event, 1..MaxVersion)
          /\ DOMAIN answer \subseteq DOMAIN held
          /\ \A e \in DOMAIN held : held[e].phase \notin {"none", "complete"}
      BY <2>1, ApplyIs
    <3>2. \A e \in DOMAIN held : held[e] \in LifeType BY <3>1, PartialIs
    <3> HIDE DEF held, answer
    <3>3. /\ db'.confirmed = db.confirmed
          /\ db'.outbox \in {db.outbox, [db.outbox EXCEPT ![Settlement] = FreshRow]}
          /\ \A e \in Event :
               /\ e \in DOMAIN answer => db'.life[e] = Advance(held[e])
               /\ e \in DOMAIN held \ DOMAIN answer => db'.life[e].phase = db.life[e].phase
               /\ e \notin DOMAIN held => db'.life[e] = db.life[e]
      BY <1>6, <3>1, AppliedRows
    <3>4. \A e \in DOMAIN answer : Advance(held[e]).phase # "none"
      <4> SUFFICES ASSUME NEW e \in DOMAIN answer PROVE Advance(held[e]).phase # "none" OBVIOUS
      <4>1. held[e] \in LifeType /\ held[e].phase \notin {"none", "complete"} BY <3>1, <3>2
      <4> QED BY <4>1, AdvanceLife DEF LifeType, Phase
    <3> QED BY <3>3, <3>4
  <2>2. CASE RunFails(r)
    <3>1. db' = BackOff(db, run[r].held) /\ run[r].held \in Partial(Event, LifeType)
      BY <2>2, FailIs
    <3>2. /\ db' = [db EXCEPT !.life = db'.life]
          /\ \A e \in Event : db'.life[e].phase = db.life[e].phase
      BY <1>6, <3>1, BackOffRows
    <3> QED BY <1>6, <3>2 DEF DbType
  <2> QED BY <2>1, <2>2
<1> QED BY <1>1, <1>2, <1>5, <1>6, <1>7, FreshSlot DEF SlotInvariant

\* A step of a run that leaves its deadline and what waits as they are.
LEMMA SameDeadline ==
  ASSUME Types, Holds, SlotInvariant, NEW r \in Run, run[r] # Idle, run'[r] # Idle,
         UNCHANGED <<alarm, arming, interrupted>>, Waiting(db') = Waiting(db),
         \A s \in Run \ {r} : run'[s] = run[s],
         Attends(r) => Attends(r)',
         run'[r].pc = "draining" => run[r].pc = "draining" /\ (HasRead(r) => HasRead(r)'),
         Unwritten'
  PROVE  SlotInvariant'
<1>1. /\ "overlap" \notin interrupted' => \A s \in Run \ {r} : run[s] = Idle
      /\ "overlap" \notin interrupted' /\ run'["alarm"] # Idle => alarm' \in {Never, 0}
  BY LoneStep DEF SlotInvariant
<1>2. Lone' BY <1>1 DEF Lone
<1>3. Covered'
  <2>1. ASSUME "overlap" \notin interrupted', NEW s \in Run, run'[s].pc = "draining", s # r
        PROVE  FALSE
    BY <1>1, <2>1 DEF Idle
  <2> QED BY <2>1 DEF Covered, SlotInvariant
<1>4. \A s \in Run \ {r} : Attends(s) => Attends(s)' BY DEF Attends
<1>5. Attended' BY <1>4 DEF Attended, SlotInvariant
<1>6. ~Quiet' BY DEF Quiet
<1> QED BY <1>2, <1>3, <1>5, <1>6 DEF SlotInvariant, AtRest, RowsAttended

LEMMA QuerySlot ==
  ASSUME Types, Holds, SlotInvariant, NEW r \in Run, QueryResults(r)
  PROVE  SlotInvariant'
<1> DEFINE answer == [e \in {d \in DOMAIN run[r].held : feed[d] > 0} |-> feed[e]]
           x == [run[r] EXCEPT !.pc = "answered", !.answer = answer]
<1>1. run' = [run EXCEPT ![r].pc = "answered", ![r].answer = answer] /\ run[r].pc = "asking"
      /\ UNCHANGED <<db, alarm, arming, interrupted>>
  BY DEF QueryResults
<1> HIDE DEF answer
<1>2. x.pc = "answered" /\ x.rows = run[r].rows BY DEF Types, RunType
<1>3. run'[r] = x /\ \A s \in Run \ {r} : run'[s] = run[s] BY <1>1 DEF Types
<1> HIDE DEF x
<1>4. run[r] # Idle /\ run'[r] # Idle BY <1>1, <1>2, <1>3 DEF Idle
<1>5. Unwritten' BY <1>1, <1>2, <1>3 DEF Unwritten, Untouched, SlotInvariant
<1>6. Attends(r)' /\ run'[r].pc # "draining" BY <1>2, <1>3 DEF Attends
<1> QED BY <1>1, <1>3, <1>4, <1>5, <1>6, SameDeadline

LEMMA SendSlot ==
  ASSUME Types, Holds, SlotInvariant, NEW r \in Run, NEW row \in Row,
         SendSucceeds(r, row) \/ SendFails(r, row)
  PROVE  SlotInvariant'
<1>1. /\ run[r].pc = "draining" /\ row \in DOMAIN run[r].rows
      /\ UNCHANGED <<alarm, arming, interrupted>>
  BY SendIs
<1>2. PICK value \in SentType :
        db' = IF db.outbox[row].due = Never THEN db ELSE [db EXCEPT !.outbox[row] = value]
  BY SendIs
<1>3. PICK x \in RunType : /\ run' = [run EXCEPT ![r] = x]
                           /\ x = [run[r] EXCEPT !.rows = x.rows]
                           /\ DOMAIN x.rows = DOMAIN run[r].rows \ {row}
  BY SendIs
<1>4. run'[r] = x /\ \A s \in Run \ {r} : run'[s] = run[s] BY <1>3 DEF Types
<1>5. x.pc = "draining" /\ x.deadline = run[r].deadline BY <1>1, <1>3 DEF Types, RunType
<1>6. /\ db'.life = db.life /\ db'.discovery = db.discovery /\ db'.season = db.season
      /\ db'.canonical = db.canonical /\ db'.confirmed = db.confirmed
      /\ \A q \in Row : q # row => db'.outbox[q] = db.outbox[q]
  BY <1>2 DEF Types, DbType
<1>7. Waiting(db') = Waiting(db) BY <1>6, WaitingSame
<1>8. run[r] # Idle /\ run'[r] # Idle BY <1>1, <1>4, <1>5 DEF Idle
<1>9. Unwritten'
  <2>1. ASSUME NEW q \in Row, Untouched(q) PROVE Untouched(q)'
    <3>1. q # row BY <1>1, <2>1 DEF Untouched
    <3> QED BY <1>3, <1>4, <1>6, <2>1, <3>1 DEF Untouched
  <2>2. Confirmation \in Row /\ \A e \in Event : e \in Row BY DEF Row
  <2> QED BY <1>6, <2>1, <2>2 DEF Unwritten, SlotInvariant
<1>10. Attends(r) => Attends(r)' BY <1>1, <1>4, <1>5 DEF Attends
<1>11. HasRead(r) => HasRead(r)'
  <2>1. ASSUME NEW q \in Pending(db) \ DOMAIN run[r].rows, db.outbox[q].due = 0 PROVE HasRead(r)'
    <3>1. q \in Row /\ q # row BY <1>1 DEF Pending
    <3>2. q \in Pending(db') \ DOMAIN run'[r].rows /\ db'.outbox[q].due = 0
      BY <1>3, <1>4, <1>6, <2>1, <3>1 DEF Pending
    <3> QED BY <3>2 DEF HasRead
  <2> QED BY <1>4, <1>5, <1>7, <2>1 DEF HasRead
<1> QED BY <1>1, <1>4, <1>7, <1>8, <1>9, <1>10, <1>11, SameDeadline

\* The alarm that a run sets as it ends covers what it read and what it finds.
LEMMA NextCovers ==
  ASSUME Types, NEW r \in Run, NEW next, next = NextAlarm(run[r].deadline, db)
  PROVE  /\ next \in Time
         /\ run[r].deadline # Never => next # Never
         /\ Pending(db) # {} => next # Never
         /\ HasRead(r) /\ run[r].rows = Nothing => Early(next, Waiting(db) \cup Unsent(db))
<1> DEFINE deadline == run[r].deadline
           sending  == NextOutboxAttempt(db)
<1>1. db \in DbType /\ deadline \in Time BY DEF Types, RunType
<1>2. /\ sending \in Time /\ Early(sending, Unsent(db))
      /\ Waiting(db) \subseteq Time /\ Unsent(db) \subseteq Nat
  BY <1>1, DeadlinesAreEarly
<1>3. next = Soonest({deadline, sending}) BY DEF NextAlarm
<1> HIDE DEF deadline, sending
<1>4. {deadline, sending} \in SUBSET Time BY <1>1, <1>2
<1>5. next \in Time /\ Early(next, {deadline, sending}) BY <1>3, <1>4, SoonestIsEarly
<1>6. /\ deadline # Never => next # Never /\ next <= deadline
      /\ sending # Never => next # Never /\ next <= sending
  BY <1>5 DEF Early
<1>7. Pending(db) # {} => sending # Never
  <2> SUFFICES ASSUME NEW q \in Pending(db) PROVE sending # Never OBVIOUS
  <2>1. db.outbox[q].due \in Unsent(db) /\ db.outbox[q].due # Never BY DEF Unsent, Pending
  <2> QED BY <1>2, <2>1 DEF Early
<1>8. ASSUME HasRead(r), run[r].rows = Nothing PROVE Early(next, Waiting(db) \cup Unsent(db))
  <2>1. CASE Early(deadline, Waiting(db))
    <3> SUFFICES ASSUME NEW d \in Waiting(db) \cup Unsent(db), d # Never
                 PROVE  next # Never /\ next <= d
      BY DEF Early
    <3>1. CASE d \in Waiting(db)
      <4>1. deadline # Never /\ deadline <= d BY <2>1, <3>1 DEF Early
      <4>2. d \in Nat /\ deadline \in Nat BY <1>1, <1>2, <3>1, <4>1 DEF Time
      <4> QED BY <1>5, <1>6, <4>1, <4>2 DEF Time, Never
    <3>2. CASE d \in Unsent(db)
      <4>1. sending # Never /\ sending <= d BY <1>2, <3>2 DEF Early
      <4>2. d \in Nat /\ sending \in Nat BY <1>2, <3>2, <4>1 DEF Time
      <4> QED BY <1>5, <1>6, <4>1, <4>2 DEF Time, Never
    <3> QED BY <3>1, <3>2
  <2>2. ASSUME NEW q \in Pending(db), db.outbox[q].due = 0
        PROVE  Early(next, Waiting(db) \cup Unsent(db))
    <3>1. 0 \in Unsent(db) BY <2>2 DEF Unsent
    <3>2. 0 # Never BY DEF Never
    <3>3. sending # Never /\ sending <= 0 BY <1>2, <3>1, <3>2 DEF Early
    <3>4. next = 0 BY <1>2, <1>5, <1>6, <3>3 DEF Time, Never
    <3>5. Waiting(db) \cup Unsent(db) \in SUBSET Time BY <1>2 DEF Time
    <3> QED BY <3>4, <3>5, EarlyAtOnce
  <2> QED BY <1>8, <2>1, <2>2 DEF HasRead, deadline
<1> QED BY <1>5, <1>6, <1>7, <1>8 DEF deadline

LEMMA FinishSlot ==
  ASSUME Types, Holds, SlotInvariant, NEW r \in Run, Finish(r)
  PROVE  SlotInvariant'
<1> DEFINE next == NextAlarm(run[r].deadline, db)
<1>1. /\ run[r].pc = "draining" /\ run[r].rows = Nothing
      /\ alarm' = IF next = Never THEN alarm ELSE next
      /\ run' = [run EXCEPT ![r] = Idle] /\ interrupted' = interrupted \ {"crash"}
      /\ UNCHANGED <<db, arming>>
  BY DEF Finish
<1>2. /\ next \in Time
      /\ run[r].deadline # Never => next # Never
      /\ Pending(db) # {} => next # Never
      /\ HasRead(r) => Early(next, Waiting(db) \cup Unsent(db))
  BY <1>1, NextCovers
<1> HIDE DEF next
<1>3. run'[r] = Idle /\ \A s \in Run \ {r} : run'[s] = run[s] BY <1>1 DEF Types
<1>4. run[r] # Idle BY <1>1 DEF Idle
<1>5. "overlap" \notin interrupted' => "overlap" \notin interrupted BY <1>1
<1>6. "overlap" \notin interrupted' => \A s \in Run : run'[s] = Idle
  BY <1>3, <1>4, <1>5 DEF Lone, SlotInvariant
<1>7. DOMAIN Idle.rows = {} BY NothingHeld DEF Idle
<1>8. Unwritten'
  <2>1. \A q \in Row : Untouched(q) => Untouched(q)' BY <1>1, <1>3, <1>7 DEF Untouched
  <2>2. Confirmation \in Row /\ \A e \in Event : e \in Row BY DEF Row
  <2> QED BY <1>1, <2>1, <2>2 DEF Unwritten, SlotInvariant
<1>9. "alarm" \in Run BY NamesAssumption
<1>10. Lone' BY <1>6, <1>9 DEF Lone
<1>11. Covered' BY <1>6 DEF Covered, Idle
<1>12. AtRest'
  <2> SUFFICES ASSUME "overlap" \notin interrupted'
               PROVE  Early(alarm', Waiting(db) \cup Unsent(db))
    BY <1>1 DEF AtRest
  <2>1. HasRead(r) BY <1>1, <1>5 DEF Covered, SlotInvariant
  <2> QED BY <1>1, <1>2, <2>1 DEF Early
<1>13. Attended'
  <2> SUFFICES ASSUME Set(Waiting(db)), ~arming, alarm' = Never
               PROVE  \E s \in Run : Attends(s)'
    BY <1>1 DEF Attended
  <2>1. next = Never /\ alarm = Never BY <1>1
  <2>2. PICK s \in Run : Attends(s) BY <1>4, <2>1 DEF Attended, SlotInvariant
  <2>3. ~Attends(r) BY <1>1, <1>2, <2>1 DEF Attends
  <2>4. s # r BY <2>2, <2>3
  <2> QED BY <1>3, <2>2, <2>4 DEF Attends
<1>14. RowsAttended' BY <1>1, <1>2 DEF RowsAttended
<1> QED BY <1>8, <1>10, <1>11, <1>12, <1>13, <1>14 DEF SlotInvariant

LEMMA CrashSlot ==
  ASSUME Types, Holds, SlotInvariant, Crash
  PROVE  SlotInvariant'
<1>1. /\ \A r \in Run : run'[r] = Idle
      /\ ~arming' /\ UNCHANGED db
      /\ alarm' = IF run["alarm"] # Idle /\ alarm = Never THEN 0 ELSE alarm
      /\ arming \/ \E r \in Run : run[r] # Idle
      /\ interrupted' = IF arming \/ \E r \in Run \ {"alarm"} : run[r] # Idle
                        THEN interrupted \cup {"crash"} ELSE interrupted
  BY DEF Crash
<1>2. "alarm" \in Run BY NamesAssumption
<1>3. DOMAIN Idle.rows = {} BY NothingHeld DEF Idle
<1>4. Unwritten'
  <2>1. \A q \in Row : Untouched(q) => Untouched(q)' BY <1>1, <1>3 DEF Untouched
  <2>2. Confirmation \in Row /\ \A e \in Event : e \in Row BY DEF Row
  <2> QED BY <1>1, <2>1, <2>2 DEF Unwritten, SlotInvariant
<1>5. Lone' /\ Covered' BY <1>1, <1>2 DEF Lone, Covered, Idle
<1>6. "crash" \notin interrupted' => run["alarm"] # Idle /\ alarm' # Never /\ interrupted' = interrupted
  BY <1>1 DEF Never
<1>7. AtRest'
  <2> SUFFICES ASSUME interrupted' = {} PROVE Early(alarm', Waiting(db) \cup Unsent(db))
    BY <1>1 DEF AtRest
  <2>1. run["alarm"] # Idle /\ interrupted = {} BY <1>6
  <2>2. alarm \in {Never, 0} BY <2>1 DEF Lone, SlotInvariant
  <2>3. alarm' = 0 BY <1>1, <2>1, <2>2
  <2>4. Waiting(db) \cup Unsent(db) \in SUBSET Time BY DeadlinesAreEarly DEF Types, Time
  <2> QED BY <2>3, <2>4, EarlyAtOnce
<1>8. Attended' BY <1>1, <1>6 DEF Attended
<1>9. RowsAttended' BY <1>6 DEF RowsAttended
<1> QED BY <1>4, <1>5, <1>7, <1>8, <1>9 DEF SlotInvariant

LEMMA TickSlot ==
  ASSUME Types, Holds, SlotInvariant, Tick
  PROVE  SlotInvariant'
<1>1. /\ db' \in DbType
      /\ db' = [db EXCEPT !.life = db'.life, !.discovery = db'.discovery, !.outbox = db'.outbox]
      /\ \A e \in Event : /\ db'.life[e].phase = db.life[e].phase
                          /\ db'.life[e].due = Later(db.life[e].due)
      /\ db'.discovery.due = Later(db.discovery.due)
      /\ \A row \in Row : db'.outbox[row].due = Later(db.outbox[row].due)
      /\ ~arming /\ \A r \in Run : run[r] = Idle
      /\ alarm' = Later(alarm)
  BY TickIs
<1>2. /\ db'.season = db.season /\ db'.canonical = db.canonical /\ db'.confirmed = db.confirmed
      /\ UNCHANGED <<arming, interrupted, run>>
  BY <1>1 DEF Types, DbType, Tick
<1>3. /\ \A e \in Event : db.life[e].due \in Time
      /\ \A row \in Row : db.outbox[row].due \in Time
      /\ db.discovery.due \in Time /\ alarm \in Time
  BY DEF Types, DbType, LifeType, SentType
<1>4. \A t \in Time : (Later(t) = Never <=> t = Never) BY LaterTime
<1>5. Watched(db') = Watched(db) BY <1>1 DEF Watched
<1>6. Seeking(db') <=> Seeking(db) BY <1>1, <1>2, <1>3, <1>4 DEF Seeking
<1>7. Pending(db') = Pending(db) BY <1>1, <1>3, <1>4 DEF Pending
<1>8. \A d \in Waiting(db') : \E t \in Waiting(db) : t \in Time /\ d = Later(t)
  <2> SUFFICES ASSUME NEW d \in Waiting(db')
               PROVE  \E t \in Waiting(db) : t \in Time /\ d = Later(t)
    OBVIOUS
  <2>1. CASE d \in {db'.life[e].due : e \in Watched(db')}
    <3>1. PICK e \in Watched(db) : d = db'.life[e].due BY <1>5, <2>1
    <3>2. e \in Event BY DEF Watched
    <3> QED BY <1>1, <1>3, <3>1, <3>2 DEF Waiting
  <2>2. CASE Seeking(db') /\ d = db'.discovery.due
    BY <1>1, <1>3, <1>6, <2>2 DEF Waiting
  <2> QED BY <2>1, <2>2 DEF Waiting
<1>9. \A d \in Unsent(db') : \E t \in Unsent(db) : t \in Time /\ d = Later(t)
  <2> SUFFICES ASSUME NEW d \in Unsent(db')
               PROVE  \E t \in Unsent(db) : t \in Time /\ d = Later(t)
    OBVIOUS
  <2>1. PICK q \in Pending(db) : d = db'.outbox[q].due BY <1>7 DEF Unsent
  <2>2. q \in Row BY DEF Pending
  <2> QED BY <1>1, <1>3, <2>1, <2>2 DEF Unsent
<1>10. Quiet' <=> Quiet BY <1>2 DEF Quiet
<1>11. AtRest'
  <2> SUFFICES ASSUME Quiet, interrupted = {}, NEW d \in Waiting(db') \cup Unsent(db'), d # Never
               PROVE  alarm' # Never /\ alarm' <= d
    BY <1>2, <1>10 DEF AtRest, Early
  <2>1. PICK t \in Waiting(db) \cup Unsent(db) : t \in Time /\ d = Later(t) BY <1>8, <1>9
  <2>2. t # Never BY <1>4, <2>1
  <2>3. alarm # Never /\ alarm <= t BY <2>1, <2>2 DEF SlotInvariant, AtRest, Early
  <2> QED BY <1>1, <1>3, <2>1, <2>3, LaterTime
<1>12. Set(Waiting(db')) => Set(Waiting(db)) BY <1>4, <1>8 DEF Set
<1>13. alarm # Never => alarm' # Never BY <1>1, <1>3, <1>4
<1>14. \A r \in Run : ~Attends(r) BY <1>1 DEF Attends, Idle
<1>15. Attended' BY <1>1, <1>2, <1>12, <1>13, <1>14 DEF Attended, SlotInvariant
<1>16. RowsAttended' BY <1>2, <1>7, <1>10, <1>13 DEF RowsAttended, SlotInvariant
<1>17. \A q \in Row : Untouched(q) => Untouched(q)' BY <1>1, <1>2, <1>3, <1>4 DEF Untouched
<1>18. Confirmation \in Row /\ \A e \in Event : e \in Row BY DEF Row
<1>19. Unwritten' BY <1>1, <1>2, <1>17, <1>18 DEF Unwritten, SlotInvariant
<1>20. "alarm" \in Run BY NamesAssumption
<1>21. Lone' /\ Covered' BY <1>1, <1>2, <1>20 DEF Lone, Covered, Idle
<1> QED BY <1>11, <1>15, <1>16, <1>19, <1>21 DEF SlotInvariant

LEMMA SlotStep == Types /\ Holds /\ SlotInvariant /\ [Next]_vars => SlotInvariant'
<1> SUFFICES ASSUME Types, Holds, SlotInvariant, [Next]_vars PROVE SlotInvariant' OBVIOUS
<1>1. CASE UNCHANGED <<db, alarm, arming, interrupted, run>>
  BY <1>1 DEF SlotInvariant, Unwritten, Untouched, Lone, Covered, HasRead, AtRest, Quiet,
              Attended, Attends, RowsAttended
<1>2. CASE UNCHANGED vars BY <1>1, <1>2 DEF vars
<1>3. CASE Announce \/ \E e \in Event : Publish(e) BY <1>1, <1>3 DEF Announce, Publish
<1>4. ASSUME NEW r \in Run, RunStep(r) PROVE SlotInvariant'
  BY <1>4, DiscoverySlot, QuerySlot, AnswerSlot, SendSlot, FinishSlot DEF RunStep
<1> QED BY <1>2, <1>3, <1>4, CommandSlot, ArmSlot, StartSlot, CrashSlot, TickSlot DEF Next

LEMMA InvariantAlways == Spec => [](Types /\ Holds /\ Kept /\ Taken /\ SlotInvariant)
<1>1. Init => Types /\ Holds /\ Kept /\ Taken /\ SlotInvariant BY InitTypes, InitSlot
<1>2. (Types /\ Holds /\ Kept /\ Taken /\ SlotInvariant) /\ [Next]_vars
        => (Types /\ Holds /\ Kept /\ Taken /\ SlotInvariant)'
  BY TypesStep, KeptStep, TakenStep, SlotStep
<1> QED BY <1>1, <1>2, PTL DEF Spec

\* What the invariant says of the object at rest.
LEMMA RestIsCovered == Types /\ SlotInvariant => AlarmCovers /\ NeverForgotten
<1> SUFFICES ASSUME Types, SlotInvariant PROVE AlarmCovers /\ NeverForgotten OBVIOUS
<1> DEFINE settling == SettlementDeadline(db)
           sending  == NextOutboxAttempt(db)
<1>1. /\ settling \in Time /\ sending \in Time
      /\ settling # Never => settling \in Waiting(db)
      /\ sending # Never => sending \in Unsent(db)
  BY DeadlinesAreEarly DEF Types
<1>2. AlarmCovers
  <2> SUFFICES ASSUME Quiet, interrupted = {}, Soonest({settling, sending}) # Never
               PROVE  alarm # Never /\ alarm <= Soonest({settling, sending})
    BY DEF AlarmCovers
  <2> HIDE DEF settling, sending
  <2>1. Soonest({settling, sending}) \in {settling, sending} BY <1>1, SoonestIsEarly
  <2>2. Soonest({settling, sending}) \in Waiting(db) \cup Unsent(db) BY <1>1, <2>1
  <2> QED BY <2>2 DEF SlotInvariant, AtRest, Early
<1>3. NeverForgotten
  <2> SUFFICES ASSUME Quiet, "crash" \notin interrupted, alarm = Never
               PROVE  settling = Never /\ sending = Never
    BY DEF NeverForgotten
  <2> HIDE DEF settling, sending
  <2>1. ~Set(Waiting(db))
    <3>1. \A r \in Run : ~Attends(r) BY DEF Quiet, Attends, Idle
    <3> QED BY <3>1 DEF Quiet, Attended, SlotInvariant
  <2>2. Pending(db) = {} BY DEF RowsAttended, SlotInvariant
  <2>3. Unsent(db) = {} BY <2>2 DEF Unsent
  <2> QED BY <1>1, <2>1, <2>3 DEF Set
<1> QED BY <1>2, <1>3

\* At rest the one alarm of the object covers every reconciliation, discovery and queue
\* retry, and the object never rests with work and no alarm; an accepted event is watched
\* to its last look (alarm.ts:36-80, pool-do.ts:139-160, outbox.ts).
THEOREM AlarmKept == Spec => []AlarmIsKept
<1>1. Kept => WatchedToTheEnd BY DEF Kept, WatchedToTheEnd
<1>2. Types /\ Kept /\ SlotInvariant => AlarmIsKept BY <1>1, RestIsCovered DEF AlarmIsKept
<1> QED BY <1>2, InvariantAlways, PTL
=============================================================================
