---------------------- MODULE DirectoryProjectionProofs ----------------------
(***************************************************************************)
(* Proofs about DirectoryProjection: however many drains and consumers     *)
(* overlap, fail, and are restarted, and in whatever order the queue       *)
(* delivers, the directory accounts for every message and shows one moment *)
(* of the pool that never goes back: DirectoryProjection implements        *)
(* Directory.                                                              *)
(*                                                                         *)
(* The argument: an event keeps the version it was committed with; what a  *)
(* consumer has decided about it stays true, because projection_state only *)
(* grows and a snapshot is read after the commit; and only a message in    *)
(* the queue's hands, or dealt with, lets a drain mark its row.            *)
(*                                                                         *)
(* Then about PoolRegistry: reservations, objects and answers agree; and   *)
(* about SettlementMonitor: the operators are told only what is so.        *)
(***************************************************************************)
EXTENDS DirectoryProjection, PoolRegistry, SettlementMonitor, SequenceTheorems, FiniteSetTheorems,
        WellFoundedInduction, TLAPS

(* The inductive invariant *)

OutboxRow == [version : 1..MaxVersion, attempts : 0..MaxAttempts + 1, delivered : BOOLEAN]
DueRow    == [event : Event, attempts : 0..MaxAttempts - 1]
Run       == [pc : {"idle", "record", "send", "mark"}, rows : Seq(DueRow)]
Queue     == [held : SUBSET Event, dropped : SUBSET Event, retries : [Event -> 0..MaxRetries]]
Database  == [state : 0..MaxVersion, rows : [Table -> 0..MaxVersion],
              delivery : [Event -> {"none", "queued", "delivered"}]]
Consume   == [pc : {"idle", "known", "state", "outdated", "read", "persist", "ack"},
              event : 0..MaxEvents, snapshot : 0..MaxVersion]

\* Rows of the outbox were committed at versions the pool has reached, and one that is
\* not delivered has failed at most as often as it may.
RowsAreCommitted(v, o) ==
  \A e \in 1..Len(o) :
    /\ o[e].version <= v
    /\ ~o[e].delivered => o[e].attempts <= MaxAttempts

\* What the queue and the delivery table speak of has been committed.
EventsAreCommitted(o, q, b) ==
  /\ \A e \in q.held : e \in 1..Len(o)
  /\ \A e \in Event : b.delivery[e] # "none" => e \in 1..Len(o)

\* The queue has the message of e, or is done with it.
Handled(q, b, e) == e \in q.held \cup q.dropped \/ b.delivery[e] = "delivered"

OutboxIsHandled(o, q, b) ==
  \A e \in 1..Len(o) : o[e].delivered => Handled(q, b, e)

\* The directory shows one moment, and what was delivered is not after it.
DirectoryIsSound(o, b) ==
  /\ b.rows = Snapshot(b.state)
  /\ \A e \in 1..Len(o) : b.delivery[e] = "delivered" => o[e].version <= b.state

\* The pool's version v and outbox o, the queue q and the database b agree.
World(v, o, q, b) ==
  /\ v \in 0..MaxVersion /\ o \in Seq(OutboxRow) /\ Len(o) <= MaxEvents
  /\ q \in Queue /\ b \in Database
  /\ RowsAreCommitted(v, o) /\ EventsAreCommitted(o, q, b)
  /\ OutboxIsHandled(o, q, b) /\ DirectoryIsSound(o, b)

\* A run at work has rows to deal with; it marks none before the queue has its message.
RunIsSound(r, o, q, b) ==
  r.pc # "idle" =>
    /\ r.rows # <<>>
    /\ \A i \in 1..Len(r.rows) : r.rows[i].event \in 1..Len(o)
    /\ r.pc = "mark" => Handled(q, b, r.rows[1].event)

\* What a consumer has found out about its event stays true.
JobIsSound(j, v, o, b) ==
  j.pc # "idle" =>
    /\ j.event \in 1..Len(o)
    /\ j.snapshot <= v
    /\ j.pc = "outdated" => o[j.event].version <= b.state
    /\ j.pc = "persist"  => o[j.event].version <= j.snapshot
    /\ j.pc = "ack"      => b.delivery[j.event] = "delivered"

Inv ==
  /\ World(version, outbox, queue, d1)
  /\ drain \in [Drain -> Run] /\ job \in [Consumer -> Consume]
  /\ \A d \in Drain : RunIsSound(drain[d], outbox, queue, d1)
  /\ \A c \in Consumer : JobIsSound(job[c], version, outbox, d1)

-----------------------------------------------------------------------------
(* Lemmas: what a step leaves alone *)

\* Versions of events stay, the state grows, and what is delivered or handled stays so.
Grows ==
  /\ version <= version'
  /\ Len(outbox) <= Len(outbox')
  /\ \A e \in 1..Len(outbox) : outbox'[e].version = outbox[e].version
  /\ d1.state <= d1'.state
  /\ \A e \in 1..Len(outbox) :
       /\ d1.delivery[e] = "delivered" => d1'.delivery[e] = "delivered"
       /\ Handled(queue, d1, e) => Handled(queue', d1', e)

LEMMA Sizes ==
  /\ MaxAttempts \in Nat /\ MaxAttempts # 0 /\ MaxRetries \in Nat
  /\ MaxVersion \in Nat /\ MaxEvents \in Nat
BY BoundsAssumption

\* The outbox's events, and their rows.
LEMMA WorldParts ==
  ASSUME NEW v, NEW o, NEW q, NEW b, World(v, o, q, b)
  PROVE  /\ v \in Nat /\ Len(o) \in Nat /\ o \in [1..Len(o) -> OutboxRow]
         /\ b.state \in 0..MaxVersion /\ b.state \in Nat
         /\ b.delivery \in [Event -> {"none", "queued", "delivered"}]
         /\ \A e \in 1..Len(o) : /\ e \in Event /\ o[e] \in OutboxRow
                                 /\ o[e].version \in Nat /\ o[e].attempts \in Nat
<1>1. v \in Nat /\ Len(o) \in Nat /\ o \in [1..Len(o) -> OutboxRow]
  BY Sizes, LenProperties DEF World
<1>2. b.state \in 0..MaxVersion /\ b.delivery \in [Event -> {"none", "queued", "delivered"}]
  BY DEF World, Database
<1>3. ASSUME NEW e \in 1..Len(o)
      PROVE  /\ e \in Event /\ o[e] \in OutboxRow
             /\ o[e].version \in Nat /\ o[e].attempts \in Nat
  <2>1. e \in Event BY <1>1, Sizes DEF World, Event
  <2>2. o[e] \in OutboxRow BY <1>1
  <2> QED BY <2>1, <2>2, Sizes DEF OutboxRow
<1> QED BY <1>1, <1>2, <1>3, Sizes

\* A run and a consumer that do nothing stay sound.
LEMMA RunStays ==
  ASSUME Inv, Grows, NEW r \in Run, RunIsSound(r, outbox, queue, d1)
  PROVE  RunIsSound(r, outbox', queue', d1')
<1>1. CASE r.pc = "idle" BY <1>1 DEF RunIsSound
<1>2. CASE r.pc # "idle"
  <2>1. Len(outbox) \in Nat /\ r.rows \in Seq(DueRow) BY WorldParts DEF Inv, Run
  <2>2. 1 \in 1..Len(r.rows) BY <1>2, <2>1, EmptySeq, LenProperties DEF RunIsSound
  <2> QED BY <1>2, <2>1, <2>2 DEF RunIsSound, Grows
<1> QED BY <1>1, <1>2

LEMMA JobStays ==
  ASSUME Inv, Grows, World(version', outbox', queue', d1'),
         NEW j \in Consume, JobIsSound(j, version, outbox, d1)
  PROVE  JobIsSound(j, version', outbox', d1')
<1>1. CASE j.pc = "idle" BY <1>1 DEF JobIsSound
<1>2. CASE j.pc # "idle"
  <2>1. /\ Len(outbox) \in Nat /\ Len(outbox') \in Nat /\ version \in Nat /\ version' \in Nat
        /\ d1.state \in Nat /\ d1'.state \in Nat /\ j.snapshot \in Nat
    BY WorldParts, Sizes DEF Inv, Consume
  <2>2. j.event \in 1..Len(outbox) /\ outbox[j.event].version \in Nat
    BY <1>2, WorldParts DEF JobIsSound, Inv
  <2> QED BY <1>2, <2>1, <2>2 DEF JobIsSound, Grows
<1> QED BY <1>1, <1>2

\* A step keeps the invariant when the world it leaves agrees, and those who moved
\* are sound in it.
LEMMA Keeps ==
  ASSUME Inv, Grows, World(version', outbox', queue', d1'),
         drain' \in [Drain -> Run], job' \in [Consumer -> Consume],
         \A d \in Drain : \/ drain'[d] = drain[d]
                          \/ RunIsSound(drain'[d], outbox', queue', d1'),
         \A c \in Consumer : \/ job'[c] = job[c]
                             \/ JobIsSound(job'[c], version', outbox', d1')
  PROVE  Inv'
<1>1. ASSUME NEW d \in Drain PROVE RunIsSound(drain'[d], outbox', queue', d1')
  <2>1. drain[d] \in Run /\ RunIsSound(drain[d], outbox, queue, d1) BY DEF Inv
  <2> QED BY <2>1, RunStays
<1>2. ASSUME NEW c \in Consumer PROVE JobIsSound(job'[c], version', outbox', d1')
  <2>1. job[c] \in Consume /\ JobIsSound(job[c], version, outbox, d1) BY DEF Inv
  <2> QED BY <2>1, JobStays
<1> QED BY <1>1, <1>2 DEF Inv

\* A run that moves in a world that agrees.
LEMMA RunMoves ==
  ASSUME Inv, Grows, World(version', outbox', queue', d1'), UNCHANGED job,
         NEW d \in Drain, NEW r \in Run, drain' = [drain EXCEPT ![d] = r],
         RunIsSound(r, outbox', queue', d1')
  PROVE  Inv'
<1>1. drain \in [Drain -> Run] /\ job \in [Consumer -> Consume] BY DEF Inv
<1>2. /\ drain' \in [Drain -> Run]
      /\ \A e \in Drain : drain'[e] = IF e = d THEN r ELSE drain[e]
  BY <1>1
<1> QED BY <1>1, <1>2, Keeps

\* A consumer that moves in a world that agrees.
LEMMA JobMoves ==
  ASSUME Inv, Grows, World(version', outbox', queue', d1'), UNCHANGED drain,
         NEW c \in Consumer, NEW j \in Consume, job' = [job EXCEPT ![c] = j],
         JobIsSound(j, version', outbox', d1')
  PROVE  Inv'
<1>1. drain \in [Drain -> Run] /\ job \in [Consumer -> Consume] BY DEF Inv
<1>2. /\ job' \in [Consumer -> Consume]
      /\ \A e \in Consumer : job'[e] = IF e = c THEN j ELSE job[e]
  BY <1>1
<1> QED BY <1>1, <1>2, Keeps

\* Nothing but an actor moves.
LEMMA WorldStays ==
  ASSUME Inv, UNCHANGED <<version, outbox, queue, d1>>
  PROVE  Grows /\ World(version', outbox', queue', d1')
<1>1. /\ World(version, outbox, queue, d1) /\ version \in Nat /\ Len(outbox) \in Nat
      /\ d1.state \in Nat
  BY WorldParts DEF Inv
<1> QED BY <1>1 DEF Grows

-----------------------------------------------------------------------------
(* Lemmas: what the parts of the world may become *)

\* The queue takes a message.
Accepted(q, e) == [held    |-> q.held \cup {e},
                   dropped |-> q.dropped \ {e},
                   retries |-> [q.retries EXCEPT ![e] = 0]]

LEMMA QueueAccepts ==
  ASSUME NEW v, NEW o, NEW q, NEW b, World(v, o, q, b), NEW e \in 1..Len(o)
  PROVE  /\ World(v, o, Accepted(q, e), b)
         /\ \A f \in 1..Len(o) : Handled(q, b, f) => Handled(Accepted(q, e), b, f)
         /\ Handled(Accepted(q, e), b, e)
<1> DEFINE r == Accepted(q, e)
<1>1. e \in Event /\ q \in Queue BY WorldParts DEF World
<1>2. 0 \in 0..MaxRetries BY Sizes
<1>3. r \in Queue BY <1>1, <1>2 DEF Queue, Accepted
<1>4. r.held = q.held \cup {e} /\ r.dropped = q.dropped \ {e} BY DEF Accepted
<1> HIDE DEF r
<1>5. \A f : Handled(q, b, f) => Handled(r, b, f) BY <1>4 DEF Handled
<1>6. Handled(r, b, e) BY <1>4 DEF Handled
<1>7. EventsAreCommitted(o, r, b) BY <1>4 DEF World, EventsAreCommitted
<1>8. OutboxIsHandled(o, r, b) BY <1>5 DEF World, OutboxIsHandled
<1> QED BY <1>3, <1>5, <1>6, <1>7, <1>8 DEF World, r

Rewritten(o, e, s) == [o EXCEPT ![e] = s]

\* The object rewrites a row: its event keeps its version, and its message is the
\* queue's before the row says so.
LEMMA OutboxMarks ==
  ASSUME NEW v, NEW o, NEW q, NEW b, World(v, o, q, b), NEW e \in 1..Len(o),
         NEW s \in OutboxRow, s.version = o[e].version,
         ~s.delivered => s.attempts <= MaxAttempts,
         s.delivered => Handled(q, b, e)
  PROVE  /\ World(v, Rewritten(o, e, s), q, b)
         /\ Len(Rewritten(o, e, s)) = Len(o)
         /\ \A f \in 1..Len(o) : Rewritten(o, e, s)[f].version = o[f].version
<1> DEFINE p == Rewritten(o, e, s)
<1>1. /\ p \in Seq(OutboxRow) /\ Len(p) = Len(o)
      /\ \A f \in 1..Len(o) : p[f] = IF f = e THEN s ELSE o[f]
  BY ExceptSeq DEF World, Rewritten
<1> HIDE DEF p
<1>2. \A f \in 1..Len(o) : p[f].version = o[f].version BY <1>1
<1>3. RowsAreCommitted(v, p) BY <1>1, <1>2 DEF World, RowsAreCommitted
<1>4. EventsAreCommitted(p, q, b) BY <1>1 DEF World, EventsAreCommitted
<1>5. OutboxIsHandled(p, q, b) BY <1>1 DEF World, OutboxIsHandled
<1>6. DirectoryIsSound(p, b) BY <1>1, <1>2 DEF World, DirectoryIsSound
<1>7. World(v, p, q, b) BY <1>1, <1>3, <1>4, <1>5, <1>6 DEF World
<1> QED BY <1>1, <1>2, <1>7 DEF p

\* A message is tracked in D1.
LEMMA DeliveryTracked ==
  ASSUME NEW v, NEW o, NEW q, NEW b, World(v, o, q, b), NEW e \in 1..Len(o)
  PROVE  LET a == [b EXCEPT !.delivery = Tracked(b.delivery, e)]
         IN  /\ World(v, o, q, a) /\ a.state = b.state
             /\ \A f \in 1..Len(o) :
                  /\ b.delivery[f] = "delivered" => a.delivery[f] = "delivered"
                  /\ Handled(q, b, f) => Handled(q, a, f)
<1> DEFINE t == Tracked(b.delivery, e)
           a == [b EXCEPT !.delivery = t]
<1>1. e \in Event /\ b.delivery \in [Event -> {"none", "queued", "delivered"}] /\ b \in Database
  BY WorldParts DEF World
<1>2. /\ t \in [Event -> {"none", "queued", "delivered"}]
      /\ \A f \in Event : /\ (b.delivery[f] = "delivered" <=> t[f] = "delivered")
                          /\ t[f] # "none" => b.delivery[f] # "none" \/ f = e
  BY <1>1 DEF Tracked
<1> HIDE DEF t
<1>3. a \in Database BY <1>1, <1>2 DEF Database
<1>4. a.state = b.state /\ a.rows = b.rows /\ a.delivery = t BY <1>1 DEF Database
<1> HIDE DEF a
<1>5. \A f \in 1..Len(o) : f \in Event BY WorldParts
<1>6. \A f \in 1..Len(o) : Handled(q, b, f) => Handled(q, a, f)
  BY <1>2, <1>4, <1>5 DEF Handled
<1>7. EventsAreCommitted(o, q, a) BY <1>2, <1>4 DEF World, EventsAreCommitted
<1>8. OutboxIsHandled(o, q, a) BY <1>6 DEF World, OutboxIsHandled
<1>9. DirectoryIsSound(o, a) BY <1>2, <1>4, <1>5 DEF World, DirectoryIsSound
<1>10. World(v, o, q, a) BY <1>3, <1>7, <1>8, <1>9 DEF World
<1> QED BY <1>2, <1>4, <1>5, <1>6, <1>10 DEF a, t

\* A delivery is recorded as made once the directory's state is the event's or later.
LEMMA DeliveryMade ==
  ASSUME NEW v, NEW o, NEW q, NEW b, World(v, o, q, b), NEW e \in 1..Len(o),
         o[e].version <= b.state
  PROVE  LET a == [b EXCEPT !.delivery = Delivered(b.delivery, e)]
         IN  /\ World(v, o, q, a) /\ a.state = b.state /\ a.rows = b.rows
             /\ a.delivery[e] = "delivered"
             /\ \A f \in 1..Len(o) :
                  /\ b.delivery[f] = "delivered" => a.delivery[f] = "delivered"
                  /\ Handled(q, b, f) => Handled(q, a, f)
<1> DEFINE t == Delivered(b.delivery, e)
           a == [b EXCEPT !.delivery = t]
<1>1. e \in Event /\ b.delivery \in [Event -> {"none", "queued", "delivered"}] /\ b \in Database
  BY WorldParts DEF World
<1>2. /\ t \in [Event -> {"none", "queued", "delivered"}]
      /\ \A f \in Event : t[f] = IF f = e THEN "delivered" ELSE b.delivery[f]
  BY <1>1 DEF Delivered
<1> HIDE DEF t
<1>3. a \in Database BY <1>1, <1>2 DEF Database
<1>4. a.state = b.state /\ a.rows = b.rows /\ a.delivery = t BY <1>1 DEF Database
<1> HIDE DEF a
<1>5. \A f \in 1..Len(o) : f \in Event BY WorldParts
<1>6. \A f \in 1..Len(o) : Handled(q, b, f) => Handled(q, a, f)
  BY <1>2, <1>4, <1>5 DEF Handled
<1>7. EventsAreCommitted(o, q, a) BY <1>2, <1>4 DEF World, EventsAreCommitted
<1>8. OutboxIsHandled(o, q, a) BY <1>6 DEF World, OutboxIsHandled
<1>9. DirectoryIsSound(o, a) BY <1>2, <1>4, <1>5 DEF World, DirectoryIsSound
<1>10. World(v, o, q, a) BY <1>3, <1>7, <1>8, <1>9 DEF World
<1> QED BY <1>1, <1>2, <1>4, <1>5, <1>6, <1>10 DEF a, t

\* A snapshot leaves the directory with the rows of the newer of the two versions.
LEMMA RowsReplaced ==
  ASSUME NEW v, NEW o, NEW q, NEW b, World(v, o, q, b), NEW n \in 0..MaxVersion
  PROVE  LET a == Replaced(b, n)
         IN  /\ World(v, o, q, a) /\ a.delivery = b.delivery
             /\ b.state <= a.state /\ n <= a.state
             /\ a.rows = b.rows \/ (b.state < n /\ a.rows = Snapshot(n))
<1> DEFINE a == Replaced(b, n)
           s == IF n > b.state THEN n ELSE b.state
           w == IF s = n THEN Snapshot(n) ELSE b.rows
<1>1. b \in Database /\ b.state \in 0..MaxVersion /\ n \in Nat /\ b.state \in Nat
      /\ b.rows = Snapshot(b.state)
  BY WorldParts, Sizes DEF World, DirectoryIsSound
<1>2. s \in 0..MaxVersion /\ b.state <= s /\ n <= s /\ w = Snapshot(s)
  BY <1>1
<1>3. w = b.rows \/ (b.state < n /\ w = Snapshot(n)) BY <1>1
<1>4. a = [b EXCEPT !.state = s, !.rows = w] BY <1>1 DEF Replaced, Database
<1>5. w \in [Table -> 0..MaxVersion] BY <1>2 DEF Snapshot
<1> HIDE DEF a, s, w
<1>6. a \in Database /\ a.state = s /\ a.rows = w /\ a.delivery = b.delivery
  BY <1>1, <1>2, <1>4, <1>5 DEF Database
<1>7. EventsAreCommitted(o, q, a) BY <1>6 DEF World, EventsAreCommitted
<1>8. OutboxIsHandled(o, q, a) BY <1>6 DEF World, OutboxIsHandled, Handled
<1>9. DirectoryIsSound(o, a)
  <2>1. s \in Nat /\ \A e \in 1..Len(o) : o[e].version \in Nat BY <1>2, WorldParts, Sizes
  <2> QED BY <1>1, <1>2, <1>6, <2>1 DEF World, DirectoryIsSound
<1>10. World(v, o, q, a) BY <1>6, <1>7, <1>8, <1>9 DEF World
<1> QED BY <1>2, <1>3, <1>6, <1>10 DEF a

-----------------------------------------------------------------------------
(* The object's steps *)

LEMMA CommandKeeps ==
  ASSUME Inv, Command
  PROVE  Inv'
<1>0. /\ World(version, outbox, queue, d1) /\ version \in Nat /\ Len(outbox) \in Nat
      /\ drain \in [Drain -> Run] /\ job \in [Consumer -> Consume]
  BY WorldParts DEF Inv
<1>1. PICK bump \in 0..1, n \in 0..2 :
        /\ version + bump <= MaxVersion /\ Len(outbox) + n <= MaxEvents
        /\ version = 0 => bump = 1
        /\ version' = version + bump
        /\ outbox' = outbox \o [i \in 1..n |->
             [version |-> version', attempts |-> 0, delivered |-> FALSE]]
        /\ UNCHANGED <<drain, queue, d1, job>>
  BY DEF Command
<1> DEFINE row == [version |-> version', attempts |-> 0, delivered |-> FALSE]
           new == [i \in 1..n |-> row]
<1>2. version' \in 1..MaxVersion /\ version <= version' BY <1>0, <1>1, Sizes
<1>3. row \in OutboxRow BY <1>2, Sizes DEF OutboxRow
<1>4. row.version = version' /\ row.attempts = 0 /\ ~row.delivered OBVIOUS
<1> HIDE DEF row
<1>5. new \in Seq(OutboxRow) BY <1>3
<1>6. Len(new) = n /\ \A i \in 1..n : new[i] = row BY <1>5
<1>7. outbox' = outbox \o new BY <1>1 DEF row
<1> HIDE DEF new
<1>8. /\ outbox' \in Seq(OutboxRow) /\ Len(outbox') = Len(outbox) + n
      /\ \A i \in 1..Len(outbox) + n :
           outbox'[i] = IF i <= Len(outbox) THEN outbox[i] ELSE new[i - Len(outbox)]
  BY <1>0, <1>5, <1>6, <1>7, ConcatProperties DEF World
<1>9. /\ \A e \in 1..Len(outbox) : e \in 1..Len(outbox') /\ outbox'[e] = outbox[e]
      /\ \A e \in 1..Len(outbox') : e \in 1..Len(outbox) \/ outbox'[e] = row
  BY <1>0, <1>1, <1>6, <1>8
<1>10. RowsAreCommitted(version', outbox')
  <2>1. RowsAreCommitted(version, outbox) BY <1>0 DEF World
  <2>2. version' \in Nat /\ MaxAttempts \in Nat BY <1>2, Sizes
  <2>3. ASSUME NEW e \in 1..Len(outbox')
        PROVE  /\ outbox'[e].version <= version'
               /\ ~outbox'[e].delivered => outbox'[e].attempts <= MaxAttempts
    <3>1. CASE e \in 1..Len(outbox)
      <4>1. outbox[e].version \in Nat /\ outbox'[e] = outbox[e] BY <1>0, <1>9, <3>1, WorldParts
      <4>2. /\ outbox[e].version <= version
            /\ ~outbox[e].delivered => outbox[e].attempts <= MaxAttempts
        BY <2>1, <3>1 DEF RowsAreCommitted
      <4> QED BY <1>0, <1>2, <2>2, <4>1, <4>2
    <3>2. CASE outbox'[e] = row BY <1>4, <2>2, <3>2
    <3> QED BY <1>9, <3>1, <3>2
  <2> QED BY <2>3 DEF RowsAreCommitted
<1>11. EventsAreCommitted(outbox', queue', d1')
  BY <1>0, <1>1, <1>9 DEF World, EventsAreCommitted
<1>12. OutboxIsHandled(outbox', queue', d1')
  BY <1>0, <1>1, <1>4, <1>9 DEF World, OutboxIsHandled
<1>13. DirectoryIsSound(outbox', d1')
  <2>1. \A e \in 1..Len(outbox') : e \in Event BY <1>0, <1>1, <1>8, Sizes DEF Event
  <2>2. \A e \in 1..Len(outbox') : d1.delivery[e] = "delivered" => e \in 1..Len(outbox)
    BY <1>0, <2>1 DEF World, EventsAreCommitted
  <2> QED BY <1>0, <1>1, <1>9, <2>2 DEF World, DirectoryIsSound
<1>14. World(version', outbox', queue', d1')
  <2>1. version' \in 0..MaxVersion BY <1>2, Sizes
  <2>2. Len(outbox') <= MaxEvents BY <1>1, <1>8
  <2> QED BY <1>0, <1>1, <1>8, <1>10, <1>11, <1>12, <1>13, <2>1, <2>2 DEF World
<1>15. Grows
  <2>1. d1.state \in Nat BY <1>0, WorldParts
  <2>2. Len(outbox) <= Len(outbox') BY <1>0, <1>1, <1>8
  <2> QED BY <1>1, <1>2, <1>9, <2>1, <2>2 DEF Grows
<1> QED BY <1>0, <1>1, <1>14, <1>15, Keeps

LEMMA StartDrainKeeps ==
  ASSUME Inv, NEW d \in Drain, NEW due \in SUBSET Event, StartDrain(d, due)
  PROVE  Inv'
<1>0. World(version, outbox, queue, d1) /\ Len(outbox) \in Nat BY WorldParts DEF Inv
<1>1. PICK order \in [1..Cardinality(due) -> due] :
        drain' = [drain EXCEPT ![d] =
          [pc |-> "record",
           rows |-> [i \in DOMAIN order |->
                       [event |-> order[i], attempts |-> outbox[order[i]].attempts]]]]
  BY DEF StartDrain
<1> DEFINE n == Cardinality(due)
           rows == [i \in 1..n |-> [event |-> order[i], attempts |-> outbox[order[i]].attempts]]
           r == [pc |-> "record", rows |-> rows]
<1>2. drain' = [drain EXCEPT ![d] = r] BY <1>1
<1>3. n \in Nat /\ n # 0
  <2>1. IsFiniteSet(Event) BY Sizes, FS_Interval DEF Event
  <2>2. IsFiniteSet(due) BY <2>1, FS_Subset
  <2>3. due # {} BY DEF StartDrain
  <2> QED BY <2>2, <2>3, FS_CardinalityType, FS_EmptySet
<1>4. \A e \in due : /\ e \in 1..Len(outbox) /\ e \in Event
                     /\ outbox[e].attempts \in 0..MaxAttempts - 1
  <2>1. \A e \in due : e \in 1..Len(outbox) /\ outbox[e].attempts < MaxAttempts
    <3>1. DOMAIN outbox = 1..Len(outbox) BY <1>0, LenProperties DEF World
    <3> QED BY <3>1 DEF StartDrain, Recoverable
  <2> QED BY <1>0, <2>1, WorldParts, Sizes
<1>5. \A i \in 1..n : order[i] \in due OBVIOUS
<1> HIDE DEF n
<1>6. /\ rows \in [1..n -> DueRow] /\ \A i \in 1..n : rows[i].event = order[i]
  BY <1>4, <1>5 DEF DueRow
<1> HIDE DEF rows
<1>7. rows \in Seq(DueRow) /\ Len(rows) = n BY <1>3, <1>6
<1>8. rows # <<>> BY <1>3, <1>7
<1>9. r \in Run /\ r.pc = "record" /\ r.rows = rows BY <1>7 DEF Run
<1> HIDE DEF r
<1>10. RunIsSound(r, outbox, queue, d1) BY <1>4, <1>5, <1>6, <1>7, <1>8, <1>9 DEF RunIsSound
<1>11. UNCHANGED <<version, outbox, queue, d1, job>> BY DEF StartDrain
<1> QED BY <1>2, <1>9, <1>10, <1>11, WorldStays, RunMoves

\* The row a run is at.
LEMMA CurrentRow ==
  ASSUME Inv, NEW d \in Drain, drain[d].pc # "idle"
  PROVE  /\ Current(d) = drain[d].rows[1] /\ Current(d) \in DueRow
         /\ Current(d).event \in 1..Len(outbox)
         /\ drain[d] \in Run /\ drain[d].rows \in Seq(DueRow) /\ drain[d].rows # <<>>
         /\ \A i \in 1..Len(drain[d].rows) : drain[d].rows[i].event \in 1..Len(outbox)
         /\ drain[d].pc = "mark" => Handled(queue, d1, Current(d).event)
<1>1. drain[d] \in Run /\ RunIsSound(drain[d], outbox, queue, d1) BY DEF Inv
<1>2. drain[d].rows \in Seq(DueRow) /\ drain[d].rows # <<>> BY <1>1 DEF Run, RunIsSound
<1>3. 1 \in 1..Len(drain[d].rows) BY <1>2, EmptySeq, LenProperties
<1>4. Current(d) = drain[d].rows[1] BY <1>2 DEF Current
<1>5. Current(d) \in DueRow BY <1>2, <1>3, <1>4, ElementOfSeq
<1> QED BY <1>1, <1>2, <1>3, <1>4, <1>5 DEF RunIsSound

\* A run goes on to its next row, or is done.
LEMMA ProceedKeeps ==
  ASSUME Inv, NEW d \in Drain, drain[d].pc # "idle", Proceed(d), UNCHANGED job,
         Grows, World(version', outbox', queue', d1')
  PROVE  Inv'
<1> DEFINE rows == drain[d].rows
           t == [pc |-> "record", rows |-> Tail(rows)]
<1>1. /\ rows \in Seq(DueRow) /\ rows # <<>> /\ drain \in [Drain -> Run]
      /\ \A i \in 1..Len(rows) : rows[i].event \in 1..Len(outbox)
  BY CurrentRow DEF Inv
<1>2. \/ drain' = [drain EXCEPT ![d] = IdleDrain]
      \/ Len(rows) > 1 /\ drain' = [drain EXCEPT ![d] = t]
  BY <1>1 DEF Proceed
<1>3. CASE drain' = [drain EXCEPT ![d] = IdleDrain]
  <2>1. IdleDrain \in Run BY EmptySeq DEF IdleDrain, Run
  <2>2. RunIsSound(IdleDrain, outbox', queue', d1') BY DEF RunIsSound, IdleDrain
  <2> QED BY <1>3, <2>1, <2>2, RunMoves
<1>4. CASE Len(rows) > 1 /\ drain' = [drain EXCEPT ![d] = t]
  <2>1. /\ Tail(rows) \in Seq(DueRow) /\ Len(Tail(rows)) = Len(rows) - 1
        /\ \A i \in 1..Len(Tail(rows)) : Tail(rows)[i] = rows[i + 1]
    BY <1>1, HeadTailProperties
  <2>2. Len(rows) \in Nat /\ Len(outbox) \in Nat /\ Len(outbox') \in Nat
    BY <1>1, LenProperties, WorldParts DEF Inv
  <2> HIDE DEF rows
  <2>3. Tail(rows) # <<>>
    <3>1. Len(<<>>) = 0 BY EmptySeq
    <3> QED BY <1>4, <2>1, <2>2, <3>1
  <2>4. \A i \in 1..Len(Tail(rows)) : Tail(rows)[i].event \in 1..Len(outbox')
    <3>1. \A i \in 1..Len(Tail(rows)) : i + 1 \in 1..Len(rows) BY <2>1, <2>2
    <3>2. \A i \in 1..Len(Tail(rows)) : Tail(rows)[i].event \in 1..Len(outbox)
      BY <1>1, <2>1, <3>1
    <3> QED BY <2>2, <3>2 DEF Grows
  <2>5. t \in Run /\ t.pc = "record" /\ t.rows = Tail(rows) BY <2>1 DEF Run
  <2> HIDE DEF t
  <2>6. RunIsSound(t, outbox', queue', d1') BY <2>3, <2>4, <2>5 DEF RunIsSound
  <2> QED BY <1>4, <2>5, <2>6, RunMoves
<1> QED BY <1>2, <1>3, <1>4

LEMMA RecordQueuedKeeps ==
  ASSUME Inv, NEW d \in Drain, RecordQueued(d)
  PROVE  Inv'
<1>0. World(version, outbox, queue, d1) BY DEF Inv
<1>1. drain[d].pc = "record" /\ UNCHANGED <<version, outbox, queue, job>> BY DEF RecordQueued
<1> DEFINE e == Current(d).event
           r == [drain[d] EXCEPT !.pc = "send"]
<1>2. /\ e \in 1..Len(outbox) /\ drain[d] \in Run /\ drain[d].rows # <<>>
      /\ \A i \in 1..Len(drain[d].rows) : drain[d].rows[i].event \in 1..Len(outbox)
  BY <1>1, CurrentRow
<1>3. d1' = [d1 EXCEPT !.delivery = Tracked(d1.delivery, e)] BY DEF RecordQueued
<1>4. drain' = [drain EXCEPT ![d] = r] BY <1>2 DEF RecordQueued
<1> HIDE DEF e
<1>5. /\ World(version', outbox', queue', d1') /\ d1'.state = d1.state
      /\ \A f \in 1..Len(outbox) :
           /\ d1.delivery[f] = "delivered" => d1'.delivery[f] = "delivered"
           /\ Handled(queue, d1, f) => Handled(queue', d1', f)
  BY <1>0, <1>1, <1>2, <1>3, DeliveryTracked
<1>6. Grows
  <2>1. version \in Nat /\ Len(outbox) \in Nat /\ d1.state \in Nat BY <1>0, WorldParts
  <2> QED BY <1>1, <1>5, <2>1 DEF Grows
<1>7. r \in Run /\ r.pc = "send" /\ r.rows = drain[d].rows BY <1>2 DEF Run
<1> HIDE DEF r
<1>8. RunIsSound(r, outbox', queue', d1') BY <1>1, <1>2, <1>7 DEF RunIsSound
<1> QED BY <1>1, <1>4, <1>5, <1>6, <1>7, <1>8, RunMoves

LEMMA SendKeeps ==
  ASSUME Inv, NEW d \in Drain, Send(d)
  PROVE  Inv'
<1>0. World(version, outbox, queue, d1) BY DEF Inv
<1>1. drain[d].pc = "send" /\ UNCHANGED <<version, outbox, d1, job>> BY DEF Send
<1> DEFINE e == Current(d).event
           r == [drain[d] EXCEPT !.pc = "mark"]
<1>2. /\ e \in 1..Len(outbox) /\ drain[d] \in Run /\ drain[d].rows # <<>>
      /\ e = drain[d].rows[1].event
      /\ \A i \in 1..Len(drain[d].rows) : drain[d].rows[i].event \in 1..Len(outbox)
  BY <1>1, CurrentRow
<1>3. queue' = Accepted(queue, e) BY DEF Send, Accept, Accepted
<1>4. drain' = [drain EXCEPT ![d] = r] BY <1>2 DEF Send
<1> HIDE DEF e
<1>5. /\ World(version', outbox', queue', d1') /\ Handled(queue', d1', e)
      /\ \A f \in 1..Len(outbox) : Handled(queue, d1, f) => Handled(queue', d1', f)
  BY <1>0, <1>1, <1>2, <1>3, QueueAccepts
<1>6. Grows
  <2>1. version \in Nat /\ Len(outbox) \in Nat /\ d1.state \in Nat BY <1>0, WorldParts
  <2> QED BY <1>1, <1>5, <2>1 DEF Grows
<1>7. r \in Run /\ r.pc = "mark" /\ r.rows = drain[d].rows BY <1>2 DEF Run
<1> HIDE DEF r
<1>8. RunIsSound(r, outbox', queue', d1') BY <1>1, <1>2, <1>5, <1>7 DEF RunIsSound
<1> QED BY <1>1, <1>4, <1>5, <1>6, <1>7, <1>8, RunMoves

\* The object rewrites the row of e while the queue may take its message.
LEMMA RowRewritten ==
  ASSUME Inv, UNCHANGED <<version, d1>>, NEW e \in 1..Len(outbox),
         queue' = queue \/ queue' = Accepted(queue, e),
         NEW s \in OutboxRow, s.version = outbox[e].version,
         ~s.delivered => s.attempts <= MaxAttempts,
         s.delivered => Handled(queue, d1, e),
         outbox' = [outbox EXCEPT ![e] = s]
  PROVE  Grows /\ World(version', outbox', queue', d1')
<1>0. /\ World(version, outbox, queue, d1) /\ version \in Nat /\ Len(outbox) \in Nat
      /\ d1.state \in Nat
  BY WorldParts DEF Inv
<1> DEFINE p == Rewritten(outbox, e, s)
<1>1. /\ World(version, p, queue, d1) /\ Len(p) = Len(outbox)
      /\ \A f \in 1..Len(outbox) : p[f].version = outbox[f].version
  BY <1>0, OutboxMarks
<1>2. outbox' = p BY DEF Rewritten
<1> HIDE DEF p
<1>3. /\ World(version, p, queue', d1)
      /\ \A f \in 1..Len(outbox) : Handled(queue, d1, f) => Handled(queue', d1, f)
  <2>1. CASE queue' = queue BY <1>1, <2>1
  <2>2. CASE queue' = Accepted(queue, e)
    <3>1. e \in 1..Len(p) BY <1>1
    <3>2. /\ World(version, p, Accepted(queue, e), d1)
          /\ \A f \in 1..Len(p) : Handled(queue, d1, f) => Handled(Accepted(queue, e), d1, f)
      BY <1>1, <3>1, QueueAccepts
    <3> QED BY <1>1, <2>2, <3>2
  <2> QED BY <2>1, <2>2
<1>4. World(version', outbox', queue', d1') BY <1>2, <1>3
<1>5. /\ Len(outbox') = Len(outbox)
      /\ \A f \in 1..Len(outbox) : outbox'[f].version = outbox[f].version
  BY <1>1, <1>2
<1>6. \A f \in 1..Len(outbox) : Handled(queue, d1, f) => Handled(queue', d1', f)
  BY <1>3
<1>7. version' = version /\ d1' = d1 OBVIOUS
<1> QED BY <1>0, <1>4, <1>5, <1>6, <1>7 DEF Grows

LEMMA MarkSentKeeps ==
  ASSUME Inv, NEW d \in Drain, MarkSent(d)
  PROVE  Inv'
<1>0. World(version, outbox, queue, d1) BY DEF Inv
<1>1. /\ drain[d].pc = "mark" /\ UNCHANGED <<version, queue, d1, job>> /\ Proceed(d)
  BY DEF MarkSent
<1> DEFINE e == Current(d).event
           s == [outbox[e] EXCEPT !.attempts = outbox[e].attempts + 1, !.delivered = TRUE]
<1>2. e \in 1..Len(outbox) /\ Handled(queue, d1, e) BY <1>1, CurrentRow
<1>3. outbox' = outbox \/ (~outbox[e].delivered /\ outbox' = [outbox EXCEPT ![e] = s])
  <2>1. outbox[e] \in OutboxRow /\ outbox \in [1..Len(outbox) -> OutboxRow]
    BY <1>0, <1>2, WorldParts
  <2> QED BY <1>2, <2>1 DEF MarkSent, OutboxRow
<1> HIDE DEF e
<1>4. CASE outbox' = outbox
  <2>1. UNCHANGED <<version, outbox, queue, d1>> BY <1>1, <1>4
  <2> QED BY <1>1, <2>1, WorldStays, ProceedKeeps
<1>5. CASE ~outbox[e].delivered /\ outbox' = [outbox EXCEPT ![e] = s]
  <2>1. outbox[e] \in OutboxRow /\ outbox[e].attempts \in Nat BY <1>0, <1>2, WorldParts
  <2>2. outbox[e].attempts <= MaxAttempts BY <1>0, <1>2, <1>5 DEF World, RowsAreCommitted
  <2>3. outbox[e].attempts + 1 \in 0..MaxAttempts + 1 BY <2>1, <2>2, Sizes
  <2>4. s \in OutboxRow /\ s.version = outbox[e].version /\ s.delivered
    BY <2>1, <2>3 DEF OutboxRow
  <2> HIDE DEF s
  <2>5. Grows /\ World(version', outbox', queue', d1') BY <1>1, <1>2, <1>5, <2>4, RowRewritten
  <2> QED BY <1>1, <2>5, ProceedKeeps
<1> QED BY <1>3, <1>4, <1>5

LEMMA FailSendKeeps ==
  ASSUME Inv, NEW d \in Drain, FailSend(d)
  PROVE  Inv'
<1>0. /\ World(version, outbox, queue, d1) /\ version \in Nat /\ Len(outbox) \in Nat
      /\ d1.state \in Nat
  BY WorldParts DEF Inv
<1>1. /\ drain[d].pc \in {"record", "send", "mark"} /\ UNCHANGED <<version, d1, job>> /\ Proceed(d)
  BY DEF FailSend
<1> DEFINE c == Current(d)
           e == c.event
           s == [outbox[e] EXCEPT !.attempts = c.attempts + 1]
<1>2. c \in DueRow /\ e \in 1..Len(outbox) BY <1>1, CurrentRow
<1>3. queue' = queue \/ queue' = Accepted(queue, e) BY DEF FailSend, Accept, Accepted
<1>4. outbox' = outbox \/ (~outbox[e].delivered /\ outbox' = [outbox EXCEPT ![e] = s])
  <2>1. outbox[e] \in OutboxRow /\ outbox \in [1..Len(outbox) -> OutboxRow]
    BY <1>0, <1>2, WorldParts
  <2> QED BY <1>2, <2>1 DEF FailSend, OutboxRow
<1>5. c.attempts + 1 \in 0..MaxAttempts + 1 /\ c.attempts + 1 <= MaxAttempts
  BY <1>2, Sizes DEF DueRow
<1>6. outbox[e] \in OutboxRow BY <1>0, <1>2, WorldParts
<1> HIDE DEF e, c
<1>7. Grows /\ World(version', outbox', queue', d1')
  <2>1. CASE outbox' = outbox
    <3>1. /\ World(version, outbox, queue', d1)
          /\ \A f \in 1..Len(outbox) : Handled(queue, d1, f) => Handled(queue', d1, f)
      BY <1>0, <1>2, <1>3, QueueAccepts
    <3> QED BY <1>0, <1>1, <2>1, <3>1 DEF Grows
  <2>2. CASE ~outbox[e].delivered /\ outbox' = [outbox EXCEPT ![e] = s]
    <3>1. /\ s \in OutboxRow /\ s.version = outbox[e].version /\ ~s.delivered
          /\ s.attempts = c.attempts + 1
      BY <1>5, <1>6, <2>2 DEF OutboxRow
    <3> HIDE DEF s
    <3> QED BY <1>1, <1>2, <1>3, <1>5, <2>2, <3>1, RowRewritten
  <2> QED BY <1>4, <2>1, <2>2
<1> QED BY <1>1, <1>7, ProceedKeeps

LEMMA RestartKeeps ==
  ASSUME Inv, Restart
  PROVE  Inv'
<1>1. IdleDrain \in Run BY EmptySeq DEF IdleDrain, Run
<1>2. /\ drain' = [d \in Drain |-> IdleDrain] /\ UNCHANGED <<version, outbox, queue, d1, job>>
      /\ job \in [Consumer -> Consume]
  BY DEF Restart, Inv
<1>3. \A d \in Drain : RunIsSound(drain'[d], outbox', queue', d1')
  BY <1>2 DEF RunIsSound, IdleDrain
<1>4. drain' \in [Drain -> Run] BY <1>1, <1>2
<1> QED BY <1>2, <1>3, <1>4, WorldStays, Keeps

-----------------------------------------------------------------------------
(* The consumers' steps *)

\* What a consumer at work knows.
LEMMA JobParts ==
  ASSUME Inv, NEW c \in Consumer
  PROVE  /\ World(version, outbox, queue, d1) /\ version \in Nat /\ Len(outbox) \in Nat
         /\ d1.state \in Nat /\ queue \in Queue /\ d1 \in Database
         /\ job[c] \in Consume /\ JobIsSound(job[c], version, outbox, d1)
         /\ IdleJob \in Consume /\ IdleJob.pc = "idle" /\ IdleJob.snapshot = 0
         /\ job[c].pc # "idle" => job[c].event \in 1..Len(outbox) /\ job[c].event \in Event
<1>1. /\ World(version, outbox, queue, d1) /\ version \in Nat /\ Len(outbox) \in Nat
      /\ d1.state \in Nat /\ \A e \in 1..Len(outbox) : e \in Event
  BY WorldParts DEF Inv
<1>2. IdleJob \in Consume /\ IdleJob.pc = "idle" /\ IdleJob.snapshot = 0
  BY Sizes DEF IdleJob, Consume
<1>3. job[c] \in Consume /\ JobIsSound(job[c], version, outbox, d1) BY DEF Inv
<1> QED BY <1>1, <1>2, <1>3 DEF JobIsSound, World

LEMMA ReceiveKeeps ==
  ASSUME Inv, NEW c \in Consumer, NEW e \in Event, Receive(c, e)
  PROVE  Inv'
<1>0. /\ World(version, outbox, queue, d1) /\ version \in Nat /\ Len(outbox) \in Nat
      /\ d1.state \in Nat /\ IdleJob \in Consume /\ IdleJob.snapshot = 0
  BY JobParts
<1>1. UNCHANGED <<version, outbox, drain, queue>> /\ e \in queue.held BY DEF Receive
<1>2. e \in 1..Len(outbox) BY <1>0, <1>1 DEF World, EventsAreCommitted
<1> DEFINE j == [IdleJob EXCEPT !.pc = "known", !.event = e]
<1>3. j \in Consume /\ j.pc = "known" /\ j.event = e /\ j.snapshot = 0
  <2>1. e \in 0..MaxEvents BY Sizes DEF Event
  <2> QED BY <1>0, <2>1 DEF Consume
<1>4. job' = [job EXCEPT ![c] = j] BY DEF Receive
<1> HIDE DEF j
<1>5. d1' = [d1 EXCEPT !.delivery = Tracked(d1.delivery, e)] BY DEF Receive
<1>6. /\ World(version', outbox', queue', d1') /\ d1'.state = d1.state
      /\ \A f \in 1..Len(outbox) :
           /\ d1.delivery[f] = "delivered" => d1'.delivery[f] = "delivered"
           /\ Handled(queue, d1, f) => Handled(queue', d1', f)
  BY <1>0, <1>1, <1>2, <1>5, DeliveryTracked
<1>7. Grows BY <1>0, <1>1, <1>6 DEF Grows
<1>8. JobIsSound(j, version', outbox', d1') BY <1>0, <1>1, <1>2, <1>3 DEF JobIsSound
<1> QED BY <1>1, <1>3, <1>4, <1>6, <1>7, <1>8, JobMoves

\* A consumer that only finds something out.
LEMMA JobLearns ==
  ASSUME Inv, UNCHANGED <<version, outbox, drain, queue, d1>>,
         NEW c \in Consumer, NEW j \in Consume, job' = [job EXCEPT ![c] = j],
         JobIsSound(j, version, outbox, d1)
  PROVE  Inv'
<1>1. Grows /\ World(version', outbox', queue', d1') BY WorldStays
<1> QED BY <1>1, JobMoves

LEMMA ChecksKeep ==
  ASSUME Inv, NEW c \in Consumer, CheckDelivered(c) \/ CheckVersion(c) \/ ReadSnapshot(c)
  PROVE  Inv'
<1>0. /\ version \in 0..MaxVersion /\ job[c] \in Consume
      /\ JobIsSound(job[c], version, outbox, d1) /\ job \in [Consumer -> Consume]
      /\ World(version, outbox, queue, d1)
  BY JobParts DEF World, Inv
<1>1. UNCHANGED <<version, outbox, drain, queue, d1>>
  BY DEF CheckDelivered, CheckVersion, ReadSnapshot
<1>2. CASE CheckDelivered(c)
  <2>1. PICK pc \in {"ack", "state"} :
          /\ job' = [job EXCEPT ![c] = [job[c] EXCEPT !.pc = pc]]
          /\ pc = "ack" => d1.delivery[job[c].event] = "delivered"
    BY <1>0, <1>2 DEF CheckDelivered, GoTo, Consume
  <2> DEFINE j == [job[c] EXCEPT !.pc = pc]
  <2>2. /\ j \in Consume /\ j.pc = pc /\ j.event = job[c].event
        /\ j.snapshot = job[c].snapshot
    BY <1>0 DEF Consume
  <2>3. job[c].pc = "known" BY <1>2 DEF CheckDelivered, At
  <2>4. job' = [job EXCEPT ![c] = j] BY <2>1
  <2> HIDE DEF j
  <2>5. JobIsSound(j, version, outbox, d1) BY <1>0, <2>1, <2>2, <2>3 DEF JobIsSound
  <2> QED BY <1>1, <2>2, <2>4, <2>5, JobLearns
<1>3. CASE CheckVersion(c)
  <2>1. PICK pc \in {"outdated", "read"} :
          /\ job' = [job EXCEPT ![c] = [job[c] EXCEPT !.pc = pc]]
          /\ pc = "outdated" => Outdated(job[c].event)
    BY <1>0, <1>3 DEF CheckVersion, GoTo, Consume
  <2> DEFINE j == [job[c] EXCEPT !.pc = pc]
  <2>2. /\ j \in Consume /\ j.pc = pc /\ j.event = job[c].event
        /\ j.snapshot = job[c].snapshot
    BY <1>0 DEF Consume
  <2>3. job[c].pc = "state" BY <1>3 DEF CheckVersion, At
  <2>4. job' = [job EXCEPT ![c] = j] BY <2>1
  <2> HIDE DEF j
  <2>5. JobIsSound(j, version, outbox, d1)
    BY <1>0, <2>1, <2>2, <2>3 DEF JobIsSound, Outdated
  <2> QED BY <1>1, <2>2, <2>4, <2>5, JobLearns
<1>4. CASE ReadSnapshot(c)
  <2> DEFINE j == [job[c] EXCEPT !.pc = "persist", !.snapshot = version]
  <2>1. job' = [job EXCEPT ![c] = j] BY <1>0, <1>4 DEF ReadSnapshot, Consume
  <2>2. /\ j \in Consume /\ j.pc = "persist" /\ j.event = job[c].event
        /\ j.snapshot = version
    BY <1>0 DEF Consume
  <2>3. job[c].pc = "read" BY <1>4 DEF ReadSnapshot, At
  <2> HIDE DEF j
  <2>4. job[c].event \in 1..Len(outbox) /\ outbox[job[c].event].version <= version
    BY <1>0, <2>3 DEF JobIsSound, World, RowsAreCommitted
  <2>5. version <= version BY <1>0, Sizes
  <2>6. JobIsSound(j, version, outbox, d1) BY <2>2, <2>4, <2>5 DEF JobIsSound
  <2> QED BY <1>1, <2>1, <2>2, <2>6, JobLearns
<1> QED BY <1>2, <1>3, <1>4

LEMMA MarkOutdatedKeeps ==
  ASSUME Inv, NEW c \in Consumer, MarkOutdated(c)
  PROVE  Inv'
<1>0. /\ World(version, outbox, queue, d1) /\ version \in Nat /\ Len(outbox) \in Nat
      /\ d1.state \in Nat /\ job[c] \in Consume
      /\ JobIsSound(job[c], version, outbox, d1) /\ job \in [Consumer -> Consume]
  BY JobParts DEF Inv
<1>1. UNCHANGED <<version, outbox, drain, queue>> /\ job[c].pc = "outdated"
  BY DEF MarkOutdated, At
<1> DEFINE e == job[c].event
           j == [job[c] EXCEPT !.pc = "ack"]
<1>2. e \in 1..Len(outbox) /\ outbox[e].version <= d1.state /\ job[c].snapshot <= version
  BY <1>0, <1>1 DEF JobIsSound
<1>3. d1' = [d1 EXCEPT !.delivery = Delivered(d1.delivery, e)] BY DEF MarkOutdated
<1>4. job' = [job EXCEPT ![c] = j] BY <1>0 DEF MarkOutdated, GoTo, Consume
<1>5. j \in Consume /\ j.pc = "ack" /\ j.event = e /\ j.snapshot = job[c].snapshot
  BY <1>0 DEF Consume
<1> HIDE DEF e, j
<1>6. /\ World(version', outbox', queue', d1') /\ d1'.state = d1.state
      /\ d1'.delivery[e] = "delivered"
      /\ \A f \in 1..Len(outbox) :
           /\ d1.delivery[f] = "delivered" => d1'.delivery[f] = "delivered"
           /\ Handled(queue, d1, f) => Handled(queue', d1', f)
  BY <1>0, <1>1, <1>2, <1>3, DeliveryMade
<1>7. Grows BY <1>0, <1>1, <1>6 DEF Grows
<1>8. JobIsSound(j, version', outbox', d1') BY <1>1, <1>2, <1>5, <1>6 DEF JobIsSound
<1> QED BY <1>1, <1>4, <1>5, <1>6, <1>7, <1>8, JobMoves

\* What a consumer's batch leaves of the database.
LEMMA PersistedBase ==
  ASSUME Inv, NEW c \in Consumer, Persist(c)
  PROVE  /\ World(version, outbox, queue, d1')
         /\ d1.state <= d1'.state /\ d1'.delivery[job[c].event] = "delivered"
         /\ \A f \in 1..Len(outbox) :
              /\ d1.delivery[f] = "delivered" => d1'.delivery[f] = "delivered"
              /\ Handled(queue, d1, f) => Handled(queue, d1', f)
         /\ \/ d1'.rows = d1.rows
            \/ /\ d1.state < job[c].snapshot /\ job[c].snapshot <= version
               /\ d1'.rows = Snapshot(job[c].snapshot)
<1>0. /\ World(version, outbox, queue, d1) /\ d1.state \in Nat /\ job[c] \in Consume
      /\ JobIsSound(job[c], version, outbox, d1)
  BY JobParts
<1> DEFINE e == job[c].event
           n == job[c].snapshot
           a == Replaced(d1, n)
<1>1. job[c].pc = "persist" BY DEF Persist, At
<1>2. /\ e \in 1..Len(outbox) /\ outbox[e].version <= n /\ n \in 0..MaxVersion
      /\ n \in Nat /\ outbox[e].version \in Nat /\ n <= version
  BY <1>0, <1>1, WorldParts, Sizes DEF JobIsSound, Consume
<1>3. d1' = [a EXCEPT !.delivery = Delivered(a.delivery, e)] BY DEF Persist
<1> HIDE DEF e, n
<1>4. /\ World(version, outbox, queue, a) /\ a.delivery = d1.delivery
      /\ d1.state <= a.state /\ n <= a.state
      /\ a.rows = d1.rows \/ (d1.state < n /\ a.rows = Snapshot(n))
  BY <1>0, <1>2, RowsReplaced
<1> HIDE DEF a
<1>5. outbox[e].version <= a.state
  <2>1. a.state \in Nat BY <1>4, WorldParts
  <2> QED BY <1>2, <1>4, <2>1
<1>6. /\ World(version, outbox, queue, d1') /\ d1'.state = a.state /\ d1'.rows = a.rows
      /\ d1'.delivery[e] = "delivered"
      /\ \A f \in 1..Len(outbox) :
           /\ a.delivery[f] = "delivered" => d1'.delivery[f] = "delivered"
           /\ Handled(queue, a, f) => Handled(queue, d1', f)
  BY <1>2, <1>3, <1>4, <1>5, DeliveryMade
<1>7. \A f : Handled(queue, d1, f) => Handled(queue, a, f) BY <1>4 DEF Handled
<1> QED BY <1>2, <1>4, <1>6, <1>7 DEF e, n

LEMMA PersistKeeps ==
  ASSUME Inv, NEW c \in Consumer, Persist(c)
  PROVE  Inv'
<1>0. /\ version \in Nat /\ Len(outbox) \in Nat /\ job[c] \in Consume
      /\ JobIsSound(job[c], version, outbox, d1) /\ job \in [Consumer -> Consume]
  BY JobParts DEF Inv
<1>1. UNCHANGED <<version, outbox, drain, queue>> /\ job[c].pc = "persist"
  BY DEF Persist, At
<1> DEFINE j == [job[c] EXCEPT !.pc = "ack"]
<1>2. job' = [job EXCEPT ![c] = j] BY <1>0 DEF Persist, GoTo, Consume
<1>3. /\ j \in Consume /\ j.pc = "ack" /\ j.event = job[c].event
      /\ j.snapshot = job[c].snapshot
  BY <1>0 DEF Consume
<1> HIDE DEF j
<1>4. /\ World(version', outbox', queue', d1')
      /\ d1.state <= d1'.state /\ d1'.delivery[job[c].event] = "delivered"
      /\ \A f \in 1..Len(outbox) :
           /\ d1.delivery[f] = "delivered" => d1'.delivery[f] = "delivered"
           /\ Handled(queue, d1, f) => Handled(queue', d1', f)
  BY <1>1, PersistedBase
<1>5. Grows BY <1>0, <1>1, <1>4 DEF Grows
<1>6. JobIsSound(j, version', outbox', d1') BY <1>0, <1>1, <1>3, <1>4 DEF JobIsSound
<1> QED BY <1>1, <1>2, <1>3, <1>4, <1>5, <1>6, JobMoves

\* A consumer is done with its message, and what it leaves of the queue handles all
\* that was handled.
LEMMA JobEnds ==
  ASSUME Inv, NEW c \in Consumer, UNCHANGED <<version, outbox, drain, d1>>,
         job' = [job EXCEPT ![c] = IdleJob], queue' \in Queue,
         \A e \in queue'.held : e \in 1..Len(outbox),
         \A e \in 1..Len(outbox) : Handled(queue, d1, e) => Handled(queue', d1, e)
  PROVE  Inv'
<1>1. /\ World(version, outbox, queue, d1) /\ version \in Nat /\ Len(outbox) \in Nat
      /\ d1.state \in Nat /\ IdleJob \in Consume /\ IdleJob.pc = "idle"
  BY JobParts
<1>2. EventsAreCommitted(outbox, queue', d1) BY <1>1 DEF World, EventsAreCommitted
<1>3. OutboxIsHandled(outbox, queue', d1) BY <1>1 DEF World, OutboxIsHandled
<1>4. World(version', outbox', queue', d1') BY <1>1, <1>2, <1>3 DEF World
<1>5. Grows BY <1>1 DEF Grows
<1>6. JobIsSound(IdleJob, version', outbox', d1') BY <1>1 DEF JobIsSound
<1> QED BY <1>1, <1>4, <1>5, <1>6, JobMoves

LEMMA AckKeeps ==
  ASSUME Inv, NEW c \in Consumer, Ack(c)
  PROVE  Inv'
<1>0. /\ World(version, outbox, queue, d1) /\ JobIsSound(job[c], version, outbox, d1)
      /\ queue \in Queue
  BY JobParts
<1>1. /\ job[c].pc = "ack" /\ UNCHANGED <<version, outbox, drain, d1>>
      /\ job' = [job EXCEPT ![c] = IdleJob]
  BY DEF Ack, At
<1> DEFINE e == job[c].event
           r == [queue EXCEPT !.held = queue.held \ {e}]
<1>2. d1.delivery[e] = "delivered" BY <1>0, <1>1 DEF JobIsSound
<1>3. queue' = r \/ queue' = queue BY <1>0 DEF Ack, Queue
<1>4. r \in Queue /\ r.held = queue.held \ {e} /\ r.dropped = queue.dropped
  BY <1>0 DEF Queue
<1> HIDE DEF e, r
<1>5. queue' \in Queue /\ \A f \in queue'.held : f \in 1..Len(outbox)
  BY <1>0, <1>3, <1>4 DEF World, EventsAreCommitted
<1>6. \A f : Handled(queue, d1, f) => Handled(queue', d1, f)
  BY <1>2, <1>3, <1>4 DEF Handled
<1> QED BY <1>1, <1>5, <1>6, JobEnds

LEMMA FailJobKeeps ==
  ASSUME Inv, NEW c \in Consumer, FailJob(c)
  PROVE  Inv'
<1> DEFINE e == job[c].event
           again == [held |-> queue.held \cup {e}, dropped |-> queue.dropped,
                     retries |-> [queue.retries EXCEPT ![e] = queue.retries[e] + 1]]
           gone == [held |-> queue.held \ {e}, dropped |-> queue.dropped \cup {e},
                    retries |-> queue.retries]
<1>0. /\ World(version, outbox, queue, d1) /\ queue \in Queue
      /\ e \in 1..Len(outbox) /\ e \in Event
  BY JobParts DEF FailJob, At
<1>1. /\ UNCHANGED <<version, outbox, drain, d1>> /\ job' = [job EXCEPT ![c] = IdleJob]
  BY DEF FailJob
<1>2. \/ queue.retries[e] < MaxRetries /\ queue' = again
      \/ queue' = gone
  BY <1>0 DEF FailJob, Queue
<1> HIDE DEF e
<1>3. CASE queue.retries[e] < MaxRetries /\ queue' = again
  <2>1. queue.retries[e] + 1 \in 0..MaxRetries BY <1>0, <1>3, Sizes DEF Queue
  <2>2. again \in Queue BY <1>0, <2>1 DEF Queue
  <2>3. queue' \in Queue /\ queue'.held = queue.held \cup {e}
        /\ queue'.dropped = queue.dropped
    BY <1>3, <2>2
  <2>4. \A f \in queue'.held : f \in 1..Len(outbox) BY <1>0, <2>3 DEF World, EventsAreCommitted
  <2>5. \A f : Handled(queue, d1, f) => Handled(queue', d1, f) BY <2>3 DEF Handled
  <2> QED BY <1>1, <2>3, <2>4, <2>5, JobEnds
<1>4. CASE queue' = gone
  <2>1. gone \in Queue BY <1>0 DEF Queue
  <2>2. queue' \in Queue /\ queue'.held = queue.held \ {e}
        /\ queue'.dropped = queue.dropped \cup {e}
    BY <1>4, <2>1
  <2>3. \A f \in queue'.held : f \in 1..Len(outbox) BY <1>0, <2>2 DEF World, EventsAreCommitted
  <2>4. \A f : Handled(queue, d1, f) => Handled(queue', d1, f) BY <2>2 DEF Handled
  <2> QED BY <1>1, <2>2, <2>3, <2>4, JobEnds
<1> QED BY <1>2, <1>3, <1>4

-----------------------------------------------------------------------------
(* The theorems *)

LEMMA InvHolds == Spec => []Inv
<1>1. Init => Inv
  <2> SUFFICES ASSUME Init PROVE Inv OBVIOUS
  <2> DEFINE none == [e \in Event |-> "none"]
             zero == [e \in Event |-> 0]
  <2>1. /\ version = 0 /\ outbox = <<>> /\ drain = [d \in Drain |-> IdleDrain]
        /\ queue = [held |-> {}, dropped |-> {}, retries |-> zero]
        /\ d1 = [state |-> 0, rows |-> Snapshot(0), delivery |-> none]
        /\ job = [c \in Consumer |-> IdleJob]
    BY DEF Init
  <2>2. outbox \in Seq(OutboxRow) /\ Len(outbox) = 0 BY <2>1, EmptySeq
  <2>3. \A e : e \notin 1..Len(outbox) BY <2>2
  <2>4. queue \in Queue
    <3>1. zero \in [Event -> 0..MaxRetries] BY Sizes
    <3> QED BY <2>1, <3>1 DEF Queue
  <2>5. d1 \in Database
    <3>1. none \in [Event -> {"none", "queued", "delivered"}] OBVIOUS
    <3>2. Snapshot(0) \in [Table -> 0..MaxVersion] /\ 0 \in 0..MaxVersion
      BY Sizes DEF Snapshot
    <3> QED BY <2>1, <3>1, <3>2 DEF Database
  <2>6. World(version, outbox, queue, d1)
    <3>1. version \in 0..MaxVersion /\ Len(outbox) <= MaxEvents BY <2>1, <2>2, Sizes
    <3>2. RowsAreCommitted(version, outbox) /\ OutboxIsHandled(outbox, queue, d1)
      BY <2>3 DEF RowsAreCommitted, OutboxIsHandled
    <3>3. EventsAreCommitted(outbox, queue, d1) BY <2>1 DEF EventsAreCommitted
    <3>4. DirectoryIsSound(outbox, d1) BY <2>1, <2>3 DEF DirectoryIsSound
    <3> QED BY <2>2, <2>4, <2>5, <3>1, <3>2, <3>3, <3>4 DEF World
  <2>7. /\ drain \in [Drain -> Run]
        /\ \A d \in Drain : RunIsSound(drain[d], outbox, queue, d1)
    <3>1. IdleDrain \in Run BY EmptySeq DEF IdleDrain, Run
    <3> QED BY <2>1, <3>1 DEF RunIsSound, IdleDrain
  <2>8. /\ job \in [Consumer -> Consume]
        /\ \A c \in Consumer : JobIsSound(job[c], version, outbox, d1)
    <3>1. IdleJob \in Consume BY Sizes DEF IdleJob, Consume
    <3> QED BY <2>1, <3>1 DEF JobIsSound, IdleJob
  <2> QED BY <2>6, <2>7, <2>8 DEF Inv
<1>2. Inv /\ [Next]_vars => Inv'
  <2> SUFFICES ASSUME Inv, [Next]_vars PROVE Inv' OBVIOUS
  <2>1. CASE Command BY <2>1, CommandKeeps
  <2>2. CASE Restart BY <2>2, RestartKeeps
  <2>3. ASSUME NEW d \in Drain, NEW due \in SUBSET Event, StartDrain(d, due) PROVE Inv'
    BY <2>3, StartDrainKeeps
  <2>4. ASSUME NEW d \in Drain, DrainStep(d) PROVE Inv'
    BY <2>4, RecordQueuedKeeps, SendKeeps, MarkSentKeeps DEF DrainStep
  <2>5. ASSUME NEW d \in Drain, FailSend(d) PROVE Inv' BY <2>5, FailSendKeeps
  <2>6. ASSUME NEW c \in Consumer, NEW e \in Event, Receive(c, e) PROVE Inv'
    BY <2>6, ReceiveKeeps
  <2>7. ASSUME NEW c \in Consumer, JobStep(c) PROVE Inv'
    BY <2>7, ChecksKeep, MarkOutdatedKeeps, PersistKeeps, AckKeeps DEF JobStep
  <2>8. ASSUME NEW c \in Consumer, FailJob(c) PROVE Inv' BY <2>8, FailJobKeeps
  <2>9. CASE UNCHANGED vars BY <2>9 DEF vars, Inv
  <2> QED BY <2>1, <2>2, <2>3, <2>4, <2>5, <2>6, <2>7, <2>8, <2>9 DEF Next
<1> QED BY <1>1, <1>2, PTL DEF Spec

\* The object's rows and runs, the queue, the tables and the consumers stay within their
\* types: however drains overlap, a row counts one attempt past the limit at most.
THEOREM TypeCorrect == Spec => []TypeOK
<1>1. Inv => TypeOK
  BY DEF Inv, World, OutboxRow, Run, DueRow, Queue, Database, Consume, TypeOK
<1> QED BY <1>1, InvHolds, PTL

\* Whatever order messages arrive in, the directory's rows are of one snapshot, a
\* delivery that is recorded is shown, and no message vanishes (outbox.ts, consumer.ts).
THEOREM RowsAlwaysTrue == Spec => []RowsAreTrue
<1>1. Inv => RowsAreTrue
  <2> SUFFICES ASSUME Inv PROVE RowsAreTrue OBVIOUS
  <2>1. /\ World(version, outbox, queue, d1) /\ d1.state \in Nat
        /\ DOMAIN outbox = 1..Len(outbox)
        /\ \A e \in 1..Len(outbox) : outbox[e].version \in Nat
    BY WorldParts DEF Inv
  <2>2. d1.rows = Snapshot(d1.state) BY <2>1 DEF World, DirectoryIsSound
  <2>3. \A t \in Table : d1.rows[t] = d1.state BY <2>2 DEF Snapshot
  <2>4. DeliveredIsShown BY <2>1, <2>3 DEF World, DirectoryIsSound, DeliveredIsShown
  <2>5. NoMessageVanishes
    BY <2>1 DEF World, OutboxIsHandled, Handled, NoMessageVanishes
  <2> QED BY <2>2, <2>4, <2>5 DEF RowsAreTrue, RowsAreOneSnapshot
<1> QED BY <1>1, InvHolds, PTL

-----------------------------------------------------------------------------
(* The directory implements its abstract specification *)

LEMMA InitShown == Init => Promise!Init
BY DEF Init, Promise!Init, Promise!Snapshot, Snapshot

\* A command that raises the version is the pool's own step, a consumer's batch
\* publishes a newer moment or leaves the rows, and nothing else is seen.
LEMMA ShownStep == Inv /\ [Next]_vars => [Promise!Next]_<<version, d1.rows>>
<1> SUFFICES ASSUME Inv, [Next]_vars
             PROVE  Promise!Next \/ UNCHANGED <<version, d1.rows>>
  OBVIOUS
<1>0. d1 \in Database /\ version \in Nat /\ d1.rows = Snapshot(d1.state) /\ d1.state \in Nat
  BY WorldParts DEF Inv, World, DirectoryIsSound
<1>1. CASE Command
  <2>1. UNCHANGED d1 /\ (version' = version \/ version' = version + 1)
    <3>1. PICK bump \in 0..1 : version' = version + bump /\ UNCHANGED d1
      BY <1>1 DEF Command
    <3> QED BY <1>0, <3>1
  <2> QED BY <2>1 DEF Promise!Next, Promise!Command
<1>2. ASSUME NEW c \in Consumer, Persist(c)
      PROVE  Promise!Next \/ UNCHANGED <<version, d1.rows>>
  <2> DEFINE n == job[c].snapshot
  <2>1. version' = version BY <1>2 DEF Persist
  <2>2. /\ n \in Nat
        /\ d1'.rows = d1.rows \/ (d1.state < n /\ n <= version /\ d1'.rows = Snapshot(n))
    BY <1>2, PersistedBase, JobParts, Sizes DEF Consume
  <2>3. CASE d1'.rows = d1.rows BY <2>1, <2>3
  <2>4. CASE d1.state < n /\ n <= version /\ d1'.rows = Snapshot(n)
    <3>1. n \in 1..version BY <1>0, <2>2, <2>4
    <3>2. \A t \in Table : d1.rows[t] < n BY <1>0, <2>4 DEF Snapshot
    <3>3. d1'.rows = Promise!Snapshot(n) BY <2>4 DEF Snapshot, Promise!Snapshot
    <3> QED BY <2>1, <3>1, <3>2, <3>3 DEF Promise!Next, Promise!Publish
  <2> QED BY <2>2, <2>3, <2>4
<1>3. ASSUME NEW t, d1' = [d1 EXCEPT !.delivery = t] PROVE d1'.rows = d1.rows
  BY <1>0, <1>3 DEF Database
<1>4. ASSUME NEW d \in Drain, RecordQueued(d) PROVE UNCHANGED <<version, d1.rows>>
  <2>1. version' = version
        /\ d1' = [d1 EXCEPT !.delivery = Tracked(d1.delivery, Current(d).event)]
    BY <1>4 DEF RecordQueued
  <2> QED BY <1>3, <2>1
<1>5. ASSUME NEW c \in Consumer, NEW e \in Event, Receive(c, e)
      PROVE  UNCHANGED <<version, d1.rows>>
  <2>1. version' = version /\ d1' = [d1 EXCEPT !.delivery = Tracked(d1.delivery, e)]
    BY <1>5 DEF Receive
  <2> QED BY <1>3, <2>1
<1>6. ASSUME NEW c \in Consumer, MarkOutdated(c) PROVE UNCHANGED <<version, d1.rows>>
  <2>1. version' = version
        /\ d1' = [d1 EXCEPT !.delivery = Delivered(d1.delivery, job[c].event)]
    BY <1>6 DEF MarkOutdated
  <2> QED BY <1>3, <2>1
<1>7. ASSUME NEW d \in Drain,
             \/ \E due \in SUBSET Event : StartDrain(d, due)
             \/ Send(d) \/ MarkSent(d) \/ FailSend(d)
      PROVE  UNCHANGED <<version, d1.rows>>
  BY <1>7 DEF StartDrain, Send, MarkSent, FailSend
<1>8. ASSUME NEW c \in Consumer,
             \/ CheckDelivered(c) \/ CheckVersion(c) \/ ReadSnapshot(c)
             \/ Ack(c) \/ FailJob(c)
      PROVE  UNCHANGED <<version, d1.rows>>
  BY <1>8 DEF CheckDelivered, CheckVersion, ReadSnapshot, Ack, FailJob
<1>9. CASE Restart \/ UNCHANGED vars BY <1>9 DEF Restart, vars
<1> QED BY <1>1, <1>2, <1>4, <1>5, <1>6, <1>7, <1>8, <1>9 DEF Next, DrainStep, JobStep

\* Overlapping drains and consumers, retries, redeliveries and restarts keep the
\* directory's promise: it lags, but shows one moment of the pool and never goes back.
THEOREM DirectoryKeepsItsPromise == Spec => Abstract
<1>1. Inv /\ [Next]_vars => [Promise!Next]_<<version, d1.rows>> BY ShownStep
<1>2. Spec => Promise!Init /\ [][Promise!Next]_<<version, d1.rows>>
  BY <1>1, InitShown, InvHolds, PTL DEF Spec
<1> QED BY <1>2, PTL DEF Abstract, Promise!Spec, Promise!vars

-----------------------------------------------------------------------------
(***************************************************************************)
(* PoolRegistry: the creation of a pool.  What a request has found out     *)
(* stays true while it waits, because a reservation keeps its key, an      *)
(* answer its slug and material, and an initialized object stays so.       *)
(***************************************************************************)

(* The inductive invariant *)

Row    == [status : Status, key : Key, slug : Slug]
Stored == [answer : Records, slug : Slug, material : Material]

Refusals  == [kind : {"error"}, code : {"IDEMPOTENCY_CONFLICT", "SLUG_RESERVED", "INTERNAL"}]
Asking    == [pc : {"replay", "reserve", "conflict"}, input : Input]
Comparing == [pc : {"compare"}, input : Input, pool : Request, seen : Status]
AtWork    == {"initialize", "ready", "persistReady", "failed", "persistFailed"}
Working   == [pc : AtWork, input : Input, pool : Request]
Done      == [pc : {"done"}, input : Input, answer : {NoAnswer} \cup Records \cup Refusals]
Calls     == {NotMade} \cup Asking \cup Comparing \cup Working \cup Done

Rows      == [Request -> {Unreserved} \cup Row]
Responses == [Key -> {[answer |-> NoAnswer]} \cup Stored]

\* The row of p is a reservation under k; k has been answered, to the request in.
Holds(g, p, k)  == g[p].status # "none" /\ g[p].key = k
Answered(s, k)  == s[k].answer # NoAnswer
Granted(s, in)  == Answered(s, in.key) /\ SameRequest(s[in.key], in)
Live(g, o, k)   == \E p \in o : g[p].key = k

\* A reservation has its key to itself and an answer beside it; an object has a
\* reservation, and what is called ready has an object.
RowsAgree(g, s, o) ==
  /\ \A p \in o : g[p].status # "none"
  /\ \A p \in Request : /\ g[p].status # "none" => Answered(s, g[p].key)
                        /\ g[p].status = "ready" => p \in o
  /\ \A p, q \in Request :
       g[p].status # "none" /\ g[q].status # "none" /\ g[p].key = g[q].key => p = q

ReadyAnswersAgree(g, s, o) ==
  \A k \in Key : Answered(s, k) /\ s[k].answer.status = "ready" => Live(g, o, k)

\* The registry's rows g, the answers s and the initialized objects o agree.
Stores(g, s, o) ==
  /\ g \in Rows /\ s \in Responses /\ o \subseteq Request
  /\ RowsAgree(g, s, o) /\ ReadyAnswersAgree(g, s, o)

\* What a request holds is true of the stores.
CallIsSound(c, g, s, o) ==
  /\ c.pc = "compare" => Holds(g, c.pool, c.input.key) /\ (c.seen = "ready" => c.pool \in o)
  /\ c.pc \in AtWork => Holds(g, c.pool, c.input.key) /\ Granted(s, c.input)
  /\ c.pc \in {"ready", "persistReady"} => c.pool \in o
  /\ c.pc = "done" /\ c.answer \in Records =>
       Granted(s, c.input) /\ (c.answer.status = "ready" => Live(g, o, c.input.key))

\* A request that has not come to its reservation has none.
NoneYet(c, row) == c.pc \in {"idle", "replay", "reserve"} => row.status = "none"

CreationInv ==
  /\ Stores(registry, response, objects)
  /\ call \in [Request -> Calls]
  /\ \A r \in Request : /\ CallIsSound(call[r], registry, response, objects)
                        /\ NoneYet(call[r], registry[r])

-----------------------------------------------------------------------------
(* Lemmas *)

\* Reservations, answers and objects stay.
StoresGrow(g, s, o, gg, ss, oo) ==
  /\ \A p \in Request : g[p].status # "none" => gg[p].status # "none" /\ gg[p].key = g[p].key
  /\ \A k \in Key : Answered(s, k) => /\ Answered(ss, k)
                                      /\ ss[k].slug = s[k].slug /\ ss[k].material = s[k].material
  /\ o \subseteq oo

LEMMA CallParts ==
  ASSUME NEW c \in Calls
  PROVE  /\ c.pc # "idle" => c.input \in Input /\ c.input.key \in Key
         /\ c.pc \in {"replay", "reserve", "conflict"} => c \in Asking
         /\ c.pc = "compare" => c \in Comparing
         /\ c.pc \in AtWork => c \in Working
         /\ c.pc = "done" => c \in Done
         /\ c.pc \in {"idle", "replay", "reserve", "conflict", "compare", "done"} \cup AtWork
BY DEF Calls, NotMade, Asking, Comparing, Working, Done, AtWork, Input

\* What a request holds is still true when the stores have grown.
LEMMA CallStays ==
  ASSUME NEW g, NEW s, NEW o, NEW gg, NEW ss, NEW oo, o \subseteq Request,
         StoresGrow(g, s, o, gg, ss, oo), RowsAgree(g, s, o),
         NEW c \in Calls, CallIsSound(c, g, s, o)
  PROVE  CallIsSound(c, gg, ss, oo)
<1>1. ASSUME NEW k, Live(g, o, k) PROVE Live(gg, oo, k)
  <2>1. PICK p \in o : g[p].key = k BY <1>1 DEF Live
  <2>2. gg[p].key = k /\ p \in oo BY <2>1 DEF RowsAgree, StoresGrow
  <2> QED BY <2>2 DEF Live
<1>2. ASSUME NEW in \in Input, Granted(s, in) PROVE Granted(ss, in)
  BY <1>2 DEF Granted, StoresGrow, SameRequest, Input
<1>3. ASSUME NEW p \in Request, NEW k, Holds(g, p, k) PROVE Holds(gg, p, k)
  BY <1>3 DEF Holds, StoresGrow
<1>4. CASE c.pc = "compare"
  <2>1. c.pool \in Request BY <1>4, CallParts DEF Comparing
  <2> QED BY <1>3, <1>4, <2>1 DEF CallIsSound, StoresGrow, AtWork
<1>5. CASE c.pc \in AtWork
  <2>1. c.pool \in Request /\ c.input \in Input BY <1>5, CallParts DEF Working
  <2> QED BY <1>2, <1>3, <1>5, <2>1 DEF CallIsSound, StoresGrow, AtWork
<1>6. CASE c.pc = "done"
  <2>1. c.input \in Input BY <1>6, CallParts DEF Done
  <2> QED BY <1>1, <1>2, <1>6, <2>1 DEF CallIsSound, AtWork
<1>7. CASE c.pc \notin {"compare", "done"} \cup AtWork
  BY <1>7 DEF CallIsSound, AtWork
<1> QED BY <1>4, <1>5, <1>6, <1>7

\* A step of r keeps the invariant if the stores grow and agree, what r holds is sound,
\* and no row is reserved but under r, with r past it.
LEMMA StepKeeps ==
  ASSUME CreationInv, NEW r \in Request, NEW c \in Calls,
         call' = [call EXCEPT ![r] = c],
         Stores(registry', response', objects'),
         StoresGrow(registry, response, objects, registry', response', objects'),
         CallIsSound(c, registry', response', objects'),
         NoneYet(c, registry'[r]),
         \A q \in Request \ {r} : registry[q].status = "none" => registry'[q].status = "none"
  PROVE  CreationInv'
<1>1. call' \in [Request -> Calls] BY DEF CreationInv
<1>2. ASSUME NEW q \in Request
      PROVE  /\ CallIsSound(call'[q], registry', response', objects')
             /\ NoneYet(call'[q], registry'[q])
  <2>1. CASE q = r BY <2>1 DEF CreationInv
  <2>2. CASE q # r
    <3>1. call'[q] = call[q] /\ call[q] \in Calls BY <2>2 DEF CreationInv
    <3>2. CallIsSound(call[q], registry', response', objects')
      BY <3>1, CallStays DEF CreationInv, Stores
    <3>3. NoneYet(call[q], registry'[q]) BY <2>2 DEF CreationInv, NoneYet
    <3> QED BY <3>1, <3>2, <3>3
  <2> QED BY <2>1, <2>2
<1> QED BY <1>1, <1>2 DEF CreationInv

LEMMA CreationInitially == RegistryInit => CreationInv
<1> SUFFICES ASSUME RegistryInit PROVE CreationInv OBVIOUS
<1> USE DEF RegistryInit, Unreserved, NoAnswer, NotMade
<1>1. registry \in Rows /\ response \in Responses /\ call \in [Request -> Calls]
  BY DEF Rows, Responses, Calls
<1>2. RowsAgree(registry, response, objects) BY DEF RowsAgree
<1>3. ReadyAnswersAgree(registry, response, objects) BY DEF ReadyAnswersAgree, Answered
<1>4. ASSUME NEW r \in Request
      PROVE  CallIsSound(call[r], registry, response, objects) /\ NoneYet(call[r], registry[r])
  BY DEF CallIsSound, NoneYet, AtWork
<1> QED BY <1>1, <1>2, <1>3, <1>4 DEF CreationInv, Stores

(* Lemmas: what a request becomes *)

Given(c, a)  == [pc |-> "done", input |-> c.input, answer |-> a]
Moved(c, pc) == [c EXCEPT !.pc = pc]

\* What an answer promises.
Deserved(in, a, g, s, o) ==
  a \in Records => Granted(s, in) /\ (a.status = "ready" => Live(g, o, in.key))

LEMMA AnswerIs ==
  ASSUME NEW r, NEW a, Answer(r, a)
  PROVE  call' = [call EXCEPT ![r] = Given(call[r], a)]
BY DEF Answer, Given

LEMMA StepIs ==
  ASSUME NEW r, NEW pc, StepTo(r, pc)
  PROVE  call' = [call EXCEPT ![r] = Moved(call[r], pc)]
BY DEF StepTo, Moved

LEMMA GivenIsSound ==
  ASSUME NEW c \in Calls, c.pc # "idle", NEW a \in {NoAnswer} \cup Records \cup Refusals,
         NEW g, NEW s, NEW o, NEW row, Deserved(c.input, a, g, s, o)
  PROVE  /\ Given(c, a) \in Calls
         /\ CallIsSound(Given(c, a), g, s, o) /\ NoneYet(Given(c, a), row)
<1>1. c.input \in Input BY CallParts
<1>2. Given(c, a) \in Done BY <1>1 DEF Given, Done
<1> QED BY <1>2 DEF Given, Calls, CallIsSound, NoneYet, AtWork, Deserved

\* Errors and silence promise nothing.
LEMMA NoRecord ==
  ASSUME NEW in, NEW a \in {NoAnswer} \cup Refusals, NEW g, NEW s, NEW o
  PROVE  Deserved(in, a, g, s, o)
BY DEF Deserved, Records, Refusals, NoAnswer

LEMMA RefusalsAre ==
  \A code \in {"IDEMPOTENCY_CONFLICT", "SLUG_RESERVED", "INTERNAL"} : Refused(code) \in Refusals
BY DEF Refused, Refusals

LEMMA AskingMoves ==
  ASSUME NEW c \in Asking, NEW pc \in {"reserve", "conflict"}, NEW g, NEW s, NEW o, NEW row,
         pc = "reserve" => row.status = "none"
  PROVE  /\ Moved(c, pc) \in Calls
         /\ CallIsSound(Moved(c, pc), g, s, o) /\ NoneYet(Moved(c, pc), row)
<1>1. Moved(c, pc) \in Asking /\ Moved(c, pc).pc = pc BY DEF Moved, Asking
<1> QED BY <1>1 DEF Calls, CallIsSound, NoneYet, AtWork

LEMMA WorkingMoves ==
  ASSUME NEW c \in Working, NEW pc \in AtWork, NEW g, NEW s, NEW o, NEW row,
         Holds(g, c.pool, c.input.key), Granted(s, c.input),
         pc \in {"ready", "persistReady"} => c.pool \in o
  PROVE  /\ Moved(c, pc) \in Calls
         /\ CallIsSound(Moved(c, pc), g, s, o) /\ NoneYet(Moved(c, pc), row)
<1>1. /\ Moved(c, pc) \in Working /\ Moved(c, pc).pc = pc
      /\ Moved(c, pc).input = c.input /\ Moved(c, pc).pool = c.pool
  BY DEF Moved, Working
<1> QED BY <1>1 DEF Calls, CallIsSound, NoneYet, AtWork

\* A request begins its work on a pool it holds.
Begun(in, pool) == [pc |-> "initialize", input |-> in, pool |-> pool]

LEMMA BegunIsSound ==
  ASSUME NEW in \in Input, NEW pool \in Request, NEW g, NEW s, NEW o, NEW row,
         Holds(g, pool, in.key), Granted(s, in)
  PROVE  /\ Begun(in, pool) \in Calls
         /\ CallIsSound(Begun(in, pool), g, s, o) /\ NoneYet(Begun(in, pool), row)
<1>1. Begun(in, pool) \in Working BY DEF Begun, Working, AtWork
<1> QED BY <1>1 DEF Begun, Calls, CallIsSound, NoneYet, AtWork

(* Lemmas: what the stores become *)

LEMMA StoresRest ==
  ASSUME CreationInv, UNCHANGED <<registry, response, objects>>
  PROVE  /\ Stores(registry', response', objects')
         /\ StoresGrow(registry, response, objects, registry', response', objects')
         /\ \A q \in Request : registry'[q] = registry[q]
BY DEF CreationInv, StoresGrow

LEMMA ObjectIsMade ==
  ASSUME NEW g, NEW s, NEW o, Stores(g, s, o), NEW p \in Request, g[p].status # "none"
  PROVE  Stores(g, s, o \cup {p}) /\ StoresGrow(g, s, o, g, s, o \cup {p})
<1>1. RowsAgree(g, s, o \cup {p}) BY DEF Stores, RowsAgree
<1>2. ReadyAnswersAgree(g, s, o \cup {p}) BY DEF Stores, ReadyAnswersAgree, Live
<1> QED BY <1>1, <1>2 DEF Stores, StoresGrow

WithStatus(g, p, st) == [g EXCEPT ![p].status = st]

LEMMA StatusIsSet ==
  ASSUME NEW g, NEW s, NEW o, Stores(g, s, o), NEW p \in Request, g[p].status # "none",
         NEW st \in Status, st = "ready" => p \in o
  PROVE  /\ Stores(WithStatus(g, p, st), s, o)
         /\ StoresGrow(g, s, o, WithStatus(g, p, st), s, o)
         /\ \A q \in Request : g[q].status = "none" => WithStatus(g, p, st)[q].status = "none"
         /\ WithStatus(g, p, st)[p].status # "none"
         /\ \A k : Holds(g, p, k) => Holds(WithStatus(g, p, st), p, k)
<1> DEFINE row == [g[p] EXCEPT !.status = st]
<1>1. g \in Rows /\ g[p] \in Row BY DEF Stores, Rows, Unreserved
<1>2. row \in Row /\ row.status = st /\ row.key = g[p].key BY <1>1 DEF Row
<1>3. WithStatus(g, p, st) = [g EXCEPT ![p] = row] BY DEF WithStatus
<1> HIDE DEF row
<1>4. WithStatus(g, p, st) \in Rows BY <1>1, <1>2, <1>3 DEF Rows
<1>5. /\ \A q \in Request : q # p => WithStatus(g, p, st)[q] = g[q]
      /\ WithStatus(g, p, st)[p] = row
  BY <1>1, <1>3 DEF Rows
<1>6. \A q \in Request : WithStatus(g, p, st)[q].key = g[q].key BY <1>2, <1>5
<1>7. st # "none" BY DEF Status
<1>8. RowsAgree(WithStatus(g, p, st), s, o)
  BY <1>2, <1>5, <1>6, <1>7 DEF Stores, RowsAgree
<1>9. ReadyAnswersAgree(WithStatus(g, p, st), s, o)
  BY <1>6 DEF Stores, ReadyAnswersAgree, Live
<1>10. StoresGrow(g, s, o, WithStatus(g, p, st), s, o)
  BY <1>2, <1>5, <1>6, <1>7 DEF StoresGrow
<1> QED BY <1>2, <1>4, <1>5, <1>6, <1>7, <1>8, <1>9, <1>10 DEF Stores, Holds

WithAnswer(s, k, a) == [s EXCEPT ![k].answer = a]

LEMMA AnswerIsStored ==
  ASSUME NEW g, NEW s, NEW o, Stores(g, s, o), NEW k \in Key, Answered(s, k),
         NEW a \in Records, a.status = "ready" => Live(g, o, k)
  PROVE  /\ Stores(g, WithAnswer(s, k, a), o)
         /\ StoresGrow(g, s, o, g, WithAnswer(s, k, a), o)
         /\ \A in \in Input : Granted(s, in) => Granted(WithAnswer(s, k, a), in)
         /\ \A j \in Key : j # k => WithAnswer(s, k, a)[j] = s[j]
<1> DEFINE x == [s[k] EXCEPT !.answer = a]
<1>1. s \in Responses /\ s[k] \in Stored BY DEF Stores, Responses, Answered
<1>2. x \in Stored /\ x.answer = a /\ x.slug = s[k].slug /\ x.material = s[k].material
  BY <1>1 DEF Stored
<1>3. WithAnswer(s, k, a) = [s EXCEPT ![k] = x] BY DEF WithAnswer
<1> HIDE DEF x
<1>4. WithAnswer(s, k, a) \in Responses BY <1>1, <1>2, <1>3 DEF Responses
<1>5. /\ \A j \in Key : j # k => WithAnswer(s, k, a)[j] = s[j]
      /\ WithAnswer(s, k, a)[k] = x
  BY <1>1, <1>3 DEF Responses
<1>6. a # NoAnswer BY DEF Records, NoAnswer
<1>7. \A j \in Key : Answered(s, j) => Answered(WithAnswer(s, k, a), j)
  BY <1>2, <1>5, <1>6 DEF Answered
<1>8. \A p \in Request : g[p].status # "none" => g[p].key \in Key
  BY DEF Stores, Rows, Row, Unreserved
<1>9. RowsAgree(g, WithAnswer(s, k, a), o) BY <1>7, <1>8 DEF Stores, RowsAgree
<1>10. ReadyAnswersAgree(g, WithAnswer(s, k, a), o)
  BY <1>2, <1>5 DEF Stores, ReadyAnswersAgree, Answered
<1>11. StoresGrow(g, s, o, g, WithAnswer(s, k, a), o)
  BY <1>2, <1>5, <1>7 DEF StoresGrow
<1>12. \A in \in Input : Granted(s, in) => Granted(WithAnswer(s, k, a), in)
  BY <1>11 DEF Granted, StoresGrow, SameRequest, Input
<1> QED BY <1>4, <1>5, <1>9, <1>10, <1>11, <1>12 DEF Stores

\* A stored answer that is final stays.
Stands == \A k \in Key : Final(response[k].answer) => response'[k] = response[k]

LEMMA PersistingKeeps ==
  ASSUME CreationInv, NEW k \in Key, Answered(response, k), NEW a \in Records,
         a.status = "ready" => Live(registry, objects, k), persistResponse(k, a),
         UNCHANGED <<registry, objects>>
  PROVE  /\ Stores(registry', response', objects')
         /\ StoresGrow(registry, response, objects, registry', response', objects')
         /\ \A q \in Request : registry'[q] = registry[q]
         /\ \A in \in Input : Granted(response, in) => Granted(response', in)
         /\ Stands
<1>1. CASE response[k].answer.status = "initializing"
  <2>1. response' = WithAnswer(response, k, a) BY <1>1 DEF persistResponse, WithAnswer
  <2>2. Stores(registry, response, objects) BY DEF CreationInv
  <2>3. Stands BY <1>1, <2>1, <2>2, AnswerIsStored DEF Stands, Final
  <2> QED BY <2>1, <2>2, <2>3, AnswerIsStored
<1>2. CASE response[k].answer.status # "initializing"
  <2>1. response' = response BY <1>2 DEF persistResponse
  <2> QED BY <2>1, StoresRest DEF Stands
<1> QED BY <1>1, <1>2

(* Each action keeps the invariant and the answers that are final *)

\* Names for what a step of r leaves behind.
LEMMA CallOf ==
  ASSUME CreationInv, NEW r \in Request
  PROVE  /\ call[r] \in Calls /\ CallIsSound(call[r], registry, response, objects)
         /\ NoneYet(call[r], registry[r])
         /\ Stores(registry, response, objects)
BY DEF CreationInv

\* A request that leaves the stores alone.
LEMMA QuietStep ==
  ASSUME CreationInv, NEW r \in Request, NEW c \in Calls,
         call' = [call EXCEPT ![r] = c], UNCHANGED <<registry, response, objects>>,
         CallIsSound(c, registry, response, objects), NoneYet(c, registry[r])
  PROVE  CreationInv' /\ Stands
<1>1. CallIsSound(c, registry', response', objects') /\ NoneYet(c, registry'[r]) OBVIOUS
<1> QED BY <1>1, StoresRest, StepKeeps DEF Stands

LEMMA QuietAnswer ==
  ASSUME CreationInv, NEW r \in Request, call[r].pc # "idle",
         NEW a \in {NoAnswer} \cup Records \cup Refusals,
         Answer(r, a), UNCHANGED <<registry, response, objects>>,
         Deserved(call[r].input, a, registry, response, objects)
  PROVE  CreationInv' /\ Stands
BY CallOf, AnswerIs, GivenIsSound, QuietStep

LEMMA CallKeeps ==
  ASSUME CreationInv, NEW r \in Request, NEW in \in Sends[r], Call(r, in)
  PROVE  CreationInv' /\ Stands
<1> DEFINE c == [pc |-> "replay", input |-> in]
<1>1. in \in Input BY FaultsAssumption DEF Input
<1>2. c \in Asking BY <1>1 DEF Asking
<1>3. c \in Calls BY <1>2 DEF Calls
<1>4. CallIsSound(c, registry, response, objects) BY DEF CallIsSound, AtWork
<1>5. NoneYet(c, registry[r]) BY CallOf DEF NoneYet, Call, Stage
<1>6. call' = [call EXCEPT ![r] = c] /\ UNCHANGED <<registry, response, objects>> BY DEF Call
<1> QED BY <1>3, <1>4, <1>5, <1>6, QuietStep

LEMMA ReplayKeeps ==
  ASSUME CreationInv, NEW r \in Request, Replay(r)
  PROVE  CreationInv' /\ Stands
<1> DEFINE in == call[r].input
<1>1. /\ call[r].pc = "replay" /\ UNCHANGED <<registry, response, objects>>
      /\ call[r] \in Asking /\ in \in Input /\ in.key \in Key
  BY CallOf, CallParts DEF Replay, Stage
<1>2. CASE ~Responded(in.key)
  <2>1. StepTo(r, "reserve") BY <1>2 DEF Replay
  <2>2. registry[r].status = "none" BY <1>1, CallOf DEF NoneYet
  <2> QED BY <1>1, <2>1, <2>2, StepIs, AskingMoves, QuietStep
<1>3. CASE Responded(in.key) /\ SameRequest(response[in.key], in)
  <2>1. Answer(r, response[in.key].answer) BY <1>3 DEF Replay
  <2>2. response[in.key].answer \in Records
    BY <1>1, <1>3, CallOf DEF Responded, Stores, Responses, Stored
  <2>3. Deserved(in, response[in.key].answer, registry, response, objects)
    BY <1>1, <1>3, CallOf DEF Deserved, Granted, Answered, Responded, Stores, ReadyAnswersAgree
  <2> QED BY <1>1, <2>1, <2>2, <2>3, QuietAnswer
<1>4. CASE Responded(in.key) /\ ~SameRequest(response[in.key], in)
  <2>1. Answer(r, Refused("IDEMPOTENCY_CONFLICT")) BY <1>4 DEF Replay
  <2> QED BY <1>1, <2>1, RefusalsAre, NoRecord, QuietAnswer
<1> QED BY <1>2, <1>3, <1>4

\* The batch that makes a reservation.
LEMMA InsertKeeps ==
  ASSUME CreationInv, NEW r \in Request, call[r].pc = "reserve",
         Reservable(call[r].input), Insert(r, call[r].input), UNCHANGED objects
  PROVE  /\ Stores(registry', response', objects')
         /\ StoresGrow(registry, response, objects, registry', response', objects')
         /\ \A q \in Request \ {r} : registry'[q] = registry[q]
         /\ Holds(registry', r, call[r].input.key) /\ Granted(response', call[r].input)
         /\ Stands
<1> DEFINE in == call[r].input
           row == [status |-> "initializing", key |-> in.key, slug |-> in.slug]
           ans == [answer |-> Record("initializing", 0), slug |-> in.slug,
                   material |-> in.material]
<1>1. in \in Input /\ in.key \in Key BY CallOf, CallParts
<1>2. registry \in Rows /\ response \in Responses /\ objects \subseteq Request
  BY CallOf DEF Stores
<1>3. registry' = [registry EXCEPT ![r] = row] /\ response' = [response EXCEPT ![in.key] = ans]
  BY DEF Insert
<1>4. row \in Row /\ row.status = "initializing" /\ row.key = in.key
  BY <1>1 DEF Row, Status, Input
<1>5. Record("initializing", 0) \in Records BY DEF Record, Records, Status
<1>6. /\ ans \in Stored /\ ans.answer = Record("initializing", 0)
      /\ ans.slug = in.slug /\ ans.material = in.material
  BY <1>1, <1>5 DEF Stored, Input
<1>7. registry[r].status = "none" BY CallOf DEF NoneYet
<1>8. ~Answered(response, in.key) /\ \A p \in Request : ~Holds(registry, p, in.key)
  BY DEF Reservable, Responded, Answered, Reserved, Holds
<1> HIDE DEF row, ans
<1>9. registry' \in Rows /\ response' \in Responses
  BY <1>1, <1>2, <1>3, <1>4, <1>6 DEF Rows, Responses
<1>10. /\ \A p \in Request : p # r => registry'[p] = registry[p]
       /\ registry'[r] = row
       /\ \A k \in Key : k # in.key => response'[k] = response[k]
       /\ response'[in.key] = ans
  BY <1>1, <1>2, <1>3 DEF Rows, Responses
<1>11. Record("initializing", 0) # NoAnswer /\ Record("initializing", 0).status = "initializing"
  BY DEF Record, NoAnswer
<1>12. Answered(response', in.key) /\ Granted(response', in)
  BY <1>6, <1>10, <1>11 DEF Answered, Granted, SameRequest
<1>13. \A k \in Key : Answered(response, k) => k # in.key /\ response'[k] = response[k]
  BY <1>8, <1>10
<1>14. \A p \in Request : registry[p].status # "none" =>
          p # r /\ registry[p].key \in Key /\ registry[p].key # in.key
  BY <1>2, <1>7, <1>8 DEF Rows, Row, Unreserved, Holds
<1>15. \A p \in objects : registry'[p] = registry[p] /\ registry[p].status # "none"
  BY <1>7, <1>10, CallOf DEF Stores, RowsAgree
<1>16. StoresGrow(registry, response, objects, registry', response', objects')
  BY <1>10, <1>13, <1>14 DEF StoresGrow, Answered
<1>17. RowsAgree(registry', response', objects)
  <2>1. \A p \in objects : registry'[p].status # "none" BY <1>15
  <2>2. ASSUME NEW p \in Request
        PROVE  /\ registry'[p].status # "none" => Answered(response', registry'[p].key)
               /\ registry'[p].status = "ready" => p \in objects
    <3>1. CASE p = r BY <3>1, <1>4, <1>10, <1>12
    <3>2. CASE p # r
      <4>1. registry[p].status # "none" => Answered(response', registry[p].key)
        BY <1>13, <1>14, CallOf DEF Stores, RowsAgree, Answered
      <4>2. registry[p].status = "ready" => p \in objects BY CallOf DEF Stores, RowsAgree
      <4> QED BY <3>2, <4>1, <4>2, <1>10
    <3> QED BY <3>1, <3>2
  <2>3. ASSUME NEW p \in Request, NEW q \in Request,
               registry'[p].status # "none", registry'[q].status # "none",
               registry'[p].key = registry'[q].key
        PROVE  p = q
    BY <2>3, <1>4, <1>10, <1>14, CallOf DEF Stores, RowsAgree
  <2> QED BY <2>1, <2>2, <2>3 DEF RowsAgree
<1>18. ReadyAnswersAgree(registry', response', objects)
  <2> SUFFICES ASSUME NEW k \in Key, Answered(response', k),
                      response'[k].answer.status = "ready"
               PROVE  Live(registry', objects, k)
    BY DEF ReadyAnswersAgree
  <2>1. k # in.key BY <1>6, <1>10, <1>11
  <2>2. response'[k] = response[k] BY <2>1, <1>10
  <2>3. Live(registry, objects, k)
    BY <2>2, CallOf DEF Stores, ReadyAnswersAgree, Answered
  <2> QED BY <2>3, <1>15 DEF Live
<1>19. Stands
  BY <1>8, <1>10 DEF Stands, Final, Answered, NoAnswer
<1>20. Holds(registry', r, in.key) BY <1>4, <1>10 DEF Holds
<1> QED BY <1>2, <1>9, <1>10, <1>12, <1>16, <1>17, <1>18, <1>19, <1>20 DEF Stores

LEMMA ReserveKeeps ==
  ASSUME CreationInv, NEW r \in Request, Reserve(r)
  PROVE  CreationInv' /\ Stands
<1> DEFINE in == call[r].input
<1>1. /\ call[r].pc = "reserve" /\ objects' = objects
      /\ call[r] \in Calls /\ call[r] \in Asking /\ in \in Input
  BY CallOf, CallParts DEF Reserve, Stage
<1>2. CASE Reservable(in) /\ Insert(r, in) /\ Initialize(r, r)
  <2>1. call' = [call EXCEPT ![r] = Begun(in, r)] BY <1>2 DEF Initialize, Begun
  <2>2. /\ Begun(in, r) \in Calls /\ CallIsSound(Begun(in, r), registry', response', objects')
        /\ NoneYet(Begun(in, r), registry'[r])
    BY <1>1, <1>2, InsertKeeps, BegunIsSound
  <2> QED BY <1>1, <1>2, <2>1, <2>2, InsertKeeps, StepKeeps
<1>3. CASE Reservable(in) /\ Insert(r, in) /\ StepTo(r, "conflict")
  <2>1. call' = [call EXCEPT ![r] = Moved(call[r], "conflict")] BY <1>3, StepIs
  <2>2. /\ Moved(call[r], "conflict") \in Calls
        /\ CallIsSound(Moved(call[r], "conflict"), registry', response', objects')
        /\ NoneYet(Moved(call[r], "conflict"), registry'[r])
    BY <1>1, AskingMoves
  <2> QED BY <1>1, <1>3, <2>1, <2>2, InsertKeeps, StepKeeps
<1>4. CASE StepTo(r, "conflict") /\ UNCHANGED <<registry, response>>
  <2>1. UNCHANGED <<registry, response, objects>> BY <1>1, <1>4
  <2> QED BY <1>1, <1>4, <2>1, StepIs, AskingMoves, QuietStep
<1> QED BY <1>1, <1>2, <1>3, <1>4 DEF Reserve, D1Throws

LEMMA ReadReservationKeeps ==
  ASSUME CreationInv, NEW r \in Request, ReadReservation(r)
  PROVE  CreationInv' /\ Stands
<1> DEFINE in == call[r].input
           found == {p \in Request : Reserved(p) /\ registry[p].key = in.key}
           c(p) == [pc |-> "compare", input |-> in, pool |-> p, seen |-> registry[p].status]
<1>1. /\ call[r].pc = "conflict" /\ UNCHANGED <<registry, response, objects>>
      /\ call[r] \in Calls /\ in \in Input
  BY CallOf, CallParts DEF ReadReservation, Stage
<1>2. CASE found = {}
  <2>1. Answer(r, Refused("SLUG_RESERVED")) BY <1>2 DEF ReadReservation
  <2> QED BY <1>1, <2>1, RefusalsAre, NoRecord, QuietAnswer
<1>3. CASE found # {}
  <2>1. PICK p \in found : call' = [call EXCEPT ![r] = c(p)] BY <1>3 DEF ReadReservation
  <2>2. /\ p \in Request /\ registry[p].status \in Status
        /\ Holds(registry, p, in.key) /\ (registry[p].status = "ready" => p \in objects)
    BY <2>1, CallOf DEF Reserved, Holds, Stores, RowsAgree, Rows, Row, Unreserved
  <2>3. c(p) \in Comparing BY <1>1, <2>2 DEF Comparing
  <2>4. c(p) \in Calls /\ CallIsSound(c(p), registry, response, objects)
        /\ NoneYet(c(p), registry[r])
    BY <2>2, <2>3 DEF Calls, CallIsSound, NoneYet, AtWork
  <2> QED BY <1>1, <2>1, <2>4, QuietStep
<1> QED BY <1>2, <1>3

LEMMA CompareResponseKeeps ==
  ASSUME CreationInv, NEW r \in Request, CompareResponse(r)
  PROVE  CreationInv' /\ Stands
<1> DEFINE in == call[r].input
           seen == call[r].seen
           pool == call[r].pool
<1>1. /\ call[r].pc = "compare" /\ UNCHANGED <<registry, response, objects>>
      /\ call[r] \in Calls /\ call[r] \in Comparing /\ in \in Input
  BY CallOf, CallParts DEF CompareResponse, Stage
<1>2. /\ pool \in Request /\ seen \in Status /\ Holds(registry, pool, in.key)
      /\ seen = "ready" => pool \in objects
      /\ Answered(response, in.key)
  BY <1>1, CallOf DEF Comparing, CallIsSound, Holds, Stores, RowsAgree
<1>3. CASE ~SameRequest(response[in.key], in)
  <2>1. Answer(r, Refused("IDEMPOTENCY_CONFLICT")) BY <1>3 DEF CompareResponse
  <2> QED BY <1>1, <2>1, RefusalsAre, NoRecord, QuietAnswer
<1>4. CASE SameRequest(response[in.key], in) /\ seen = "initializing"
  <2>1. call' = [call EXCEPT ![r] = Begun(in, pool)]
    BY <1>4 DEF CompareResponse, Initialize, Begun
  <2>2. Granted(response, in) BY <1>2, <1>4 DEF Granted
  <2> QED BY <1>1, <1>2, <2>1, <2>2, BegunIsSound, QuietStep
<1>5. CASE SameRequest(response[in.key], in) /\ seen # "initializing"
  <2>1. Answer(r, Record(seen, 0)) BY <1>5 DEF CompareResponse
  <2>2. Record(seen, 0) \in Records /\ Record(seen, 0).status = seen
    BY <1>2 DEF Record, Records
  <2>3. Deserved(in, Record(seen, 0), registry, response, objects)
    BY <1>2, <1>5, <2>2 DEF Deserved, Granted, Live, Holds
  <2> QED BY <1>1, <2>1, <2>2, <2>3, QuietAnswer
<1> QED BY <1>3, <1>4, <1>5

\* What a request at work holds.
LEMMA WorkParts ==
  ASSUME CreationInv, NEW r \in Request, call[r].pc \in AtWork
  PROVE  /\ call[r] \in Calls /\ call[r] \in Working /\ call[r].pc # "idle"
         /\ call[r].input \in Input /\ call[r].input.key \in Key /\ call[r].pool \in Request
         /\ registry[call[r].pool].status # "none"
         /\ Holds(registry, call[r].pool, call[r].input.key)
         /\ Granted(response, call[r].input) /\ Answered(response, call[r].input.key)
         /\ call[r].pc \in {"ready", "persistReady"} => call[r].pool \in objects
BY CallOf, CallParts DEF Working, CallIsSound, Holds, Granted, AtWork

\* A request at work goes on working, in stores that have grown.
LEMMA WorkGoesOn ==
  ASSUME CreationInv, NEW r \in Request, call[r].pc \in AtWork, NEW pc \in AtWork, StepTo(r, pc),
         Stores(registry', response', objects'),
         StoresGrow(registry, response, objects, registry', response', objects'),
         \A q \in Request : registry[q].status = "none" => registry'[q].status = "none",
         pc \in {"ready", "persistReady"} => call[r].pool \in objects'
  PROVE  CreationInv'
<1>1. Holds(registry', call[r].pool, call[r].input.key) BY WorkParts DEF Holds, StoresGrow
<1>2. Granted(response', call[r].input)
  BY WorkParts DEF Granted, StoresGrow, SameRequest
<1>3. /\ Moved(call[r], pc) \in Calls
      /\ CallIsSound(Moved(call[r], pc), registry', response', objects')
      /\ NoneYet(Moved(call[r], pc), registry'[r])
  BY <1>1, <1>2, WorkParts, WorkingMoves
<1> QED BY <1>3, StepIs, StepKeeps

\* A request at work answers, in stores that have grown.
LEMMA WorkEnds ==
  ASSUME CreationInv, NEW r \in Request, call[r].pc \in AtWork,
         NEW a \in {NoAnswer} \cup Records \cup Refusals, Answer(r, a),
         Stores(registry', response', objects'),
         StoresGrow(registry, response, objects, registry', response', objects'),
         \A q \in Request : registry[q].status = "none" => registry'[q].status = "none",
         a \in Records /\ a.status = "ready" => call[r].pool \in objects'
  PROVE  CreationInv'
<1>1. Holds(registry', call[r].pool, call[r].input.key) BY WorkParts DEF Holds, StoresGrow
<1>2. Granted(response', call[r].input)
  BY WorkParts DEF Granted, StoresGrow, SameRequest
<1>3. Deserved(call[r].input, a, registry', response', objects')
  BY <1>1, <1>2 DEF Deserved, Holds, Live
<1>4. /\ Given(call[r], a) \in Calls
      /\ CallIsSound(Given(call[r], a), registry', response', objects')
      /\ NoneYet(Given(call[r], a), registry'[r])
  BY <1>3, WorkParts, GivenIsSound
<1> QED BY <1>4, AnswerIs, StepKeeps

LEMMA InitializePoolKeeps ==
  ASSUME CreationInv, NEW r \in Request, InitializePool(r)
  PROVE  CreationInv' /\ Stands
<1> USE DEF AtWork
<1>1. call[r].pc \in AtWork /\ UNCHANGED <<registry, response>>
  BY DEF InitializePool, Stage
<1>2. Stores(registry, response, objects) BY DEF CreationInv
<1>3. Stands BY <1>1 DEF Stands
<1>4. CASE objects' = objects \cup {call[r].pool} /\ StepTo(r, "ready")
  BY <1>1, <1>2, <1>3, <1>4, WorkParts, ObjectIsMade, WorkGoesOn
<1>5. CASE objects' = objects \cup {call[r].pool} /\ StepTo(r, "failed")
  BY <1>1, <1>2, <1>3, <1>5, WorkParts, ObjectIsMade, WorkGoesOn
<1>6. CASE objects' = objects /\ StepTo(r, "failed")
  BY <1>1, <1>3, <1>6, StoresRest, WorkGoesOn
<1> QED BY <1>4, <1>5, <1>6 DEF InitializePool

LEMMA SetStatusKeeps ==
  ASSUME CreationInv, NEW r \in Request, call[r].pc \in AtWork, NEW st \in Status,
         SetStatus(call[r].pool, st), st = "ready" => call[r].pool \in objects,
         UNCHANGED <<response, objects>>
  PROVE  /\ Stores(registry', response', objects')
         /\ StoresGrow(registry, response, objects, registry', response', objects')
         /\ \A q \in Request : registry[q].status = "none" => registry'[q].status = "none"
<1>1. registry' = WithStatus(registry, call[r].pool, st) BY DEF SetStatus, WithStatus
<1>2. Stores(registry, response, objects) BY DEF CreationInv
<1> QED BY <1>1, <1>2, WorkParts, StatusIsSet

LEMMA MarkReadyKeeps ==
  ASSUME CreationInv, NEW r \in Request, MarkReady(r)
  PROVE  CreationInv' /\ Stands
<1> USE DEF AtWork
<1>1. /\ call[r].pc = "ready" /\ call[r].pc \in AtWork /\ UNCHANGED <<response, objects>>
      /\ call[r].pool \in objects /\ "ready" \in Status
  BY WorkParts DEF MarkReady, Stage, Status
<1>2. Stands BY <1>1 DEF Stands
<1>3. CASE SetStatus(call[r].pool, "ready") /\ StepTo(r, "persistReady")
  BY <1>1, <1>2, <1>3, SetStatusKeeps, WorkGoesOn
<1>4. CASE SetStatus(call[r].pool, "ready") /\ StepTo(r, "failed")
  BY <1>1, <1>2, <1>4, SetStatusKeeps, WorkGoesOn
<1>5. CASE registry' = registry /\ StepTo(r, "failed")
  BY <1>1, <1>2, <1>5, StoresRest, WorkGoesOn
<1> QED BY <1>3, <1>4, <1>5 DEF MarkReady, D1Throws

LEMMA PersistReadyKeeps ==
  ASSUME CreationInv, NEW r \in Request, PersistReady(r)
  PROVE  CreationInv' /\ Stands
<1> USE DEF AtWork
<1> DEFINE a == Record("ready", 1)
<1>1. /\ call[r].pc = "persistReady" /\ call[r].pc \in AtWork
      /\ UNCHANGED <<registry, objects>> /\ call[r].pool \in objects
  BY WorkParts DEF PersistReady, Stage
<1>2. a \in Records BY DEF Record, Records, Status
<1>3. Live(registry, objects, call[r].input.key) BY <1>1, WorkParts DEF Live, Holds
<1> HIDE DEF a
<1>4. CASE persistResponse(call[r].input.key, a) /\ Answer(r, a)
  BY <1>1, <1>2, <1>3, <1>4, WorkParts, PersistingKeeps, WorkEnds
<1>5. CASE persistResponse(call[r].input.key, a) /\ StepTo(r, "failed")
  BY <1>1, <1>2, <1>3, <1>5, WorkParts, PersistingKeeps, WorkGoesOn
<1>6. CASE response' = response /\ StepTo(r, "failed")
  BY <1>1, <1>6, StoresRest, WorkGoesOn DEF Stands
<1> QED BY <1>4, <1>5, <1>6 DEF PersistReady, D1Throws, a

LEMMA MarkFailedKeeps ==
  ASSUME CreationInv, NEW r \in Request, MarkFailed(r)
  PROVE  CreationInv' /\ Stands
<1> USE DEF AtWork
<1>1. /\ call[r].pc \in AtWork /\ UNCHANGED <<response, objects>> /\ "failed" \in Status
  BY DEF MarkFailed, Stage, Status
<1>2. Stands BY <1>1 DEF Stands
<1>3. Refused("INTERNAL") \in Refusals /\ Refused("INTERNAL") \notin Records
  BY RefusalsAre DEF Refusals, Records
<1>4. CASE SetStatus(call[r].pool, "failed") /\ StepTo(r, "persistFailed")
  BY <1>1, <1>2, <1>4, SetStatusKeeps, WorkGoesOn
<1>5. CASE SetStatus(call[r].pool, "failed") /\ Answer(r, Refused("INTERNAL"))
  BY <1>1, <1>2, <1>3, <1>5, SetStatusKeeps, WorkEnds
<1>6. CASE registry' = registry /\ Answer(r, Refused("INTERNAL"))
  BY <1>1, <1>2, <1>3, <1>6, StoresRest, WorkEnds
<1> QED BY <1>4, <1>5, <1>6 DEF MarkFailed, Throws

LEMMA PersistFailedKeeps ==
  ASSUME CreationInv, NEW r \in Request, PersistFailed(r)
  PROVE  CreationInv' /\ Stands
<1> USE DEF AtWork
<1>1. call[r].pc \in AtWork /\ UNCHANGED <<registry, objects>> BY DEF PersistFailed, Stage
<1>2. FailedAnswer \in Records /\ FailedAnswer.status = "failed"
  BY DEF FailedAnswer, Record, Records, Status
<1>3. Refused("INTERNAL") \in Refusals /\ Refused("INTERNAL") \notin Records
  BY RefusalsAre DEF Refusals, Records
<1>4. CASE persistResponse(call[r].input.key, FailedAnswer) /\ Answer(r, FailedAnswer)
  BY <1>1, <1>2, <1>4, WorkParts, PersistingKeeps, WorkEnds
<1>5. CASE persistResponse(call[r].input.key, FailedAnswer) /\ Answer(r, Refused("INTERNAL"))
  BY <1>1, <1>2, <1>3, <1>5, WorkParts, PersistingKeeps, WorkEnds
<1>6. CASE response' = response /\ Answer(r, Refused("INTERNAL"))
  BY <1>1, <1>3, <1>6, StoresRest, WorkEnds DEF Stands
<1> QED BY <1>4, <1>5, <1>6 DEF PersistFailed, Throws

LEMMA StopKeeps ==
  ASSUME CreationInv, NEW r \in Request, Stop(r)
  PROVE  CreationInv' /\ Stands
BY NoRecord, QuietAnswer DEF Stop

LEMMA CreationSteps ==
  ASSUME CreationInv, [RegistryNext]_registryVars
  PROVE  CreationInv' /\ Stands
<1>1. ASSUME NEW r \in Request, Step(r) PROVE CreationInv' /\ Stands
  BY <1>1, ReplayKeeps, ReserveKeeps, ReadReservationKeeps, CompareResponseKeeps,
     InitializePoolKeeps, MarkReadyKeeps, PersistReadyKeeps, MarkFailedKeeps,
     PersistFailedKeeps DEF Step
<1>2. CASE UNCHANGED registryVars
  <2>1. UNCHANGED <<registry, response, objects>> /\ call' = call BY <1>2 DEF registryVars
  <2> QED BY <2>1 DEF CreationInv, Stands
<1> QED BY <1>1, <1>2, CallKeeps, StopKeeps DEF RegistryNext

-----------------------------------------------------------------------------
(* The theorems *)

\* A row, an answer or a request is not taken for another.
LEMMA CreationImplies ==
  CreationInv => RegistryTypeOK /\ PoolsAreReserved /\ ReadyIsInitialized /\ RecordsAreTheRequesters
<1> SUFFICES ASSUME CreationInv
             PROVE  RegistryTypeOK /\ PoolsAreReserved /\ ReadyIsInitialized /\ RecordsAreTheRequesters
  OBVIOUS
<1>1. /\ registry \in Rows /\ response \in Responses /\ objects \subseteq Request
      /\ RowsAgree(registry, response, objects) /\ ReadyAnswersAgree(registry, response, objects)
  BY DEF CreationInv, Stores
<1>2. RegistryTypeOK
  <2>1. ASSUME NEW r \in Request
        PROVE  /\ call[r].pc \in {"idle", "replay", "reserve", "conflict", "compare", "initialize",
                                  "ready", "persistReady", "failed", "persistFailed", "done"}
               /\ call[r].pc # "idle" => call[r].input \in Input
               /\ call[r].pc \in {"compare"} \cup AtWork => call[r].pool \in Request
    BY CallOf, CallParts DEF AtWork, Comparing, Working
  <2> QED BY <1>1, <2>1 DEF RegistryTypeOK, Rows, Row, Responses, Stored, AtWork
<1>3. PoolsAreReserved BY <1>1 DEF PoolsAreReserved, Reserved, RowsAgree
<1>4. ReadyIsInitialized
  <2>1. \A p \in Request : registry[p].status = "ready" => p \in objects BY <1>1 DEF RowsAgree
  <2>2. ASSUME NEW k \in Key, Final(response[k].answer), response[k].answer.status = "ready"
        PROVE  \E p \in objects : registry[p].key = k
    BY <1>1, <2>2 DEF Final, Answered, NoAnswer, ReadyAnswersAgree, Live
  <2>3. ASSUME NEW r \in Request, Stage(r, "done"), Final(call[r].answer),
               call[r].answer.status = "ready"
        PROVE  \E p \in objects : registry[p].key = call[r].input.key
    <3>1. call[r].answer \in Records
      BY <2>3, CallOf, CallParts DEF Stage, Final, Done, NoAnswer, Refusals
    <3> QED BY <2>3, <3>1, CallOf DEF Stage, CallIsSound, Live
  <2> QED BY <2>1, <2>2, <2>3 DEF ReadyIsInitialized
<1>5. RecordsAreTheRequesters
  <2> SUFFICES ASSUME NEW r \in Request, Stage(r, "done"), call[r].answer.kind = "record"
               PROVE  SameRequest(response[call[r].input.key], call[r].input)
    BY DEF RecordsAreTheRequesters
  <2>1. call[r].answer \in Records BY CallOf, CallParts DEF Stage, Done, NoAnswer, Refusals
  <2> QED BY <2>1, CallOf DEF Stage, CallIsSound, Granted
<1> QED BY <1>2, <1>3, <1>4, <1>5

\* However requests to create a pool are repeated, raced, failed and cut off, of any number
\* of keys and slugs: a pool is initialized only under a reservation, and a key comes to
\* own one pool; "ready" is said only of an initialized pool; only the request that made
\* the reservation is given its record; and a final answer stands.
THEOREM CreationOfPoolsIsSafe == RegistrySpec => CreationIsSafe
<1>1. RegistryInit => CreationInv BY CreationInitially
<1>2. CreationInv /\ [RegistryNext]_registryVars => CreationInv' BY CreationSteps
<1>3. CreationInv => RegistryTypeOK /\ PoolsAreReserved /\ ReadyIsInitialized /\ RecordsAreTheRequesters
  BY CreationImplies
<1>4. CreationInv /\ [RegistryNext]_registryVars =>
        [\A k \in Key : Final(response[k].answer) => response'[k] = response[k]]_registryVars
  BY CreationSteps DEF Stands
<1> QED BY <1>1, <1>2, <1>3, <1>4, PTL DEF RegistrySpec, CreationIsSafe, AnswerStands

-----------------------------------------------------------------------------
(***************************************************************************)
(* SettlementMonitor: a wager that was late when a sweep looked is late    *)
(* as long as it is open, for a result that has stood for the grace period *)
(* does not become younger.                                                *)
(***************************************************************************)

Sweeping == [pc : {"idle", "visit", "count", "claim", "mail"}, todo : SUBSET Pool,
             last : 0..NPools, late : BOOLEAN]

StoodLongEnough(p, ages) == \A g \in Legs[p] : ages[g] = 0

MonitorInv ==
  /\ ready \subseteq Pool
  /\ final \in [Game -> Nat]
  /\ sweep \in [Sweep -> Sweeping]
  /\ \A s \in Sweep : sweep[s].late => sweep[s].last \in Pool /\ StoodLongEnough(sweep[s].last, final)

\* A page holds ready pools, and a sweep takes one of those it has to do.
LEMMA PagesArePools == ASSUME ready \subseteq Pool PROVE Page \subseteq Pool
BY DEF Page, Firsts

LEMMA NextIsToDo ==
  ASSUME NEW T, T \subseteq Pool, T # {}
  PROVE  Min(T) \in T
<1>1. T \subseteq Nat BY DEF Pool
<1>2. IsWellFoundedOn(OpToRel(<, Nat), Nat) BY NatLessThanWellFounded
<1>3. PICK x \in T : \A y \in T : ~ (<<y, x>> \in OpToRel(<, Nat)) BY <1>1, <1>2, WFMin
<1>4. ASSUME NEW y \in T PROVE x <= y
  <2>1. x \in Nat /\ y \in Nat BY <1>1
  <2>2. ~ (y < x) BY <1>3, <2>1 DEF OpToRel
  <2> QED BY <2>1, <2>2
<1> QED BY <1>4 DEF Min

LEMMA MonitorStarts == MonitorInit => MonitorInv
<1> SUFFICES ASSUME MonitorInit PROVE MonitorInv OBVIOUS
<1>1. Unseen \in Nat /\ NPools \in Nat BY MonitorAssumption DEF Unseen
<1>2. Resting \in Sweeping /\ Resting.late = FALSE BY <1>1 DEF Resting, Sweeping
<1>3. \A s \in Sweep : sweep[s] = Resting BY DEF MonitorInit
<1> QED BY <1>1, <1>2, <1>3 DEF MonitorInit, MonitorInv

\* What has stood for the grace period goes on standing.
LEMMA ResultsStand ==
  ASSUME MonitorInv, MonitorNext
  PROVE  final' \in [Game -> Nat] /\ \A g \in Game : final[g] = 0 => final'[g] = 0
<1>1. Grace \in Nat /\ Grace # 0 /\ Unseen = Grace + 1 BY MonitorAssumption DEF Unseen
<1>2. final \in [Game -> Nat] BY DEF MonitorInv
<1>3. CASE UNCHANGED final BY <1>2, <1>3
<1>4. CASE \E g \in Game : GameEnds(g) BY <1>1, <1>2, <1>4 DEF GameEnds
<1>5. CASE TimePasses
  <2>1. \A t \in Nat : Less(t) \in Nat /\ Less(0) = 0 BY DEF Less
  <2>2. \A g \in Game : final'[g] = IF final[g] = Unseen THEN Unseen ELSE Less(final[g])
    BY <1>5 DEF TimePasses
  <2>3. \A g \in Game : final'[g] \in Nat /\ (final[g] = 0 => final'[g] = 0)
    BY <1>1, <1>2, <2>1, <2>2
  <2>4. final' = [g \in Game |-> final'[g]] BY <1>5 DEF TimePasses
  <2> QED BY <2>3, <2>4
<1>6. (\E p \in Pool : PoolMoves(p)) \/ (\E s \in Sweep : Start(s) \/ RunStep(s) \/ WorkerStops(s))
        => UNCHANGED final
  BY DEF PoolMoves, Start, RunStep, WorkerStops, Inspect, Count, CheckFails, Claim, AlertFails, Mail,
         Finish, Moves
<1> QED BY <1>3, <1>4, <1>5, <1>6 DEF MonitorNext

\* A sweep that claims an alert has just counted a wager that is late: it was so when
\* the sweep looked, and has not been settled since.
WellFounded(s) ==
  sweep'[s].pc = "claim" /\ sweep[s].pc # "claim" =>
    wager[Inspected(s)] = "open" /\ StoodLongEnough(Inspected(s), final)

\* A step of one sweep changes its record to one of the known form, which is late only
\* about a pool whose results have stood.
LEMMA OneSweepMoves ==
  ASSUME MonitorInv, MonitorNext, NEW s \in Sweep, NEW x \in Sweeping, sweep' = [sweep EXCEPT ![s] = x],
         ready' = ready, x.late => x.last \in Pool /\ StoodLongEnough(x.last, final),
         x.pc = "claim" => wager[Inspected(s)] = "open" /\ StoodLongEnough(Inspected(s), final)
  PROVE  MonitorInv' /\ \A r \in Sweep : WellFounded(r)
<1>1. sweep \in [Sweep -> Sweeping] /\ ready \subseteq Pool BY DEF MonitorInv
<1>2. final' \in [Game -> Nat] /\ \A g \in Game : final[g] = 0 => final'[g] = 0 BY ResultsStand
<1>3. \A p \in Pool : Legs[p] \subseteq Game BY MonitorAssumption
<1>4. \A p \in Pool : StoodLongEnough(p, final) => StoodLongEnough(p, final')
  BY <1>2, <1>3 DEF StoodLongEnough
<1>5. sweep' \in [Sweep -> Sweeping] /\ sweep'[s] = x /\ \A r \in Sweep \ {s} : sweep'[r] = sweep[r]
  BY <1>1
<1>6. \A r \in Sweep : sweep'[r].late => sweep'[r].last \in Pool /\ StoodLongEnough(sweep'[r].last, final)
  BY <1>5 DEF MonitorInv
<1>7. MonitorInv' BY <1>1, <1>2, <1>4, <1>5, <1>6 DEF MonitorInv
<1>8. \A r \in Sweep : WellFounded(r) BY <1>5 DEF WellFounded
<1> QED BY <1>7, <1>8

LEMMA SweepStep ==
  ASSUME MonitorInv, NEW s \in Sweep, Start(s) \/ RunStep(s) \/ WorkerStops(s)
  PROVE  MonitorInv' /\ \A r \in Sweep : WellFounded(r)
<1> DEFINE now == sweep[s]
<1>1. MonitorNext BY DEF MonitorNext
<1>2. now \in Sweeping /\ (now.late => now.last \in Pool /\ StoodLongEnough(now.last, final))
      /\ Inspected(s) = now.last
  BY DEF MonitorInv, Inspected
<1>3. Resting \in Sweeping /\ Resting.late = FALSE /\ Resting.pc = "idle" /\ NPools \in Nat
  BY MonitorAssumption DEF Resting, Sweeping
<1> HIDE DEF now
<1>4. ASSUME NEW x \in Sweeping, Moves(s, x), x.late => x.last \in Pool /\ StoodLongEnough(x.last, final),
             x.pc = "claim" => wager[Inspected(s)] = "open" /\ StoodLongEnough(Inspected(s), final)
      PROVE  MonitorInv' /\ \A r \in Sweep : WellFounded(r)
  BY <1>1, <1>4, OneSweepMoves DEF Moves
<1>5. CASE Start(s)
  <2> DEFINE x == [Resting EXCEPT !.pc = "visit", !.todo = Page]
  <2>1. Page \subseteq Pool BY PagesArePools DEF MonitorInv
  <2>2. x \in Sweeping /\ x.late = FALSE /\ x.pc = "visit" BY <1>3, <2>1 DEF Sweeping
  <2>3. Moves(s, x) BY <1>5 DEF Start
  <2> HIDE DEF x
  <2> QED BY <1>4, <2>2, <2>3
<1>6. CASE Inspect(s)
  <2> DEFINE p == Min(now.todo)
             x == [pc |-> "count", todo |-> now.todo \ {p}, last |-> p, late |-> Late(p)]
  <2>1. now.todo # {} /\ now.todo \subseteq Pool BY <1>2, <1>6 DEF Inspect, Sweeping, now
  <2>2. p \in Pool BY <2>1, NextIsToDo
  <2>3. Moves(s, x) BY <1>6 DEF Inspect, now
  <2> HIDE DEF p
  <2>4. p \in 0..NPools BY <1>3, <2>2 DEF Pool
  <2>5. Late(p) \in BOOLEAN /\ (Late(p) => StoodLongEnough(p, final)) BY DEF Late, StoodLongEnough
  <2>6. x \in Sweeping /\ x.pc = "count" /\ x.last = p /\ x.late = Late(p) BY <2>1, <2>4, <2>5 DEF Sweeping
  <2> HIDE DEF x
  <2> QED BY <1>4, <2>2, <2>3, <2>5, <2>6
<1>7. CASE Count(s)
  <2> DEFINE pc == IF StillLate(s) THEN "claim" ELSE "visit"
             x == [now EXCEPT !.pc = pc, !.late = FALSE]
  <2>1. Moves(s, x) BY <1>7 DEF Count, now
  <2>2. pc \in {"claim", "visit"} /\ (pc = "claim" => StillLate(s)) OBVIOUS
  <2> HIDE DEF pc
  <2>3. x \in Sweeping /\ x.late = FALSE /\ x.pc = pc BY <1>2, <2>2 DEF Sweeping
  <2>4. StillLate(s) => wager[Inspected(s)] = "open" /\ StoodLongEnough(Inspected(s), final)
    BY <1>2 DEF StillLate, now
  <2> HIDE DEF x
  <2> QED BY <1>4, <2>1, <2>2, <2>3, <2>4
<1>8. ASSUME NEW pc \in {"visit", "mail"}, NEW late \in {FALSE, now.late},
             Moves(s, [now EXCEPT !.pc = pc, !.late = late])
      PROVE  MonitorInv' /\ \A r \in Sweep : WellFounded(r)
  <2> DEFINE x == [now EXCEPT !.pc = pc, !.late = late]
  <2>1. x \in Sweeping /\ x.pc # "claim" /\ x.last = now.last /\ x.late = late BY <1>2 DEF Sweeping
  <2> HIDE DEF x
  <2>2. Moves(s, x) BY <1>8 DEF x
  <2> QED BY <1>2, <1>4, <1>8, <2>1, <2>2
<1>9. ASSUME NEW pc \in {"visit", "mail"}, Moves(s, [now EXCEPT !.pc = pc])
      PROVE  MonitorInv' /\ \A r \in Sweep : WellFounded(r)
  <2>1. [now EXCEPT !.pc = pc] = [now EXCEPT !.pc = pc, !.late = now.late] BY <1>2 DEF Sweeping
  <2> QED BY <1>8, <1>9, <2>1
<1>10. CASE CheckFails(s) BY <1>8, <1>10 DEF CheckFails, now
<1>11. CASE Claim(s) BY <1>9, <1>11 DEF Claim, now
<1>12. CASE AlertFails(s) \/ Mail(s) BY <1>9, <1>12 DEF AlertFails, Mail, now
<1>13. CASE Finish(s) \/ WorkerStops(s)
  <2>1. Moves(s, Resting) BY <1>13 DEF Finish, WorkerStops
  <2> QED BY <1>3, <1>4, <2>1
<1> QED BY <1>5, <1>6, <1>7, <1>10, <1>11, <1>12, <1>13 DEF RunStep

\* Around the monitor nothing moves a sweep.
LEMMA WorldKeeps ==
  ASSUME MonitorInv, \/ \E p \in Pool : PoolMoves(p)
                     \/ \E g \in Game : GameEnds(g)
                     \/ TimePasses
  PROVE  MonitorInv' /\ \A r \in Sweep : WellFounded(r)
<1>1. MonitorNext BY DEF MonitorNext
<1>2. final' \in [Game -> Nat] /\ \A g \in Game : final[g] = 0 => final'[g] = 0 BY <1>1, ResultsStand
<1>3. sweep' = sweep BY DEF PoolMoves, GameEnds, TimePasses
<1>4. ready' \subseteq Pool BY DEF PoolMoves, GameEnds, TimePasses, MonitorInv
<1>5. \A p \in Pool : StoodLongEnough(p, final) => StoodLongEnough(p, final')
  BY <1>2, MonitorAssumption DEF StoodLongEnough
<1>6. MonitorInv' BY <1>2, <1>3, <1>4, <1>5 DEF MonitorInv
<1>7. \A r \in Sweep : WellFounded(r) BY <1>3 DEF WellFounded
<1> QED BY <1>6, <1>7

\* However sweeps overlap, fail and are cut off, and whatever is settled or reopened
\* meanwhile: an alert is claimed only for a wager that is open and all of whose
\* results have stood for the grace period.
THEOREM AlertsAreAlwaysTrue == MonitorSpec => OverdueIsTrue
<1>1. MonitorInit => MonitorInv BY MonitorStarts
<1>2. MonitorInv /\ [MonitorNext]_monitorVars => MonitorInv'
  <2>1. CASE UNCHANGED monitorVars BY <2>1 DEF monitorVars, MonitorInv
  <2> QED BY <2>1, SweepStep, WorldKeeps DEF MonitorNext
<1>3. MonitorInv /\ [MonitorNext]_monitorVars =>
        [\A s \in Sweep : sweep'[s].pc = "claim" /\ sweep[s].pc # "claim" =>
           /\ wager[Inspected(s)] = "open"
           /\ \A g \in Legs[Inspected(s)] : final[g] = 0]_monitorVars
  BY SweepStep, WorldKeeps DEF MonitorNext, WellFounded, StoodLongEnough
<1> QED BY <1>1, <1>2, <1>3, PTL DEF MonitorSpec, OverdueIsTrue
=============================================================================
