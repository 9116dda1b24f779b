------------------------- MODULE DirectoryProjection -------------------------
(***************************************************************************)
(* How a pool's committed commands reach the D1 directory.                 *)
(*                                                                         *)
(* A command commits its outbox rows with its changes.  A drain of the     *)
(* outbox records the message in D1, sends it to the queue and marks the   *)
(* row, with an await between each.  The queue delivers at least once, in  *)
(* any order, to several consumers; a consumer reads the directory's       *)
(* state, asks the Durable Object for a snapshot, and replaces the pool's  *)
(* rows in one guarded batch.                                              *)
(*                                                                         *)
(* Abstractions.  Every change of a pool's name, members or seasons raises *)
(* the command version, so a snapshot is its version and a row is the      *)
(* version it was written with.  Backoff and alarms are SettlementAlarm's: *)
(* a drain finds any subset of the pending rows due.  Counters of D1 that  *)
(* are only reported (attempts, timestamps, errors) are left out.          *)
(***************************************************************************)
EXTENDS Naturals, Sequences, FiniteSets

CONSTANTS
  Drain,        \* runs of drainOutbox that may overlap
  Consumer,     \* queue consumers that may overlap
  MaxAttempts,  \* MAX_OUTBOX_ATTEMPTS
  MaxRetries,   \* redeliveries before the queue drops a message
  MaxVersion,   \* bound on command versions
  MaxEvents     \* bound on outbox rows

ASSUME BoundsAssumption ==
  /\ MaxAttempts \in Nat \ {0} /\ MaxRetries \in Nat
  /\ MaxVersion \in Nat /\ MaxEvents \in Nat

VARIABLES
  version,      \* pool.command_version
  outbox,       \* the object's outbox rows; an event is an index of it
  drain,        \* drainOutbox runs in progress
  queue,        \* the Cloudflare queue
  d1,           \* projection_state, the projected rows, projection_delivery
  job           \* consume calls in progress

vars == <<version, outbox, drain, queue, d1, job>>

-----------------------------------------------------------------------------
Table == {"membership_projection", "season_projection"}
Event == 1..MaxEvents

Snapshot(v) == [t \in Table |-> v]

IdleDrain == [pc |-> "idle", rows |-> <<>>]
IdleJob   == [pc |-> "idle", event |-> 0, snapshot |-> 0]

\* Fault: a row that is out of attempts is selected again.
RecoverableForever(e) == ~outbox[e].delivered

Recoverable(e) == ~outbox[e].delivered /\ outbox[e].attempts < MaxAttempts
Exhausted(e)   == ~outbox[e].delivered /\ outbox[e].attempts >= MaxAttempts

Init ==
  /\ version = 0
  /\ outbox = <<>>
  /\ drain = [d \in Drain |-> IdleDrain]
  /\ queue = [held |-> {}, dropped |-> {}, retries |-> [e \in Event |-> 0]]
  /\ d1 = [state |-> 0, rows |-> Snapshot(0), delivery |-> [e \in Event |-> "none"]]
  /\ job = [c \in Consumer |-> IdleJob]

-----------------------------------------------------------------------------
(* The Durable Object *)

\* A transaction that changes the pool and enqueues n rows.  The first one is
\* InitializePool; message board posts enqueue nothing, a closure enqueues two
\* rows, and a JoinPool or TransferCommissioner that changes nothing still
\* enqueues a row with the version as it is.
Command ==
  \E bump \in 0..1, n \in 0..2 :
    /\ bump = 0 => n = 1
    /\ version = 0 => bump = 1 /\ n = 1
    /\ version + bump <= MaxVersion /\ Len(outbox) + n <= MaxEvents
    /\ version' = version + bump
    /\ outbox' = outbox \o [i \in 1..n |->
         [version |-> version', attempts |-> 0, delivered |-> FALSE]]
    /\ UNCHANGED <<drain, queue, d1, job>>

\* The rows due now, in the order of their creation.  A run keeps the attempts it
\* read here until it has dealt with the row.
StartDrain(d, due) ==
  /\ drain[d].pc = "idle" /\ due # {}
  /\ due \subseteq {e \in DOMAIN outbox : Recoverable(e)}
  /\ \E order \in [1..Cardinality(due) -> due] :
       /\ \A i, j \in DOMAIN order : i < j => order[i] < order[j]
       /\ drain' = [drain EXCEPT ![d] =
            [pc   |-> "record",
             rows |-> [i \in DOMAIN order |->
                         [event |-> order[i], attempts |-> outbox[order[i]].attempts]]]]
  /\ UNCHANGED <<version, outbox, queue, d1, job>>

Current(d) == Head(drain[d].rows)

Proceed(d) ==
  drain' = [drain EXCEPT ![d] =
    IF Len(@.rows) > 1 THEN [pc |-> "record", rows |-> Tail(@.rows)] ELSE IdleDrain]

\* Creates the delivery row unless it is there.
Tracked(delivery, e) == [delivery EXCEPT ![e] = IF @ = "none" THEN "queued" ELSE @]

RecordQueued(d) ==
  /\ drain[d].pc = "record"
  /\ d1' = [d1 EXCEPT !.delivery = Tracked(@, Current(d).event)]
  /\ drain' = [drain EXCEPT ![d].pc = "send"]
  /\ UNCHANGED <<version, outbox, queue, job>>

\* Copies of a message are one element; a new copy starts its own redeliveries.
Accept(e) ==
  queue' = [held    |-> queue.held \cup {e},
            dropped |-> queue.dropped \ {e},
            retries |-> [queue.retries EXCEPT ![e] = 0]]

\* Fault: the send is not awaited, and its failure not seen.
SendNotAwaited(d) ==
  /\ drain[d].pc = "send"
  /\ Accept(Current(d).event) \/ UNCHANGED queue
  /\ drain' = [drain EXCEPT ![d].pc = "mark"]
  /\ UNCHANGED <<version, outbox, d1, job>>

Send(d) ==
  /\ drain[d].pc = "send"
  /\ Accept(Current(d).event)
  /\ drain' = [drain EXCEPT ![d].pc = "mark"]
  /\ UNCHANGED <<version, outbox, d1, job>>

MarkSent(d) ==
  /\ drain[d].pc = "mark"
  /\ LET e == Current(d).event
     IN  outbox' = IF outbox[e].delivered THEN outbox
                   ELSE [outbox EXCEPT ![e].attempts = @ + 1, ![e].delivered = TRUE]
  /\ Proceed(d)
  /\ UNCHANGED <<version, queue, d1, job>>

\* D1, the queue or the transaction of the mark throws; the queue may have taken the
\* message all the same.
FailSend(d) ==
  /\ drain[d].pc \in {"record", "send", "mark"}
  /\ \/ UNCHANGED queue
     \/ drain[d].pc = "send" /\ Accept(Current(d).event)
  /\ LET row == Current(d)
     IN  outbox' = IF outbox[row.event].delivered THEN outbox
                   ELSE [outbox EXCEPT ![row.event].attempts = row.attempts + 1]
  /\ Proceed(d)
  /\ UNCHANGED <<version, d1, job>>

\* The object goes down and comes back: its rows stay, its runs are gone.
Restart ==
  /\ \E d \in Drain : drain[d].pc # "idle"
  /\ drain' = [d \in Drain |-> IdleDrain]
  /\ UNCHANGED <<version, outbox, queue, d1, job>>

-----------------------------------------------------------------------------
(* The consumers *)

At(c, pc) == job[c].pc = pc

GoTo(c, pc) == job' = [job EXCEPT ![c].pc = pc]

Delivered(delivery, e) == [delivery EXCEPT ![e] = "delivered"]

\* The delivery of a message, up to and with recordAttempt.
Receive(c, e) ==
  /\ At(c, "idle") /\ e \in queue.held
  /\ job' = [job EXCEPT ![c] = [IdleJob EXCEPT !.pc = "known", !.event = e]]
  /\ d1' = [d1 EXCEPT !.delivery = Tracked(@, e)]
  /\ UNCHANGED <<version, outbox, drain, queue>>

CheckDelivered(c) ==
  /\ At(c, "known")
  /\ GoTo(c, IF d1.delivery[job[c].event] = "delivered" THEN "ack" ELSE "state")
  /\ UNCHANGED <<version, outbox, drain, queue, d1>>

\* Fault: whatever the directory shows already makes a message outdated.
AnyStateOutdates(e) == d1.state # 0

Outdated(e) == d1.state # 0 /\ outbox[e].version <= d1.state

CheckVersion(c) ==
  /\ At(c, "state")
  /\ GoTo(c, IF Outdated(job[c].event) THEN "outdated" ELSE "read")
  /\ UNCHANGED <<version, outbox, drain, queue, d1>>

MarkOutdated(c) ==
  /\ At(c, "outdated")
  /\ d1' = [d1 EXCEPT !.delivery = Delivered(@, job[c].event)]
  /\ GoTo(c, "ack")
  /\ UNCHANGED <<version, outbox, drain, queue>>

\* The snapshot is at least as new as the message, which was sent after its
\* commit: the test for an older one never fails.
ReadSnapshot(c) ==
  /\ At(c, "read")
  /\ job' = [job EXCEPT ![c].pc = "persist", ![c].snapshot = version]
  /\ UNCHANGED <<version, outbox, drain, queue, d1>>

\* Fault: the statements after the first do not test the state.
ReplacedUnguarded(b, v) ==
  [b EXCEPT !.state = IF v > @ THEN v ELSE @, !.rows = Snapshot(v)]

\* Fault: the state takes any version.
ReplacedByLatest(b, v) == [b EXCEPT !.state = v, !.rows = Snapshot(v)]

\* One batch: the state takes the newer version, and every other statement tests
\* that the state is the snapshot's.
Replaced(b, v) ==
  LET state == IF v > b.state THEN v ELSE b.state
  IN  [b EXCEPT !.state = state, !.rows = IF state = v THEN Snapshot(v) ELSE @]

Persist(c) ==
  /\ At(c, "persist")
  /\ d1' = [Replaced(d1, job[c].snapshot) EXCEPT
              !.delivery = Delivered(@, job[c].event)]
  /\ GoTo(c, "ack")
  /\ UNCHANGED <<version, outbox, drain, queue>>

\* At-least-once: an acknowledged message may be delivered again.
Ack(c) ==
  /\ At(c, "ack")
  /\ \/ queue' = [queue EXCEPT !.held = @ \ {job[c].event}]
     \/ UNCHANGED queue
  /\ job' = [job EXCEPT ![c] = IdleJob]
  /\ UNCHANGED <<version, outbox, drain, d1>>

\* Fault: a message that failed is acknowledged.
FailJobAcks(c) ==
  /\ ~At(c, "idle")
  /\ queue' = [queue EXCEPT !.held = @ \ {job[c].event}]
  /\ job' = [job EXCEPT ![c] = IdleJob]
  /\ UNCHANGED <<version, outbox, drain, d1>>

\* D1 or the object fails, or the Worker stops, before or after any step: the
\* message is delivered again until the queue gives it up.
FailJob(c) ==
  /\ ~At(c, "idle")
  /\ LET e == job[c].event
     IN  queue' = IF queue.retries[e] < MaxRetries
                  THEN [queue EXCEPT !.held = @ \cup {e}, !.retries[e] = @ + 1]
                  ELSE [queue EXCEPT !.held = @ \ {e}, !.dropped = @ \cup {e}]
  /\ job' = [job EXCEPT ![c] = IdleJob]
  /\ UNCHANGED <<version, outbox, drain, d1>>

DrainStep(d) == RecordQueued(d) \/ Send(d) \/ MarkSent(d)
JobStep(c) ==
  CheckDelivered(c) \/ CheckVersion(c) \/ MarkOutdated(c) \/ ReadSnapshot(c)
    \/ Persist(c) \/ Ack(c)

Next ==
  \/ Command \/ Restart
  \/ \E d \in Drain :
       \/ \E due \in SUBSET Event : StartDrain(d, due)
       \/ DrainStep(d) \/ FailSend(d)
  \/ \E c \in Consumer :
       \/ \E e \in Event : Receive(c, e)
       \/ JobStep(c) \/ FailJob(c)

Spec == Init /\ [][Next]_vars

On(d, e) == drain[d].rows # <<>> /\ Current(d).event = e

\* The alarm comes back while a row is recoverable (SettlementAlarm!NeverForgotten),
\* and restarts are not timed to strike every pass at the same await of one row.
\* The queue delivers what it holds.
Fairness ==
  /\ \A e \in Event :
       /\ SF_vars(\E d \in Drain, due \in SUBSET Event : e \in due /\ StartDrain(d, due))
       /\ SF_vars(\E d \in Drain : On(d, e) /\ RecordQueued(d))
       /\ SF_vars(\E d \in Drain : On(d, e) /\ Send(d))
       /\ SF_vars(\E d \in Drain : On(d, e) /\ MarkSent(d))
       /\ SF_vars(\E c \in Consumer : Receive(c, e))
  /\ \A c \in Consumer : WF_vars(JobStep(c))

FairSpec == Spec /\ Fairness

-----------------------------------------------------------------------------
(* Properties *)

TypeOK ==
  /\ version \in 0..MaxVersion
  /\ outbox \in Seq([version : 1..MaxVersion, attempts : 0..MaxAttempts + 1,
                     delivered : BOOLEAN])
  /\ Len(outbox) <= MaxEvents
  /\ drain \in [Drain -> [pc : {"idle", "record", "send", "mark"},
                          rows : Seq([event : Event, attempts : 0..MaxAttempts - 1])]]
  /\ queue \in [held : SUBSET Event, dropped : SUBSET Event,
                retries : [Event -> 0..MaxRetries]]
  /\ d1 \in [state : 0..MaxVersion, rows : [Table -> 0..MaxVersion],
             delivery : [Event -> {"none", "queued", "delivered"}]]
  /\ job \in [Consumer ->
       [pc : {"idle", "known", "state", "outdated", "read", "persist", "ack"},
        event : 0..MaxEvents, snapshot : 0..MaxVersion]]

\* Whatever order messages arrive in and however consumers overlap, both tables hold
\* the rows of the one snapshot whose version projection_state records.
RowsAreOneSnapshot == d1.rows = Snapshot(d1.state)

\* A delivery that is recorded as made, by a consumer that wrote rows, lost the race
\* for them or found its message outdated, left the directory at least as new as the
\* command behind the message.
DeliveredIsShown ==
  \A e \in DOMAIN outbox :
    d1.delivery[e] = "delivered" => \A t \in Table : d1.rows[t] >= outbox[e].version

\* A row the object will not send again has its message in the queue's hands, or the
\* queue is done with it.
NoMessageVanishes ==
  \A e \in DOMAIN outbox :
    outbox[e].delivered =>
      e \in queue.held \cup queue.dropped \/ d1.delivery[e] = "delivered"

\* The directory's invariants: what the rows show, what was delivered and what is
\* still on its way account for every command the object enqueued.
RowsAreTrue == RowsAreOneSnapshot /\ DeliveredIsShown /\ NoMessageVanishes

\* The directory lags but shows one moment of the pool and never goes back.
Promise == INSTANCE Directory WITH shown <- d1.rows
Abstract == Promise!Spec

\* Every command that enqueued a row is shown in the end, unless its row runs out of
\* attempts or the queue gives its message up.
ShownOrLost ==
  \A e \in Event :
    (e \in DOMAIN outbox)
      ~> (/\ e \in DOMAIN outbox
          /\ \/ \A t \in Table : d1.rows[t] >= outbox[e].version
             \/ Exhausted(e)
             \/ e \in queue.dropped)
=============================================================================
