------------------------ MODULE SeasonClosureReminder ------------------------
(***************************************************************************)
(* The mail that reminds a commissioner, in the week before the Super      *)
(* Bowl, to let the season end: durable/season-closure-reminder.ts and the *)
(* visit that worker/season-closure-reminder-cron.ts pays a pool.          *)
(*                                                                         *)
(* A visit prepares an attempt in the pool's object, looks up the address  *)
(* of the commissioner in D1, claims the attempt, sends the mail and       *)
(* completes it.  Visits overlap, any call can fail with or without        *)
(* effect, and the Worker can stop between any two.  Each operation of the *)
(* object is one transaction.                                              *)
(*                                                                         *)
(* One season, one candidate game (the code never replaces a candidate).   *)
(* Time 0 stands for a null timestamp.  A token is the visit that holds    *)
(* it; a call of a visit takes effect while the visit lasts or never.      *)
(***************************************************************************)
EXTENDS Naturals, FiniteSets, FiniteSetsExt

CONSTANTS
  Visit,
  Person, Creator,   \* who can be commissioner, and who is at first
  Address, NoAddress,
  Kickoff,
  EligibilityWindow, RetryWindow, Lease, RetryDelay,
  DedupWindow,       \* how long the mail provider remembers an idempotency key
  MaxTime, MaxChanges   \* bounds of the model

ASSUME CreatorAssumption == Creator \in Person

ASSUME TimeAssumption ==
  /\ {Kickoff, EligibilityWindow, RetryWindow, Lease, RetryDelay, DedupWindow,
      MaxTime, MaxChanges} \subseteq Nat
  /\ 0 < Lease /\ RetryWindow + Lease <= DedupWindow /\ 0 < MaxTime

VARIABLES
  clock,
  pool,      \* the authority: pool, season and season_super_bowl
  email,     \* D1: the address of each account
  row,       \* the season's season_closure_reminder row
  visit,     \* the visits in progress
  mail       \* the provider, for the season's key: the mails it was asked for, when it
             \* first accepted one, and the copies it sent (2 is two or more)

vars == <<clock, pool, email, row, visit, mail>>

Time == 0..MaxTime
Outcome == {"pending", "reserved", "attempting", "accepted", "provider_failed",
            "authority_changed"}
Payload == [to: Address, name: 0..MaxChanges]

NoRow == [known |-> FALSE, commissioner |-> Creator, to |-> NoAddress,
          name |-> 0, first |-> 0, deadline |-> 0, token |-> {}, lease |-> 0, next |-> 0,
          outcome |-> "pending", delivered |-> FALSE, terminal |-> FALSE]

Idle == [pc |-> "idle", commissioner |-> Creator, to |-> NoAddress,
         name |-> 0, until |-> 0]

TypeOK ==
  /\ clock \in 1..MaxTime
  /\ pool \in [active: BOOLEAN, candidate: BOOLEAN, confirmed: BOOLEAN,
               commissioner: Person, name: 0..MaxChanges, changes: 0..MaxChanges]
  /\ email \in [Person -> Address \cup {NoAddress}]
  /\ row \in [known: BOOLEAN, commissioner: Person, to: Address \cup {NoAddress},
              name: 0..MaxChanges, first: Time, deadline: 0..Kickoff,
              token: SUBSET Visit, lease: 0..MaxTime + Lease,
              next: 0..MaxTime + RetryDelay, outcome: Outcome,
              delivered: BOOLEAN, terminal: BOOLEAN]
  /\ Cardinality(row.token) <= 1
  /\ row.outcome \in {"reserved", "attempting"} /\ ~row.terminal => row.token # {}
  /\ visit \in [Visit -> [pc: {"idle", "lookup", "claim", "send", "complete", "fail"},
                          commissioner: Person, to: Address \cup {NoAddress},
                          name: 0..MaxChanges, until: 0..MaxTime + Lease]]
  /\ mail \in [asked: SUBSET Payload, first: Time, copies: 0..2]

Init ==
  /\ clock = 1
  /\ pool \in [active: {TRUE}, candidate: {FALSE}, confirmed: {FALSE},
               commissioner: {Creator}, name: {0}, changes: {0}]
  /\ email \in [Person -> Address]
  /\ row = NoRow
  /\ visit = [v \in Visit |-> Idle]
  /\ mail = [asked |-> {}, first |-> 0, copies |-> 0]

-----------------------------------------------------------------------------
(* Around the reminder *)

\* The calls of a visit are cut off after seconds, a lease lasts minutes: a claimed
\* mail is sent, or the visit is over, before its lease ends.
Tick ==
  /\ clock < MaxTime
  /\ \A v \in Visit : visit[v].pc = "send" => clock + 1 < visit[v].until
  /\ clock' = clock + 1
  /\ UNCHANGED <<pool, email, row, visit, mail>>

\* The alarm finds the game; the commissioner lets the season end; the season closes.
Discover == pool.active /\ pool' = [pool EXCEPT !.candidate = TRUE]
Confirm  == /\ pool.active /\ pool.candidate
            /\ pool' = [pool EXCEPT !.confirmed = TRUE]
Close    == pool' = [pool EXCEPT !.active = FALSE]

\* The pool changes hands or name: at most MaxChanges times, accounts included.
Transfer == /\ pool.changes < MaxChanges
            /\ \E p \in Person \ {pool.commissioner} :
                 pool' = [pool EXCEPT !.commissioner = p, !.changes = @ + 1]
Rename   == /\ pool.changes < MaxChanges
            /\ pool' = [pool EXCEPT !.name = @ + 1, !.changes = @ + 1]

PoolChanges ==
  /\ Discover \/ Confirm \/ Close \/ Transfer \/ Rename
  /\ pool' # pool
  /\ UNCHANGED <<clock, email, row, visit, mail>>

EmailChanges(p) ==
  /\ pool.changes < MaxChanges
  /\ \E a \in (Address \cup {NoAddress}) \ {email[p]} : email' = [email EXCEPT ![p] = a]
  /\ pool' = [pool EXCEPT !.changes = @ + 1]
  /\ UNCHANGED <<clock, row, visit, mail>>

-----------------------------------------------------------------------------
(* The object's operations, as what they make of the row *)

ValidAuthority == pool.active /\ pool.candidate

Terminate(x) == IF x.delivered THEN x
                ELSE [x EXCEPT !.terminal = TRUE, !.token = {}, !.lease = 0, !.next = 0]

Open(x) == x.known /\ ~x.delivered /\ ~x.terminal

\* Fault: a row whose attempt is not finished is left to its visit.
OrphanedLater == IF Open(row) /\ row.token = {} THEN Terminate(row) ELSE row

\* Without authority the open attempt ends, if there is one.
Orphaned == IF Open(row) THEN Terminate(row) ELSE row

\* A commissioner who came before the first attempt takes the row over.
Adopted == IF row.known
           THEN IF row.commissioner = pool.commissioner THEN row
                ELSE [row EXCEPT !.commissioner = pool.commissioner, !.to = NoAddress]
           ELSE [NoRow EXCEPT !.known = TRUE, !.commissioner = pool.commissioner,
                              !.name = pool.name]

\* The conditions under which prepare ends the reminder for good.
Ended ==
  \/ pool.confirmed
  \/ clock >= Kickoff
  \/ /\ Open(row) /\ clock + EligibilityWindow >= Kickoff
     /\ \/ row.commissioner # pool.commissioner /\ row.first # 0
        \/ row.deadline # 0 /\ clock >= row.deadline

\* Fault: the lease is not looked at.
MayReserveAgain ==
  /\ clock + EligibilityWindow >= Kickoff
  /\ row.known => Open(row) /\ clock >= row.next

\* The conditions under which an attempt may be reserved.
MayReserve ==
  /\ clock + EligibilityWindow >= Kickoff
  /\ row.known => Open(row) /\ clock >= row.next /\ clock >= row.lease

Reserved(v) == [Adopted EXCEPT !.token = {v}, !.lease = clock + Lease, !.next = 0,
                               !.outcome = "reserved"]

\* A commissioner who took the row over keeps it though nothing is reserved.
NotReserved == IF row.known /\ Open(row) /\ clock + EligibilityWindow >= Kickoff
               THEN Adopted ELSE row

-----------------------------------------------------------------------------
(* One visit *)

\* What prepare leaves of the row, and whether it hands the visit an attempt.
Prepared(v) ==
  IF ~ValidAuthority THEN [row |-> Orphaned, attempt |-> FALSE]
  ELSE IF Ended      THEN [row |-> IF row.known THEN Terminate(row) ELSE row,
                           attempt |-> FALSE]
  ELSE IF MayReserve THEN [row |-> Reserved(v), attempt |-> TRUE]
  ELSE                    [row |-> NotReserved, attempt |-> FALSE]

\* The cron reaches the pool; the answer gets back to it, or it moves on.
Prepare(v) ==
  /\ visit[v] = Idle
  /\ row' = Prepared(v).row
  /\ \E told \in BOOLEAN :
       visit' = IF told /\ Prepared(v).attempt
                THEN [visit EXCEPT ![v].pc = "lookup",
                                   ![v].commissioner = pool.commissioner]
                ELSE visit
  /\ UNCHANGED <<clock, pool, email, mail>>

\* The account may have no address: then the reservation is left to lapse.
Lookup(v) ==
  /\ visit[v].pc = "lookup"
  /\ LET to == email[visit[v].commissioner] IN
       visit' = [visit EXCEPT ![v] = IF to = NoAddress THEN Idle
                                     ELSE [@ EXCEPT !.pc = "claim", !.to = to]]
  /\ UNCHANGED <<clock, pool, email, row, mail>>

\* The reservation is still the visit's, open and unused.
Holds(v) == Open(row) /\ row.token = {v} /\ row.outcome = "reserved" /\ clock < row.lease

CommissionerMoved(v) ==
  visit[v].commissioner # pool.commissioner \/ visit[v].commissioner # row.commissioner

\* Fault: the outcome still says that the attempt is reserved.
ReleasedOnly == [row EXCEPT !.token = {}, !.lease = 0, !.next = clock]

Released == [row EXCEPT !.token = {}, !.lease = 0, !.next = clock,
                        !.outcome = "authority_changed"]

Deadline == IF row.deadline = 0 THEN Min({Kickoff, clock + RetryWindow}) ELSE row.deadline

Attempting(v) ==
  [row EXCEPT !.to = visit[v].to, !.deadline = Deadline, !.outcome = "attempting",
              !.lease = clock + Lease, !.first = IF @ = 0 THEN clock ELSE @]

\* What claim leaves of the row, and whether the visit may send.
Claimed(v) ==
  LET Refuse(x) == [row |-> x, send |-> FALSE]
      \* once a mail may have gone out, the reminder ends; before, it is tried again
      Give(x) == Refuse(IF row.first # 0 THEN Terminate(row) ELSE x)
  IN  IF ~ValidAuthority
        THEN Refuse(IF Open(row) /\ row.token = {v} THEN Terminate(row) ELSE row)
      ELSE IF ~Holds(v)                           THEN Refuse(row)
      ELSE IF pool.confirmed \/ clock >= Kickoff  THEN Refuse(Terminate(row))
      ELSE IF CommissionerMoved(v)                THEN Give(Released)
      ELSE IF row.to \notin {NoAddress, visit[v].to} THEN Give(row)
      ELSE IF clock >= Deadline                   THEN Refuse(Terminate(row))
      ELSE [row |-> Attempting(v), send |-> TRUE]

Claim(v) ==
  /\ visit[v].pc = "claim"
  /\ row' = Claimed(v).row
  /\ \E told \in BOOLEAN :
       visit' = [visit EXCEPT ![v] =
                   IF told /\ Claimed(v).send
                   THEN [@ EXCEPT !.pc = "send", !.name = row.name, !.until = clock + Lease]
                   ELSE Idle]
  /\ UNCHANGED <<clock, pool, email, mail>>

\* Under one key and within its window the provider sends one copy and refuses any
\* other mail; the visit hears of an acceptance or takes the call for failed.
Provider(p, accepts) ==
  LET remembered == mail.copies > 0 /\ clock < mail.first + DedupWindow
  IN  mail' = IF accepts /\ ~remembered
              THEN [asked |-> mail.asked \cup {p}, first |-> clock,
                    copies |-> Min({2, mail.copies + 1})]
              ELSE [mail EXCEPT !.asked = @ \cup {p}]

\* The clock is read once more: from kickoff on nothing is sent and nothing recorded.
Send(v) ==
  /\ visit[v].pc = "send"
  /\ \/ /\ clock >= Kickoff
        /\ visit' = [visit EXCEPT ![v] = Idle]
        /\ UNCHANGED mail
     \/ /\ clock < Kickoff
        /\ \E accepts, told \in BOOLEAN :
             LET p == [to |-> visit[v].to, name |-> visit[v].name]
             IN  /\ Provider(p, accepts)
                 /\ visit' = [visit EXCEPT ![v] =
                      [Idle EXCEPT !.pc = IF accepts /\ told THEN "complete" ELSE "fail"]]
  /\ UNCHANGED <<clock, pool, email, row>>

\* What finish leaves of the row, by outcome; only the holder of the attempt finishes it.
Finished(v, accepted) ==
  IF row.token # {v} \/ row.outcome # "attempting" \/ row.delivered THEN row
  ELSE LET done == [row EXCEPT !.token = {}, !.lease = 0, !.next = 0]
       IN  IF accepted THEN [done EXCEPT !.delivered = TRUE, !.outcome = "accepted"]
           ELSE IF clock + RetryDelay < Min({Kickoff, row.deadline})
                THEN [done EXCEPT !.outcome = "provider_failed", !.next = clock + RetryDelay]
                ELSE Terminate([done EXCEPT !.outcome = "provider_failed"])

\* A completion that is not answered is followed by a failure, whatever it did.
Complete(v) ==
  /\ visit[v].pc = "complete"
  /\ \E reached, told \in BOOLEAN :
       /\ row' = IF reached THEN Finished(v, TRUE) ELSE row
       /\ visit' = [visit EXCEPT ![v] = IF reached /\ told THEN Idle ELSE [@ EXCEPT !.pc = "fail"]]
  /\ UNCHANGED <<clock, pool, email, mail>>

Fail(v) ==
  /\ visit[v].pc = "fail"
  /\ row' \in {row, Finished(v, FALSE)}
  /\ visit' = [visit EXCEPT ![v] = Idle]
  /\ UNCHANGED <<clock, pool, email, mail>>

\* A call that fails without effect, or the end of the Worker, ends the visit.
Stop(v) ==
  /\ visit[v] # Idle
  /\ visit' = [visit EXCEPT ![v] = Idle]
  /\ UNCHANGED <<clock, pool, email, row, mail>>

Step(v) == Lookup(v) \/ Claim(v) \/ Send(v) \/ Complete(v) \/ Fail(v)

Next ==
  \/ Tick
  \/ PoolChanges
  \/ \E p \in Person : EmailChanges(p)
  \/ \E v \in Visit : Prepare(v) \/ Step(v) \/ Stop(v)

Spec == Init /\ [][Next]_vars

\* Time passes, a visit in progress goes on or is cut off, and the cron, which comes
\* round to every ready pool, keeps reaching this one.
Fairness ==
  /\ WF_vars(Tick)
  /\ \A v \in Visit : WF_vars(Step(v)) /\ SF_vars(Prepare(v))

FairSpec == Spec /\ Fairness

-----------------------------------------------------------------------------
(* Properties *)

\* However visits overlap, fail and retry, at most one of them may be sending, every
\* mail asked for under the season's key is the same mail, and one copy goes out.
MailedOnce ==
  /\ \A v, w \in Visit : visit[v].pc = "send" /\ visit[w].pc = "send" => v = w
  /\ Cardinality(mail.asked) <= 1
  /\ mail.copies <= 1

\* A reminder that was begun is delivered or ends: no lease, failure or change of the
\* pool leaves it open for ever.
ReminderResolves == row.known ~> row.delivered \/ row.terminal
=============================================================================
