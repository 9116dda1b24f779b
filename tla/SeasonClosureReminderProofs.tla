--------------------- MODULE SeasonClosureReminderProofs ---------------------
(***************************************************************************)
(* Proofs about SeasonClosureReminder: whatever visits overlap, fail or    *)
(* are cut off, and whatever happens to the pool and to the addresses      *)
(* meanwhile, the season's reminder is one mail and goes out once.         *)
(*                                                                         *)
(* The argument: a visit that may be sending still holds the row, or the   *)
(* row is over; the row's payload is fixed from the first attempt on; and  *)
(* no attempt outlasts the time for which the provider remembers the key.  *)
(***************************************************************************)
EXTENDS SeasonClosureReminder, FiniteSetTheorems, TLAPS

(* The inductive invariant *)

Row == [known: BOOLEAN, commissioner: Person, to: Address \cup {NoAddress},
        name: 0..MaxChanges, first: Time, deadline: 0..Kickoff,
        token: SUBSET Visit, lease: 0..MaxTime + Lease,
        next: 0..MaxTime + RetryDelay, outcome: Outcome,
        delivered: BOOLEAN, terminal: BOOLEAN]

Call == [pc: {"idle", "lookup", "claim", "send", "complete", "fail"},
         commissioner: Person, to: Address \cup {NoAddress},
         name: 0..MaxChanges, until: 0..MaxTime + Lease]

Authority == [active: BOOLEAN, candidate: BOOLEAN, confirmed: BOOLEAN,
              commissioner: Person, name: 0..MaxChanges, changes: 0..MaxChanges]

Letters == [asked: SUBSET Payload, first: Time, copies: 0..2]

Types ==
  /\ clock \in 1..MaxTime
  /\ pool \in Authority /\ pool.name <= pool.changes
  /\ email \in [Person -> Address \cup {NoAddress}]
  /\ row \in Row
  /\ visit \in [Visit -> Call]
  /\ mail \in Letters

\* One visit at most holds a row; an attempt that is not over is held.
RowIsHeld(r) ==
  /\ r.token = {} \/ \E v \in Visit : r.token = {v}
  /\ r.outcome \in {"reserved", "attempting"} /\ ~r.terminal => r.token # {}

\* The first attempt fixes the address and the deadline of all attempts.
RowIsFixed(r) ==
  /\ r.first = 0 => r.deadline = 0
  /\ r.first # 0 => /\ r.known /\ r.to # NoAddress
                    /\ r.first <= clock
                    /\ 0 < r.deadline /\ r.deadline <= r.first + RetryWindow

\* A visit that may be sending sends the row's mail, in time, and holds the row
\* unless the row is over.
SendsRow(c, v, r) ==
  c.pc = "send" =>
    /\ clock < c.until /\ c.until <= r.deadline + Lease
    /\ r.first # 0 /\ c.to = r.to /\ c.name = r.name
    /\ \/ r.terminal
       \/ /\ r.token = {v} /\ r.outcome = "attempting" /\ ~r.delivered
          /\ r.lease = c.until

\* Every mail that was asked for is the row's, and a copy went out since the first
\* attempt.
MailIsRows(l, r) ==
  /\ \A p \in l.asked : r.first # 0 /\ p.to = r.to /\ p.name = r.name
  /\ l.copies <= 1
  /\ l.copies > 0 => r.first # 0 /\ r.first <= l.first

Inv ==
  /\ Types
  /\ RowIsHeld(row) /\ RowIsFixed(row)
  /\ \A v \in Visit : /\ visit[v].pc = "claim" => visit[v].to # NoAddress
                      /\ SendsRow(visit[v], v, row)
  /\ \A v, w \in Visit : visit[v].pc = "send" /\ visit[w].pc = "send" => v = w
  /\ MailIsRows(mail, row)

-----------------------------------------------------------------------------
(* Lemmas *)

\* The bounds are natural numbers.
LEMMA Sizes ==
  /\ Kickoff \in Nat /\ EligibilityWindow \in Nat /\ RetryWindow \in Nat
  /\ Lease \in Nat /\ RetryDelay \in Nat /\ DedupWindow \in Nat
  /\ MaxTime \in Nat /\ MaxChanges \in Nat
  /\ 0 < Lease /\ RetryWindow + Lease <= DedupWindow /\ 0 < MaxTime
BY TimeAssumption

\* The values that the operations give to the bounded fields of the row.
LEMMA Bounds ==
  /\ 0 \in Time /\ 0 \in 0..Kickoff /\ 0 \in 0..MaxChanges
  /\ 0 \in 0..MaxTime + Lease /\ 0 \in 0..MaxTime + RetryDelay
  /\ \A c \in 1..MaxTime : /\ c \in Time /\ c \in Nat
                           /\ c + Lease \in 0..MaxTime + Lease
                           /\ c \in 0..MaxTime + RetryDelay
                           /\ c + RetryDelay \in 0..MaxTime + RetryDelay
  /\ \A o \in {"pending", "reserved", "attempting", "accepted", "provider_failed",
               "authority_changed"} : o \in Outcome
BY Sizes DEF Time, Outcome

\* The smaller of two numbers.
LEMMA MinOfTwo ==
  ASSUME NEW a \in Nat, NEW b \in Nat
  PROVE  /\ Min({a, b}) \in {a, b}
         /\ Min({a, b}) <= a /\ Min({a, b}) <= b
<1>1. \E x \in {a, b} : \A y \in {a, b} : x <= y
  <2>1. CASE a <= b BY <2>1
  <2>2. CASE b <= a BY <2>2
  <2> QED BY <2>1, <2>2
<1> DEFINE m == CHOOSE x \in {a, b} : \A y \in {a, b} : x <= y
<1>2. m \in {a, b} /\ \A y \in {a, b} : m <= y BY <1>1
<1>3. Min({a, b}) = m BY DEF Min
<1> QED BY <1>2, <1>3

\* After the first attempt s says of the mail what r said.
SamePayload(r, s) ==
  r.first # 0 => /\ s.first = r.first /\ s.deadline = r.deadline
                 /\ s.to = r.to /\ s.name = r.name

\* s is a row that r may become.
Becomes(r, s) == s \in Row /\ RowIsHeld(s) /\ RowIsFixed(s) /\ SamePayload(r, s)

\* Whoever holds r holds s, or s is over.
SameHolder(r, s) ==
  \/ s.terminal
  \/ /\ ~r.terminal /\ s.token = r.token /\ s.outcome = r.outcome
     /\ s.delivered = r.delivered /\ s.lease = r.lease

LEMMA SendsOn ==
  ASSUME NEW r, NEW s, SamePayload(r, s), SameHolder(r, s),
         NEW c, NEW v, SendsRow(c, v, r)
  PROVE  SendsRow(c, v, s)
BY DEF SamePayload, SameHolder, SendsRow

LEMMA MailStays ==
  ASSUME NEW r, NEW s, SamePayload(r, s), NEW l, MailIsRows(l, r)
  PROVE  MailIsRows(l, s)
BY DEF SamePayload, MailIsRows

\* A row stays what it is.
LEMMA RowStays ==
  ASSUME Inv
  PROVE  Becomes(row, row) /\ SameHolder(row, row)
BY DEF Inv, Types, Becomes, SamePayload, SameHolder

\* Terminating a row ends it, unless it was delivered.
LEMMA TerminatedRow ==
  ASSUME NEW r \in Row, RowIsHeld(r), RowIsFixed(r)
  PROVE  /\ Becomes(r, Terminate(r)) 
         /\ Terminate(r).terminal \/ Terminate(r) = r
<1>1. CASE r.delivered BY <1>1 DEF Terminate, Becomes, SamePayload
<1>2. CASE ~r.delivered
  <2> DEFINE s == [r EXCEPT !.terminal = TRUE, !.token = {}, !.lease = 0, !.next = 0]
  <2>1. Terminate(r) = s BY <1>2 DEF Terminate
  <2>2. s \in Row BY Bounds DEF Row
  <2>3. /\ s.terminal /\ s.token = {} /\ s.known = r.known /\ s.to = r.to
        /\ s.name = r.name /\ s.first = r.first /\ s.deadline = r.deadline
    BY DEF Row
  <2> HIDE DEF s
  <2>4. RowIsHeld(s) /\ RowIsFixed(s) BY <2>3 DEF RowIsHeld, RowIsFixed
  <2> QED BY <2>1, <2>2, <2>3, <2>4 DEF Becomes, SamePayload
<1> QED BY <1>1, <1>2

\* A row that is over, or unchanged, keeps its holder.
LEMMA TerminatedHolder ==
  ASSUME Inv
  PROVE  Becomes(row, Terminate(row)) /\ SameHolder(row, Terminate(row))
<1>1. row \in Row /\ RowIsHeld(row) /\ RowIsFixed(row) BY DEF Inv, Types
<1>2. Becomes(row, Terminate(row)) /\ (Terminate(row).terminal \/ Terminate(row) = row)
  BY <1>1, TerminatedRow
<1> QED BY <1>2, RowStays DEF SameHolder

\* What the invariant says of the parts of the state.
LEMMA InvParts ==
  ASSUME Inv
  PROVE  /\ clock \in 1..MaxTime /\ clock \in Nat
         /\ pool \in Authority /\ pool.name \in 0..MaxChanges
         /\ pool.commissioner \in Person
         /\ row \in Row /\ RowIsHeld(row) /\ RowIsFixed(row)
         /\ visit \in [Visit -> Call] /\ mail \in Letters
         /\ \A v \in Visit : SendsRow(visit[v], v, row)
         /\ MailIsRows(mail, row)
<1>1. clock \in 1..MaxTime BY DEF Inv, Types
<1>2. clock \in Nat BY <1>1, Sizes
<1> QED BY <1>1, <1>2 DEF Inv, Types, Authority

\* When prepare gets past the ends of the reminder, the row it goes on with is the
\* old one, or one that no attempt was made on.
LEMMA AdoptedRow ==
  ASSUME Inv, ~Ended, clock + EligibilityWindow >= Kickoff, row.known => Open(row)
  PROVE  /\ Becomes(row, Adopted) \/ ~row.known
         /\ Adopted \in Row /\ RowIsFixed(Adopted) /\ SamePayload(row, Adopted)
         /\ Adopted.known /\ ~Adopted.terminal /\ ~Adopted.delivered
         /\ row.known => SameHolder(row, Adopted)
<1>0. /\ row \in Row /\ RowIsHeld(row) /\ RowIsFixed(row) /\ pool.name \in 0..MaxChanges
      /\ pool.commissioner \in Person /\ clock \in Nat
  BY InvParts
<1>1. CASE row.known /\ row.commissioner = pool.commissioner
  <2>1. Adopted = row BY <1>1 DEF Adopted
  <2> QED BY <1>0, <1>1, <2>1, RowStays DEF Open, Becomes
<1>2. CASE row.known /\ row.commissioner # pool.commissioner
  <2> DEFINE s == [row EXCEPT !.commissioner = pool.commissioner, !.to = NoAddress]
  <2>1. Adopted = s BY <1>2 DEF Adopted
  <2>2. row.first = 0 BY <1>2 DEF Ended
  <2>3. s \in Row BY <1>0 DEF Row
  <2>4. /\ s.known = row.known /\ s.name = row.name /\ s.first = row.first
        /\ s.deadline = row.deadline /\ s.token = row.token /\ s.outcome = row.outcome
        /\ s.lease = row.lease /\ s.delivered = row.delivered /\ s.terminal = row.terminal
    BY <1>0 DEF Row
  <2> HIDE DEF s
  <2>5. RowIsHeld(s) BY <1>0, <2>4 DEF RowIsHeld
  <2>6. RowIsFixed(s) BY <1>0, <2>2, <2>4 DEF RowIsFixed
  <2> QED BY <1>2, <2>1, <2>2, <2>3, <2>4, <2>5, <2>6
       DEF Becomes, SamePayload, SameHolder, Open
<1>3. CASE ~row.known
  <2> DEFINE s == [NoRow EXCEPT !.known = TRUE, !.commissioner = pool.commissioner,
                                !.name = pool.name]
  <2>1. Adopted = s BY <1>3 DEF Adopted
  <2>2. row.first = 0 BY <1>0, <1>3 DEF RowIsFixed
  <2>3. NoRow \in Row BY Bounds, CreatorAssumption DEF Row, NoRow
  <2>7. s \in Row BY <1>0, <2>3 DEF Row
  <2>4. /\ s.known /\ s.first = 0 /\ s.deadline = 0 /\ ~s.terminal /\ ~s.delivered
    BY DEF NoRow
  <2> HIDE DEF s
  <2>5. RowIsFixed(s) BY <2>4 DEF RowIsFixed
  <2> QED BY <1>3, <2>1, <2>2, <2>4, <2>5, <2>7 DEF SamePayload
<1> QED BY <1>1, <1>2, <1>3

\* What prepare leaves of the row.
LEMMA PreparedRow ==
  ASSUME Inv, NEW v \in Visit
  PROVE  LET s == Prepared(v).row
         IN  /\ Becomes(row, s)
             /\ \A w \in Visit : SendsRow(visit[w], w, s)
<1>0. /\ row \in Row /\ RowIsHeld(row) /\ RowIsFixed(row) /\ clock \in 1..MaxTime
      /\ clock \in Nat /\ \A w \in Visit : SendsRow(visit[w], w, row)
  BY InvParts
<1>1. ASSUME NEW s, Becomes(row, s), SameHolder(row, s)
      PROVE  Becomes(row, s) /\ \A w \in Visit : SendsRow(visit[w], w, s)
  BY <1>0, <1>1, SendsOn DEF Becomes
<1>2. CASE Prepared(v).row = row \/ Prepared(v).row = Terminate(row)
  BY <1>1, <1>2, RowStays, TerminatedHolder
<1>3. CASE ValidAuthority /\ ~Ended /\ MayReserve
  <2> DEFINE a == Adopted
             s == [a EXCEPT !.token = {v}, !.lease = clock + Lease, !.next = 0,
                            !.outcome = "reserved"]
  <2>1. Prepared(v).row = s BY <1>3 DEF Prepared, Reserved
  <2>2. /\ a \in Row /\ RowIsFixed(a) /\ SamePayload(row, a)
    BY <1>3, AdoptedRow DEF MayReserve
  <2> HIDE DEF a
  <2>3. s \in Row BY <1>0, <2>2, Bounds DEF Row
  <2>4. /\ s.known = a.known /\ s.to = a.to /\ s.name = a.name /\ s.first = a.first
        /\ s.deadline = a.deadline /\ s.token = {v} /\ s.outcome = "reserved"
    BY <2>2 DEF Row
  <2> HIDE DEF s
  <2>5. Becomes(row, s)
    BY <2>2, <2>3, <2>4 DEF Becomes, RowIsHeld, RowIsFixed, SamePayload
  <2>6. ASSUME NEW w \in Visit PROVE visit[w].pc # "send"
    <3> SUFFICES ASSUME visit[w].pc = "send" PROVE FALSE OBVIOUS
    <3>1. /\ clock < visit[w].until /\ row.first # 0
          /\ row.terminal \/ row.lease = visit[w].until
      BY <1>0 DEF SendsRow
    <3>2. row.known BY <1>0, <3>1 DEF RowIsFixed
    <3>3. clock >= row.lease /\ ~row.terminal BY <1>3, <3>2 DEF MayReserve, Open
    <3>4. row.lease \in Nat BY <1>0, Sizes DEF Row
    <3> QED BY <1>0, <3>1, <3>3, <3>4
  <2> QED BY <2>1, <2>5, <2>6 DEF SendsRow
<1>4. CASE /\ ValidAuthority /\ ~Ended /\ ~MayReserve
           /\ row.known /\ Open(row) /\ clock + EligibilityWindow >= Kickoff
  <2>1. Prepared(v).row = Adopted BY <1>4 DEF Prepared, NotReserved
  <2>2. Becomes(row, Adopted) /\ SameHolder(row, Adopted) BY <1>4, AdoptedRow
  <2> QED BY <1>1, <2>1, <2>2
<1>5. CASE ~ValidAuthority BY <1>2, <1>5 DEF Prepared, Orphaned
<1>6. CASE ValidAuthority /\ Ended BY <1>2, <1>6 DEF Prepared
<1>7. CASE /\ ValidAuthority /\ ~Ended /\ ~MayReserve
           /\ ~(row.known /\ Open(row) /\ clock + EligibilityWindow >= Kickoff)
  BY <1>2, <1>7 DEF Prepared, NotReserved
<1> QED BY <1>3, <1>4, <1>5, <1>6, <1>7

\* What comes of a claim: a refusal, an attempt given back, or leave to send.
ClaimRefused(v) == ~Claimed(v).send /\ Claimed(v).row \in {row, Terminate(row)}
ClaimReleased(v) ==
  ~Claimed(v).send /\ Claimed(v).row = Released /\ row.first = 0
ClaimSends(v) ==
  /\ Claimed(v).send /\ Claimed(v).row = Attempting(v)
  /\ Holds(v) /\ row.to \in {NoAddress, visit[v].to} /\ clock < Deadline

\* Deadline is a time at or before kickoff.
LEMMA DeadlineBounds ==
  ASSUME Inv
  PROVE  /\ Deadline \in 0..Kickoff
         /\ row.deadline = 0 => Deadline <= clock + RetryWindow
<1>0. row \in Row /\ clock \in Nat BY InvParts
<1>1. row.deadline \in 0..Kickoff BY <1>0 DEF Row
<1>2. clock + RetryWindow \in Nat BY <1>0, Sizes
<1> DEFINE m == Min({Kickoff, clock + RetryWindow})
<1>3. m \in {Kickoff, clock + RetryWindow} /\ m <= Kickoff /\ m <= clock + RetryWindow
  BY <1>2, Sizes, MinOfTwo
<1>4. Deadline = IF row.deadline = 0 THEN m ELSE row.deadline BY DEF Deadline
<1> HIDE DEF m
<1>5. m \in 0..Kickoff BY <1>2, <1>3, Sizes
<1> QED BY <1>1, <1>3, <1>4, <1>5

LEMMA ClaimCases ==
  ASSUME Inv, NEW v \in Visit
  PROVE  ClaimRefused(v) \/ ClaimReleased(v) \/ ClaimSends(v)
<1>0. clock \in Nat /\ Deadline \in Nat BY InvParts, DeadlineBounds, Sizes
<1> DEFINE open == ValidAuthority /\ Holds(v) /\ ~(pool.confirmed \/ clock >= Kickoff)
<1>1. CASE ~ValidAuthority BY <1>1 DEF Claimed, ClaimRefused
<1>2. CASE ValidAuthority /\ ~Holds(v) BY <1>2 DEF Claimed, ClaimRefused
<1>3. CASE ValidAuthority /\ Holds(v) /\ (pool.confirmed \/ clock >= Kickoff)
  BY <1>3 DEF Claimed, ClaimRefused
<1>4. CASE open /\ CommissionerMoved(v)
  <2>1. CASE row.first = 0 BY <1>4, <2>1 DEF Claimed, ClaimReleased
  <2>2. CASE row.first # 0 BY <1>4, <2>2 DEF Claimed, ClaimRefused
  <2> QED BY <2>1, <2>2
<1>5. CASE open /\ ~CommissionerMoved(v) /\ row.to \notin {NoAddress, visit[v].to}
  BY <1>5 DEF Claimed, ClaimRefused
<1>6. CASE /\ open /\ ~CommissionerMoved(v)
           /\ row.to \in {NoAddress, visit[v].to} /\ clock >= Deadline
  BY <1>6 DEF Claimed, ClaimRefused
<1>7. CASE /\ open /\ ~CommissionerMoved(v)
           /\ row.to \in {NoAddress, visit[v].to} /\ ~(clock >= Deadline)
  <2>1. clock < Deadline BY <1>0, <1>7
  <2>2. Claimed(v) = [row |-> Attempting(v), send |-> TRUE] BY <1>7 DEF Claimed
  <2> QED BY <1>7, <2>1, <2>2 DEF ClaimSends
<1> QED BY <1>1, <1>2, <1>3, <1>4, <1>5, <1>6, <1>7

\* An attempt given back was no visit's to send.
LEMMA ReleasedRow ==
  ASSUME Inv, row.first = 0
  PROVE  /\ Becomes(row, Released)
         /\ \A w \in Visit : SendsRow(visit[w], w, Released)
<1>0. /\ row \in Row /\ RowIsHeld(row) /\ RowIsFixed(row) /\ clock \in 1..MaxTime
      /\ \A w \in Visit : SendsRow(visit[w], w, row)
  BY InvParts
<1>1. Released \in Row BY <1>0, Bounds DEF Released, Row
<1>2. /\ Released.token = {} /\ Released.outcome = "authority_changed"
      /\ Released.first = 0 /\ Released.deadline = row.deadline
  BY <1>0 DEF Row, Released
<1>3. RowIsHeld(Released) /\ RowIsFixed(Released)
  BY <1>0, <1>2 DEF RowIsHeld, RowIsFixed
<1>4. \A w \in Visit : visit[w].pc # "send" BY <1>0 DEF SendsRow
<1> QED BY <1>1, <1>3, <1>4 DEF Becomes, SamePayload, SendsRow

\* A claim with leave to send makes the visit the only one that may be sending.
LEMMA AttemptingRow ==
  ASSUME Inv, NEW v \in Visit, ClaimSends(v), visit[v].to # NoAddress,
         NEW c, c.pc = "send", c.to = visit[v].to, c.name = row.name,
         c.until = clock + Lease
  PROVE  /\ Becomes(row, Attempting(v))
         /\ \A w \in Visit : visit[w].pc # "send"
         /\ SendsRow(c, v, Attempting(v))
<1>0. /\ row \in Row /\ RowIsHeld(row) /\ RowIsFixed(row) /\ clock \in 1..MaxTime
      /\ clock \in Nat /\ clock # 0 /\ \A w \in Visit : SendsRow(visit[w], w, row)
      /\ visit \in [Visit -> Call]
  BY InvParts
<1>1. /\ Open(row) /\ row.token = {v} /\ row.outcome = "reserved"
      /\ row.to \in {NoAddress, visit[v].to} /\ clock < Deadline
  BY DEF ClaimSends, Holds
<1>2. \A w \in Visit : visit[w].pc # "send" BY <1>0, <1>1 DEF SendsRow, Open
<1>3. /\ Deadline \in 0..Kickoff /\ Deadline \in Nat
      /\ row.deadline = 0 => Deadline <= clock + RetryWindow
  BY DeadlineBounds, Sizes
<1>4. visit[v].to \in Address \cup {NoAddress} BY <1>0 DEF Call
<1> DEFINE f == IF row.first = 0 THEN clock ELSE row.first
           s == [row EXCEPT !.to = visit[v].to, !.deadline = Deadline,
                            !.outcome = "attempting", !.lease = clock + Lease, !.first = f]
<1>5. Attempting(v) = s BY <1>0 DEF Attempting, Row
<1>6. f \in Time /\ f # 0 /\ (row.first # 0 => f = row.first) /\ (row.first = 0 => f = clock)
  BY <1>0, Bounds DEF Row
<1> HIDE DEF f
<1>7. s \in Row BY <1>0, <1>3, <1>4, <1>6, Bounds DEF Row
<1>8. /\ s.known /\ s.to = visit[v].to /\ s.deadline = Deadline /\ s.first = f
      /\ s.outcome = "attempting" /\ s.lease = clock + Lease /\ s.token = {v}
      /\ s.name = row.name /\ ~s.delivered
  BY <1>0, <1>1 DEF Row, Open
<1> HIDE DEF s
<1>9. row.first # 0 => /\ row.to = visit[v].to /\ Deadline = row.deadline
                       /\ row.first <= clock /\ row.deadline <= row.first + RetryWindow
  BY <1>0, <1>1 DEF RowIsFixed, Deadline, Row
<1>10. row.first = 0 => row.deadline = 0 BY <1>0 DEF RowIsFixed
<1>11. RowIsHeld(s) BY <1>8 DEF RowIsHeld
<1>12. f <= clock /\ Deadline <= f + RetryWindow /\ 0 < Deadline
  BY <1>0, <1>1, <1>3, <1>6, <1>9, <1>10
<1>13. RowIsFixed(s) BY <1>6, <1>8, <1>12 DEF RowIsFixed
<1>14. SamePayload(row, s) BY <1>6, <1>8, <1>9 DEF SamePayload
<1>15. clock < c.until /\ c.until <= s.deadline + Lease
  BY <1>0, <1>1, <1>3, <1>8, Sizes
<1>16. SendsRow(c, v, s) BY <1>6, <1>8, <1>15 DEF SendsRow
<1> QED BY <1>2, <1>5, <1>7, <1>11, <1>13, <1>14, <1>16 DEF Becomes

\* What a visit that is not sending leaves when it finishes the attempt.
LEMMA FinishedRow ==
  ASSUME Inv, NEW v \in Visit, visit[v].pc # "send", NEW accepted \in BOOLEAN
  PROVE  LET s == Finished(v, accepted)
         IN  /\ Becomes(row, s)
             /\ \A w \in Visit : SendsRow(visit[w], w, s)
<1>0. /\ row \in Row /\ RowIsHeld(row) /\ RowIsFixed(row) /\ clock \in 1..MaxTime
      /\ \A w \in Visit : SendsRow(visit[w], w, row)
  BY InvParts
<1>1. CASE row.token # {v} \/ row.outcome # "attempting" \/ row.delivered
  <2>1. Finished(v, accepted) = row BY <1>1 DEF Finished
  <2> QED BY <1>0, <2>1, RowStays
<1>2. CASE row.token = {v} /\ row.outcome = "attempting" /\ ~row.delivered
  <2> DEFINE done == [row EXCEPT !.token = {}, !.lease = 0, !.next = 0]
             won  == [done EXCEPT !.delivered = TRUE, !.outcome = "accepted"]
             wait == [done EXCEPT !.outcome = "provider_failed", !.next = clock + RetryDelay]
             lost == [done EXCEPT !.outcome = "provider_failed"]
  <2>1. Finished(v, accepted) \in {won, wait, Terminate(lost)}
    <3>1. CASE accepted BY <1>2, <3>1 DEF Finished
    <3>2. CASE ~accepted /\ clock + RetryDelay < Min({Kickoff, row.deadline})
      BY <1>2, <3>2 DEF Finished
    <3>3. CASE ~accepted /\ ~(clock + RetryDelay < Min({Kickoff, row.deadline}))
      BY <1>2, <3>3 DEF Finished
    <3> QED BY <3>1, <3>2, <3>3
  \* what all of them have in common
  <2> DEFINE Done(s) == /\ s \in Row /\ s.token = {}
                        /\ s.outcome \in {"accepted", "provider_failed"}
                        /\ s.known = row.known /\ s.to = row.to /\ s.name = row.name
                        /\ s.first = row.first /\ s.deadline = row.deadline
                        /\ (row.terminal => s.terminal)
  <2>2. done \in Row BY <1>0, Bounds DEF Row
  <2>3. /\ done.token = {} /\ done.known = row.known /\ done.to = row.to
        /\ done.name = row.name /\ done.first = row.first /\ done.deadline = row.deadline
        /\ done.terminal = row.terminal
    BY <1>0 DEF Row
  <2> HIDE DEF done
  <2>4. Done(won) BY <2>2, <2>3, Bounds DEF Row
  <2>5. Done(wait) BY <1>0, <2>2, <2>3, Bounds DEF Row
  <2>6. Done(lost) BY <2>2, <2>3, Bounds DEF Row
  <2> HIDE DEF won, wait, lost
  <2>7. \A s : Done(s) => RowIsHeld(s) /\ RowIsFixed(s)
    BY <1>0 DEF RowIsHeld, RowIsFixed
  <2>8. Becomes(lost, Terminate(lost)) /\ (Terminate(lost).terminal \/ Terminate(lost) = lost)
    BY <2>6, <2>7, TerminatedRow
  <2>9. ASSUME NEW s \in {won, wait, Terminate(lost)}
        PROVE  Becomes(row, s) /\ (row.terminal => s.terminal)
    <3>1. CASE s \in {won, wait}
      <4>1. Done(s) BY <2>4, <2>5, <3>1
      <4> QED BY <2>7, <4>1 DEF Becomes, SamePayload
    <3>2. CASE s = Terminate(lost)
      <4>1. SamePayload(row, lost) BY <2>6 DEF SamePayload
      <4>2. SamePayload(row, Terminate(lost)) BY <2>6, <2>8, <4>1 DEF Becomes, SamePayload
      <4> QED BY <2>6, <2>8, <3>2, <4>2 DEF Becomes
    <3> QED BY <3>1, <3>2
  <2>10. \A w \in Visit : visit[w].pc = "send" => row.terminal
    BY <1>0, <1>2 DEF SendsRow
  <2>11. ASSUME NEW s, Becomes(row, s), row.terminal => s.terminal, NEW w \in Visit
         PROVE  SendsRow(visit[w], w, s)
    BY <1>0, <2>10, <2>11 DEF SendsRow, Becomes, SamePayload
  <2> QED BY <2>1, <2>9, <2>11
<1> QED BY <1>1, <1>2

-----------------------------------------------------------------------------
(* The invariant is inductive *)

\* A step of visit v keeps the invariant when what it leaves is sound by itself.
LEMMA VisitSteps ==
  ASSUME Inv, NEW v \in Visit, NEW c \in Call,
         UNCHANGED <<clock, pool, email>>, visit' = [visit EXCEPT ![v] = c],
         Becomes(row, row'), \A w \in Visit : SendsRow(visit[w], w, row'),
         SendsRow(c, v, row'),
         c.pc = "claim" => c.to # NoAddress,
         c.pc = "send" => visit[v].pc = "send" \/ \A w \in Visit : visit[w].pc # "send",
         mail' \in Letters, MailIsRows(mail', row')
  PROVE  Inv'
<1>0. visit \in [Visit -> Call] BY InvParts
<1>1. /\ visit' \in [Visit -> Call]
      /\ \A w \in Visit : visit'[w] = IF w = v THEN c ELSE visit[w]
  BY <1>0
<1>2. Types' BY <1>1 DEF Inv, Types, Becomes
<1>3. (RowIsHeld(row) /\ RowIsFixed(row))' BY DEF Becomes, RowIsHeld, RowIsFixed
<1>4. \A w \in Visit : visit'[w].pc = "claim" => visit'[w].to # NoAddress
  BY <1>1 DEF Inv
<1>5. \A w \in Visit : SendsRow(visit'[w], w, row') BY <1>1
<1>6. \A w \in Visit : (SendsRow(visit[w], w, row))' BY <1>5 DEF SendsRow
<1>7. \A u, w \in Visit : visit'[u].pc = "send" /\ visit'[w].pc = "send" => u = w
  BY <1>1 DEF Inv
<1>8. MailIsRows(mail, row)' BY DEF MailIsRows
<1> QED BY <1>2, <1>3, <1>4, <1>6, <1>7, <1>8 DEF Inv

\* The calls a visit may be in.
LEMMA IdleCall == Idle \in Call /\ Idle.pc = "idle"
BY Bounds, CreatorAssumption DEF Idle, Call

\* The row alone changes, or nothing but the visit's own call.
LEMMA PrepareKeeps ==
  ASSUME Inv, NEW v \in Visit, Prepare(v)
  PROVE  Inv'
<1>0. /\ visit \in [Visit -> Call] /\ mail \in Letters /\ MailIsRows(mail, row)
      /\ pool.commissioner \in Person
  BY InvParts
<1>1. /\ Becomes(row, row') /\ \A w \in Visit : SendsRow(visit[w], w, row')
  BY PreparedRow DEF Prepare
<1>2. MailIsRows(mail, row') BY <1>0, <1>1, MailStays DEF Becomes
<1> DEFINE c == [visit[v] EXCEPT !.pc = "lookup", !.commissioner = pool.commissioner]
<1>3. visit[v].pc = "idle" BY IdleCall DEF Prepare
<1>4. c \in Call /\ c.pc = "lookup" BY <1>0 DEF Call
<1>5. visit' = visit \/ visit' = [visit EXCEPT ![v] = c] BY <1>0 DEF Prepare, Call
<1> HIDE DEF c
<1>6. CASE visit' = [visit EXCEPT ![v] = c]
  BY <1>0, <1>1, <1>2, <1>4, <1>6, VisitSteps DEF SendsRow, Prepare
<1>7. CASE visit' = visit
  <2>1. visit' = [visit EXCEPT ![v] = visit[v]] /\ visit[v] \in Call BY <1>0, <1>7
  <2> QED BY <1>0, <1>1, <1>2, <1>3, <2>1, VisitSteps DEF SendsRow, Prepare
<1> QED BY <1>5, <1>6, <1>7

\* A visit that goes back to idle, or to a call in which it does not send, while the
\* row and the mail stay.
LEMMA CallMoves ==
  ASSUME Inv, NEW v \in Visit, NEW c \in Call, c.pc # "send",
         c.pc = "claim" => c.to # NoAddress,
         UNCHANGED <<clock, pool, email, row, mail>>, visit' = [visit EXCEPT ![v] = c]
  PROVE  Inv'
<1>0. /\ mail \in Letters /\ MailIsRows(mail, row)
      /\ \A w \in Visit : SendsRow(visit[w], w, row)
  BY InvParts
<1>1. Becomes(row, row') BY RowStays
<1>2. SendsRow(c, v, row') BY DEF SendsRow
<1> QED BY <1>0, <1>1, <1>2, VisitSteps

LEMMA LookupKeeps ==
  ASSUME Inv, NEW v \in Visit, Lookup(v)
  PROVE  Inv'
<1>0. visit \in [Visit -> Call] /\ email \in [Person -> Address \cup {NoAddress}]
  BY InvParts DEF Inv, Types
<1> DEFINE to == email[visit[v].commissioner]
           c == [visit[v] EXCEPT !.pc = "claim", !.to = to]
<1>1. to \in Address \cup {NoAddress} BY <1>0 DEF Call
<1>2. \/ visit' = [visit EXCEPT ![v] = Idle]
      \/ to # NoAddress /\ visit' = [visit EXCEPT ![v] = c]
  BY <1>0 DEF Lookup, Call
<1>3. UNCHANGED <<clock, pool, email, row, mail>> BY DEF Lookup
<1> HIDE DEF to
<1>4. c \in Call /\ c.pc = "claim" /\ c.to = to BY <1>0, <1>1 DEF Call
<1> HIDE DEF c
<1>5. CASE visit' = [visit EXCEPT ![v] = Idle] BY <1>3, <1>5, IdleCall, CallMoves
<1>6. CASE to # NoAddress /\ visit' = [visit EXCEPT ![v] = c]
  BY <1>3, <1>4, <1>6, CallMoves
<1> QED BY <1>2, <1>5, <1>6

LEMMA ClaimKeeps ==
  ASSUME Inv, NEW v \in Visit, Claim(v)
  PROVE  Inv'
<1>0. /\ visit \in [Visit -> Call] /\ mail \in Letters /\ MailIsRows(mail, row)
      /\ row \in Row /\ clock \in 1..MaxTime
      /\ \A w \in Visit : SendsRow(visit[w], w, row)
  BY InvParts
<1>1. /\ UNCHANGED <<clock, pool, email, mail>> /\ row' = Claimed(v).row
      /\ visit[v].to # NoAddress
  BY DEF Claim, Inv
<1> DEFINE c == [visit[v] EXCEPT !.pc = "send", !.name = row.name, !.until = clock + Lease]
<1>2. \/ visit' = [visit EXCEPT ![v] = Idle]
      \/ Claimed(v).send /\ visit' = [visit EXCEPT ![v] = c]
  BY <1>0 DEF Claim, Call
<1>3. /\ c \in Call /\ c.pc = "send" /\ c.to = visit[v].to /\ c.name = row.name
      /\ c.until = clock + Lease
  BY <1>0, Bounds DEF Call, Row
<1> HIDE DEF c
<1>4. /\ Becomes(row, row') /\ \A w \in Visit : SendsRow(visit[w], w, row')
      /\ Claimed(v).send => /\ \A w \in Visit : visit[w].pc # "send"
                            /\ SendsRow(c, v, row')
  <2>1. CASE ClaimRefused(v)
    <3>1. /\ Becomes(row, row) /\ SameHolder(row, row)
          /\ Becomes(row, Terminate(row)) /\ SameHolder(row, Terminate(row))
      BY RowStays, TerminatedHolder
    <3>2. Becomes(row, row') /\ SameHolder(row, row') /\ ~Claimed(v).send
      BY <1>1, <2>1, <3>1 DEF ClaimRefused
    <3> QED BY <1>0, <3>2, SendsOn DEF Becomes
  <2>2. CASE ClaimReleased(v) BY <1>1, <2>2, ReleasedRow DEF ClaimReleased
  <2>3. CASE ClaimSends(v)
    <3>1. /\ Becomes(row, Attempting(v)) /\ \A w \in Visit : visit[w].pc # "send"
          /\ SendsRow(c, v, Attempting(v))
      BY <1>1, <1>3, <2>3, AttemptingRow
    <3>2. row' = Attempting(v) BY <1>1, <2>3 DEF ClaimSends
    <3>3. \A w \in Visit : SendsRow(visit[w], w, row') BY <3>1 DEF SendsRow
    <3> QED BY <3>1, <3>2, <3>3
  <2> QED BY <2>1, <2>2, <2>3, ClaimCases
<1>5. mail' \in Letters /\ MailIsRows(mail', row') BY <1>0, <1>1, <1>4, MailStays DEF Becomes
<1>6. CASE visit' = [visit EXCEPT ![v] = Idle]
  <2>1. SendsRow(Idle, v, row') BY IdleCall DEF SendsRow
  <2> QED BY <1>1, <1>4, <1>5, <1>6, <2>1, IdleCall, VisitSteps
<1>7. CASE Claimed(v).send /\ visit' = [visit EXCEPT ![v] = c]
  BY <1>1, <1>3, <1>4, <1>5, <1>7, VisitSteps
<1> QED BY <1>2, <1>6, <1>7

\* The provider is asked for the row's mail while it remembers the key.
LEMMA ProviderKeeps ==
  ASSUME Inv, NEW v \in Visit, visit[v].pc = "send", NEW accepts \in BOOLEAN,
         Provider([to |-> visit[v].to, name |-> visit[v].name], accepts)
  PROVE  mail' \in Letters /\ MailIsRows(mail', row)
<1>0. /\ visit \in [Visit -> Call] /\ mail \in Letters /\ MailIsRows(mail, row)
      /\ row \in Row /\ RowIsFixed(row) /\ clock \in 1..MaxTime /\ clock \in Nat
      /\ SendsRow(visit[v], v, row)
  BY InvParts
<1> DEFINE p == [to |-> visit[v].to, name |-> visit[v].name]
           remembered == mail.copies > 0 /\ clock < mail.first + DedupWindow
<1>1. /\ p.to = row.to /\ p.name = row.name /\ row.first # 0 /\ row.to # NoAddress
      /\ clock < visit[v].until /\ visit[v].until <= row.deadline + Lease
      /\ row.deadline <= row.first + RetryWindow /\ row.first <= clock
  BY <1>0 DEF SendsRow, RowIsFixed
<1>2. p \in Payload
  <2>1. row.to \in Address /\ row.name \in 0..MaxChanges BY <1>0, <1>1 DEF Row
  <2>2. p = [to |-> row.to, name |-> row.name] BY <1>1
  <2> QED BY <2>1, <2>2 DEF Payload
<1>3. mail.copies \in 0..2 /\ mail.first \in Nat /\ mail.copies <= 1
  BY <1>0, Sizes DEF Letters, MailIsRows, Time
<1>4. mail.copies > 0 => remembered
  <2>1. row.first \in Nat /\ row.deadline \in Nat /\ visit[v].until \in Nat
    BY <1>0, Sizes DEF Row, Call, Time
  <2>2. mail.copies > 0 => row.first <= mail.first BY <1>0 DEF MailIsRows
  <2> QED BY <1>0, <1>1, <1>3, <2>1, <2>2, Sizes
<1> DEFINE sent == [asked |-> mail.asked \cup {p}, first |-> clock,
                    copies |-> Min({2, mail.copies + 1})]
           again == [mail EXCEPT !.asked = mail.asked \cup {p}]
<1>5. mail' = IF accepts /\ ~remembered THEN sent ELSE again BY <1>0 DEF Provider, Letters
<1> HIDE DEF p, remembered
<1>6. mail.asked \cup {p} \in SUBSET Payload BY <1>0, <1>2 DEF Letters
<1>7. \A q \in mail.asked \cup {p} : row.first # 0 /\ q.to = row.to /\ q.name = row.name
  BY <1>0, <1>1 DEF MailIsRows
<1>8. CASE accepts /\ ~remembered
  <2>1. mail.copies = 0 BY <1>3, <1>4, <1>8
  <2>2. Min({2, mail.copies + 1}) \in 0..2 /\ Min({2, mail.copies + 1}) <= 1
    <3>1. mail.copies + 1 = 1 BY <2>1
    <3>2. Min({2, 1}) \in {2, 1} /\ Min({2, 1}) <= 1 BY MinOfTwo
    <3> QED BY <3>1, <3>2
  <2>3. clock \in Time BY <1>0, Bounds
  <2> QED BY <1>1, <1>5, <1>6, <1>7, <1>8, <2>2, <2>3 DEF Letters, MailIsRows
<1>9. CASE ~(accepts /\ ~remembered)
  <2>1. again \in Letters /\ again.asked = mail.asked \cup {p}
        /\ again.first = mail.first /\ again.copies = mail.copies
    BY <1>0, <1>6 DEF Letters
  <2> HIDE DEF again
  <2>2. mail' = again BY <1>5, <1>9
  <2> QED BY <1>0, <1>7, <2>1, <2>2 DEF MailIsRows
<1> QED BY <1>8, <1>9

LEMMA SendKeeps ==
  ASSUME Inv, NEW v \in Visit, Send(v)
  PROVE  Inv'
<1>0. /\ mail \in Letters /\ MailIsRows(mail, row)
      /\ \A w \in Visit : SendsRow(visit[w], w, row)
  BY InvParts
<1>1. UNCHANGED <<clock, pool, email, row>> /\ visit[v].pc = "send" BY DEF Send
<1>2. CASE clock >= Kickoff /\ visit' = [visit EXCEPT ![v] = Idle] /\ UNCHANGED mail
  BY <1>1, <1>2, IdleCall, CallMoves
<1>3. ASSUME NEW accepts \in BOOLEAN, NEW told \in BOOLEAN,
             Provider([to |-> visit[v].to, name |-> visit[v].name], accepts),
             visit' = [visit EXCEPT ![v] =
               [Idle EXCEPT !.pc = IF accepts /\ told THEN "complete" ELSE "fail"]]
      PROVE  Inv'
  <2> DEFINE c == [Idle EXCEPT !.pc = IF accepts /\ told THEN "complete" ELSE "fail"]
  <2>1. c \in Call /\ c.pc \in {"complete", "fail"} BY IdleCall DEF Call
  <2>2. visit' = [visit EXCEPT ![v] = c] BY <1>3
  <2> HIDE DEF c
  <2>3. mail' \in Letters /\ MailIsRows(mail', row) BY <1>1, <1>3, ProviderKeeps
  <2>4. SendsRow(c, v, row') BY <2>1 DEF SendsRow
  <2>5. Becomes(row, row') BY <1>1, RowStays
  <2> QED BY <1>0, <1>1, <2>1, <2>2, <2>3, <2>4, <2>5, VisitSteps
<1> QED BY <1>2, <1>3 DEF Send

LEMMA FinishKeeps ==
  ASSUME Inv, NEW v \in Visit, Complete(v) \/ Fail(v)
  PROVE  Inv'
<1>0. /\ visit \in [Visit -> Call] /\ mail \in Letters /\ MailIsRows(mail, row)
      /\ \A w \in Visit : SendsRow(visit[w], w, row)
  BY InvParts
<1>1. UNCHANGED <<clock, pool, email, mail>> /\ visit[v].pc # "send"
  BY DEF Complete, Fail
<1>2. row' = row \/ row' = Finished(v, TRUE) \/ row' = Finished(v, FALSE)
  BY DEF Complete, Fail
<1>3. Becomes(row, row') /\ \A w \in Visit : SendsRow(visit[w], w, row')
  BY <1>0, <1>1, <1>2, RowStays, FinishedRow
<1>4. mail' \in Letters /\ MailIsRows(mail', row') BY <1>0, <1>1, <1>3, MailStays DEF Becomes
<1> DEFINE c == [visit[v] EXCEPT !.pc = "fail"]
<1>5. visit' \in {[visit EXCEPT ![v] = Idle], [visit EXCEPT ![v] = c]}
  BY <1>0 DEF Complete, Fail, Call
<1>6. c \in Call /\ c.pc = "fail" BY <1>0 DEF Call
<1> HIDE DEF c
<1>7. ASSUME NEW d \in {Idle, c} PROVE d \in Call /\ d.pc \in {"idle", "fail"}
  BY <1>6, IdleCall
<1>8. PICK d \in {Idle, c} : visit' = [visit EXCEPT ![v] = d] BY <1>5
<1>9. SendsRow(d, v, row') BY <1>7 DEF SendsRow
<1> QED BY <1>1, <1>3, <1>4, <1>7, <1>8, <1>9, VisitSteps

LEMMA StopKeeps ==
  ASSUME Inv, NEW v \in Visit, Stop(v)
  PROVE  Inv'
BY IdleCall, CallMoves DEF Stop

\* Time passes no claimed mail's lease.
LEMMA TickKeeps ==
  ASSUME Inv, Tick
  PROVE  Inv'
<1>0. clock \in 1..MaxTime /\ clock \in Nat /\ row \in Row BY InvParts
<1>1. /\ clock' = clock + 1 /\ clock' \in 1..MaxTime
      /\ UNCHANGED <<pool, email, row, visit, mail>>
  BY <1>0, Sizes DEF Tick
<1>2. Types' BY <1>1 DEF Inv, Types
<1>3. row.first \in Nat BY <1>0, Sizes DEF Row, Time
<1>4. RowIsFixed(row)' BY <1>0, <1>1, <1>3 DEF Inv, RowIsFixed
<1>5. \A v \in Visit : (SendsRow(visit[v], v, row))'
  BY <1>1 DEF Inv, SendsRow, Tick
<1> QED BY <1>1, <1>2, <1>4, <1>5 DEF Inv, RowIsHeld, MailIsRows

\* What happens to the pool and to addresses leaves the reminder as it is.
LEMMA AroundKeeps ==
  ASSUME Inv, PoolChanges \/ \E p \in Person : EmailChanges(p)
  PROVE  Inv'
<1>1. UNCHANGED <<clock, row, visit, mail>> BY DEF PoolChanges, EmailChanges
<1>2. pool \in Authority /\ pool.name <= pool.changes
      /\ email \in [Person -> Address \cup {NoAddress}]
  BY DEF Inv, Types
<1>3. pool' \in Authority /\ pool'.name <= pool'.changes
  <2>0. pool.name \in 0..MaxChanges /\ pool.changes \in 0..MaxChanges BY <1>2 DEF Authority
  <2>1. CASE Discover \/ Confirm \/ Close
    BY <1>2, <2>1 DEF Discover, Confirm, Close, Authority
  <2>2. CASE Transfer
    <3>1. PICK q \in Person : pool' = [pool EXCEPT !.commissioner = q,
                                                   !.changes = pool.changes + 1]
      BY <1>2, <2>2 DEF Transfer, Authority
    <3>2. pool.changes + 1 \in 0..MaxChanges BY <2>0, <2>2, Sizes DEF Transfer
    <3>3. /\ pool' \in Authority /\ pool'.changes = pool.changes + 1
          /\ pool'.name = pool.name
      BY <1>2, <3>1, <3>2 DEF Authority
    <3> QED BY <1>2, <2>0, <3>3
  <2>3. CASE Rename
    <3>1. pool' = [pool EXCEPT !.name = pool.name + 1, !.changes = pool.changes + 1]
      BY <1>2, <2>3 DEF Rename, Authority
    <3>2. pool.changes + 1 \in 0..MaxChanges /\ pool.name + 1 \in 0..MaxChanges
      BY <1>2, <2>0, <2>3, Sizes DEF Rename
    <3>3. /\ pool' \in Authority /\ pool'.changes = pool.changes + 1
          /\ pool'.name = pool.name + 1
      BY <1>2, <3>1, <3>2 DEF Authority
    <3> QED BY <1>2, <2>0, <3>3
  <2>4. CASE \E p \in Person : EmailChanges(p)
    <3>1. pool' = [pool EXCEPT !.changes = pool.changes + 1] /\ pool.changes < MaxChanges
      BY <1>2, <2>4 DEF EmailChanges, Authority
    <3>2. pool.changes + 1 \in 0..MaxChanges BY <2>0, <3>1, Sizes
    <3>3. /\ pool' \in Authority /\ pool'.changes = pool.changes + 1
          /\ pool'.name = pool.name
      BY <1>2, <3>1, <3>2 DEF Authority
    <3> QED BY <1>2, <2>0, <3>3
  <2> QED BY <2>1, <2>2, <2>3, <2>4 DEF PoolChanges
<1>4. email' \in [Person -> Address \cup {NoAddress}]
  BY <1>2 DEF PoolChanges, EmailChanges
<1>5. Types' BY <1>1, <1>3, <1>4 DEF Inv, Types
<1> QED BY <1>1, <1>5 DEF Inv, RowIsHeld, RowIsFixed, SendsRow, MailIsRows

LEMMA InvHolds == Spec => []Inv
<1>1. Init => Inv
  <2> SUFFICES ASSUME Init PROVE Inv OBVIOUS
  <2>1. /\ clock = 1 /\ row = NoRow /\ mail = [asked |-> {}, first |-> 0, copies |-> 0]
        /\ visit = [v \in Visit |-> Idle] /\ email \in [Person -> Address]
    BY DEF Init
  <2>2. pool \in Authority /\ pool.name <= pool.changes
    <3>1. pool = [active |-> TRUE, candidate |-> FALSE, confirmed |-> FALSE,
                  commissioner |-> Creator, name |-> 0, changes |-> 0]
      BY DEF Init
    <3> QED BY <3>1, Bounds, CreatorAssumption DEF Authority
  <2>3. row \in Row BY <2>1, Bounds, CreatorAssumption DEF NoRow, Row
  <2>4. mail \in Letters BY <2>1, Bounds DEF Letters
  <2>5. Types BY <2>1, <2>2, <2>3, <2>4, Sizes, IdleCall DEF Types
  <2>6. RowIsHeld(row) /\ RowIsFixed(row) BY <2>1 DEF NoRow, RowIsHeld, RowIsFixed
  <2>7. MailIsRows(mail, row) BY <2>1 DEF MailIsRows
  <2>8. \A v \in Visit : visit[v].pc = "idle" BY <2>1, IdleCall
  <2> QED BY <2>5, <2>6, <2>7, <2>8 DEF Inv, SendsRow
<1>2. Inv /\ [Next]_vars => Inv'
  <2> SUFFICES ASSUME Inv, [Next]_vars PROVE Inv' OBVIOUS
  <2>1. CASE Tick BY <2>1, TickKeeps
  <2>2. CASE PoolChanges \/ \E p \in Person : EmailChanges(p) BY <2>2, AroundKeeps
  <2>3. ASSUME NEW v \in Visit, Prepare(v) PROVE Inv' BY <2>3, PrepareKeeps
  <2>4. ASSUME NEW v \in Visit, Step(v) PROVE Inv'
    BY <2>4, LookupKeeps, ClaimKeeps, SendKeeps, FinishKeeps DEF Step
  <2>5. ASSUME NEW v \in Visit, Stop(v) PROVE Inv' BY <2>5, StopKeeps
  <2>6. CASE UNCHANGED vars
    BY <2>6 DEF vars, Inv, Types, RowIsHeld, RowIsFixed, SendsRow, MailIsRows
  <2> QED BY <2>1, <2>2, <2>3, <2>4, <2>5, <2>6 DEF Next
<1> QED BY <1>1, <1>2, PTL DEF Spec

-----------------------------------------------------------------------------
(* Theorems *)

\* The reminder's row, its visits and the provider's memory stay within their types,
\* one visit at most holds the row, and an attempt that is not over is held.
THEOREM TypeCorrect == Spec => []TypeOK
<1>1. Inv => TypeOK
  <2> SUFFICES ASSUME Inv PROVE TypeOK OBVIOUS
  <2>1. Cardinality(row.token) <= 1
    <3>1. row.token = {} \/ \E v \in Visit : row.token = {v} BY DEF Inv, RowIsHeld
    <3>2. Cardinality({}) = 0 /\ \A v : Cardinality({v}) = 1 BY FS_EmptySet, FS_Singleton
    <3> QED BY <3>1, <3>2
  <2>2. row.outcome \in {"reserved", "attempting"} /\ ~row.terminal => row.token # {}
    BY DEF Inv, RowIsHeld
  <2> QED BY <2>1, <2>2 DEF Inv, Types, Row, Call, Authority, Letters, TypeOK
<1> QED BY <1>1, InvHolds, PTL

\* However visits overlap, fail and retry, one of them at most may be sending, every
\* mail the provider is asked for is the same mail, and one copy goes out.
THEOREM AlwaysMailedOnce == Spec => []MailedOnce
<1>1. Inv => MailedOnce
  <2> SUFFICES ASSUME Inv PROVE MailedOnce OBVIOUS
  <2>1. \A p, q \in mail.asked : p = q
    <3>1. mail.asked \in SUBSET Payload BY DEF Inv, Types, Letters
    <3>2. \A p \in mail.asked : p.to = row.to /\ p.name = row.name
      BY DEF Inv, MailIsRows
    <3> QED BY <3>1, <3>2 DEF Payload
  <2>2. Cardinality(mail.asked) <= 1
    <3>1. mail.asked = {} \/ \E p \in mail.asked : mail.asked = {p} BY <2>1
    <3>2. Cardinality({}) = 0 /\ \A p : Cardinality({p}) = 1 BY FS_EmptySet, FS_Singleton
    <3> QED BY <3>1, <3>2
  <2> QED BY <2>2 DEF Inv, MailIsRows, MailedOnce
<1> QED BY <1>1, InvHolds, PTL
=============================================================================
