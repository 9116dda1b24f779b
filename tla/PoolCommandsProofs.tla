-------------------------- MODULE PoolCommandsProofs --------------------------
(***************************************************************************)
(* Proofs about PoolCommands: whatever commands, repetitions, settlements  *)
(* and quotes follow one another, the pool has one commissioner, at most   *)
(* one open season and an account in it for every member, its reads are    *)
(* honest, and a command takes effect once.                                *)
(*                                                                         *)
(* The argument: every command writes rows d that are Good and that follow *)
(* the rows before them (Follows); one lemma per kind of change shows      *)
(* this, and CommitStep shows once what a commit of such rows keeps.       *)
(***************************************************************************)
EXTENDS PoolCommands, SequenceTheorems, FiniteSetTheorems, TLAPS

(* The inductive invariant *)

MemberRow == [role : {"none", "member", "commissioner"}, status : {"none", "active", "suspended"}]
SeasonRow == [state : {"none", "draft", "active", "closed"}, version : Nat]

Rows == [version : Nat, commissioner : User, active : Season \cup {NoSeason},
         name : BOOLEAN, signups : BOOLEAN, books : BOOLEAN,
         member : [User -> MemberRow], season : [Season -> SeasonRow],
         account : SUBSET (Season \X User), audit : SUBSET Id]

Quote == [season : Season, version : Nat, current : BOOLEAN]

\* The member the pool names as its commissioner, and no other, has that role.
Membership(d) ==
  /\ \A u \in User : /\ d.member[u].role = "none" <=> d.member[u].status = "none"
                     /\ d.member[u].role = "commissioner" <=> u = d.commissioner
  /\ d.member[d.commissioner].status = "active"

\* No season is newer than the pool.
Seasons(d) ==
  /\ \A s, t \in Open(d) : s = t
  /\ \A s \in Season : d.season[s].state = "active" <=> s = d.active
  /\ \A s \in Season : d.season[s].version <= d.version

Accounts(d) ==
  /\ \A s \in Open(d), u \in Members(d) : <<s, u>> \in d.account
  /\ \A s \in Season, u \in User : <<s, u>> \in d.account => u \in Members(d)

Good(d) == d \in Rows /\ d.version >= 1 /\ Membership(d) /\ Seasons(d) /\ Accounts(d)

\* The season of a quote has been opened and is at the quote's version or past it; at
\* that version the quote is of the books as they stand.
QuoteFits(q, d) ==
  q # NoQuote =>
    /\ d.season[q.season].state \in {"active", "closed"}
    /\ q.version <= d.season[q.season].version
    /\ d.season[q.season].state = "active" /\ q.version = d.season[q.season].version => q.current

\* A row of processed_command was written when its id was last executed, by somebody who
\* is a member; while it is to be kept, it is there.
Recorded(rows, ran, now, d) ==
  \A i \in Id :
    /\ rows[i] # NoRow => /\ rows[i].command.actor \in Members(d)
                          /\ ran[i].count > 0 /\ rows[i].expires = ran[i].at + Retention
    /\ ran[i].count > 0 /\ now <= ran[i].at + Retention => rows[i] # NoRow

Types ==
  /\ db.version <= MaxVersion /\ told \in 1..MaxVersion
  /\ processed \in [Id -> ProcessedCommand \cup {NoRow}]
  /\ quote \in Quote \cup {NoQuote}
  /\ clock \in 0..MaxTime
  /\ runs \in [Id -> [count : Nat, at : Nat]]
  /\ mailed \in [Id -> Nat]

Inv == Good(db) /\ Types /\ QuoteFits(quote, db) /\ Recorded(processed, runs, clock, db)

-----------------------------------------------------------------------------
(* How the rows of a command follow those before it *)

\* A season closes for good, at a version of its own.
ArchivesKept(b, d) ==
  \A s \in Season :
    /\ b.season[s].state = "closed" => history(d, s) = history(b, s)
    /\ b.season[s].state # "closed" /\ d.season[s].state = "closed" => LatestClosed(d) = {s}

\* While a season is active its version moves with what a share order depends on.
BasisKept(b, d) ==
  \A s \in Season :
    /\ b.season[s].state \in {"active", "closed"} =>
         /\ d.season[s].state \in {"active", "closed"}
         /\ b.season[s].version <= d.season[s].version
    /\ /\ b.season[s].state = "active" /\ d.season[s].state = "active"
       /\ d.season[s].version = b.season[s].version
       => Basis(d, s) = Basis(b, s)
    /\ b.season[s].state = "closed" => d.season[s].state # "active"

Follows(b, d) == Members(b) \subseteq Members(d) /\ ArchivesKept(b, d) /\ BasisKept(b, d)

LEMMA SameRows ==
  ASSUME NEW b, Good(b)
  PROVE  Follows(b, b)
<1>1. \A s \in Season : b.season[s].version \in Nat BY DEF Good, Rows, SeasonRow
<1>2. BasisKept(b, b) BY <1>1 DEF BasisKept
<1> QED BY <1>2 DEF Follows, ArchivesKept

LEMMA BumpIs ==
  ASSUME NEW b \in Rows, NEW d, d = bumpVersion(b)
  PROVE  /\ d \in Rows /\ d.version = b.version + 1
         /\ d.commissioner = b.commissioner /\ d.active = b.active
         /\ d.name = b.name /\ d.signups = b.signups /\ d.books = b.books
         /\ d.member = b.member /\ d.account = b.account /\ d.audit = b.audit
         /\ \A s \in Season :
              /\ d.season[s].state = b.season[s].state
              /\ d.season[s].version = IF s = b.active THEN b.version + 1 ELSE b.season[s].version
<1> DEFINE season == [s \in Season |-> IF s = b.active
                        THEN [b.season[s] EXCEPT !.version = b.version + 1] ELSE b.season[s]]
<1>1. b.version + 1 \in Nat /\ b.season \in [Season -> SeasonRow] BY DEF Rows
<1>2. ASSUME NEW s \in Season
      PROVE  /\ season[s] \in SeasonRow /\ season[s].state = b.season[s].state
             /\ season[s].version = IF s = b.active THEN b.version + 1 ELSE b.season[s].version
  <2>1. b.season[s] \in SeasonRow BY <1>1
  <2> QED BY <1>1, <2>1 DEF SeasonRow
<1>3. season \in [Season -> SeasonRow] BY <1>2
<1>4. d = [b EXCEPT !.version = b.version + 1, !.season = season] BY DEF bumpVersion
<1> HIDE DEF season
<1>5. /\ d \in Rows /\ d.version = b.version + 1 /\ d.season = season
      /\ d.commissioner = b.commissioner /\ d.active = b.active
      /\ d.name = b.name /\ d.signups = b.signups /\ d.books = b.books
      /\ d.member = b.member /\ d.account = b.account /\ d.audit = b.audit
  BY <1>1, <1>3, <1>4 DEF Rows
<1> QED BY <1>2, <1>5

\* A command that leaves the seasons alone and may add members, with their accounts in
\* what is open, bumps the version.
LEMMA BumpFollows ==
  ASSUME NEW b, Good(b), NEW e \in Rows, NEW d, d = bumpVersion(e),
         e.version = b.version, e.season = b.season, e.active = b.active,
         Membership(e), Members(b) \subseteq Members(e),
         \A s \in Season, u \in User :
           <<s, u>> \in e.account <=>
             <<s, u>> \in b.account \/ (s \in Open(b) /\ u \in Members(e))
  PROVE  Good(d) /\ Follows(b, d)
<1>1. /\ d \in Rows /\ d.version = b.version + 1
      /\ d.commissioner = e.commissioner /\ d.active = b.active
      /\ d.member = e.member /\ d.account = e.account
      /\ \A s \in Season :
           /\ d.season[s].state = b.season[s].state
           /\ d.season[s].version = IF s = b.active THEN b.version + 1 ELSE b.season[s].version
  BY BumpIs
<1>2. /\ b.version \in Nat /\ b.season \in [Season -> SeasonRow]
      /\ \A s \in Season : b.season[s] \in SeasonRow /\ b.season[s].version \in Nat
                           /\ b.season[s].version <= b.version
  BY DEF Good, Rows, Seasons, SeasonRow
<1>3. Members(d) = Members(e) /\ Open(d) = Open(b) BY <1>1 DEF Members, Open
<1>4. Membership(d) BY <1>1 DEF Membership
<1>5. Seasons(d) BY <1>1, <1>2, <1>3 DEF Seasons, Good
<1>6. Accounts(d)
  <2>1. Open(b) \subseteq Season /\ Members(e) \subseteq User BY DEF Open, Members
  <2>2. \A s \in Season, u \in User : <<s, u>> \in b.account => u \in Members(b)
    BY DEF Good, Accounts
  <2> QED BY <1>1, <1>3, <2>1, <2>2 DEF Accounts
<1>7. Good(d) BY <1>1, <1>2, <1>4, <1>5, <1>6 DEF Good
<1>8. ASSUME NEW s \in Season, b.season[s].state = "closed"
      PROVE  history(d, s) = history(b, s)
  <2>1. s # b.active /\ s \notin Open(b) BY <1>8 DEF Good, Seasons, Open
  <2>2. {u \in User : <<s, u>> \in d.account} = {u \in User : <<s, u>> \in b.account}
    BY <1>1, <2>1
  <2>3. d.season[s] = b.season[s]
    <3>1. d.season[s] \in SeasonRow /\ b.season[s] \in SeasonRow BY <1>1, <1>2 DEF Rows
    <3>2. d.season[s].state = b.season[s].state /\ d.season[s].version = b.season[s].version
      BY <1>1, <2>1
    <3> QED BY <3>1, <3>2 DEF SeasonRow
  <2> QED BY <2>2, <2>3 DEF history
<1>9. ArchivesKept(b, d) BY <1>1, <1>8 DEF ArchivesKept
<1>10. ASSUME NEW s \in Season, b.season[s].state = "active"
       PROVE  d.season[s].version = b.version + 1 /\ d.season[s].version # b.season[s].version
  BY <1>1, <1>2, <1>10 DEF Good, Seasons
<1>11. BasisKept(b, d) BY <1>1, <1>2, <1>10 DEF BasisKept
<1> QED BY <1>3, <1>7, <1>9, <1>11 DEF Follows

-----------------------------------------------------------------------------
(* The life of a season *)

LEMMA ClosedIs ==
  ASSUME NEW e \in Rows, NEW s \in Season, NEW d, d = Closed(e, s)
  PROVE  /\ d \in Rows /\ d.version = e.version + 1
         /\ d.commissioner = e.commissioner /\ d.active = NoSeason
         /\ d.member = e.member /\ d.account = e.account /\ d.audit = e.audit
         /\ \A t \in Season :
              /\ d.season[t].state = IF t = s THEN "closed" ELSE e.season[t].state
              /\ d.season[t].version = IF t = s THEN e.version + 1 ELSE e.season[t].version
<1> DEFINE shut == [e.season EXCEPT ![s].state = "closed"]
           f    == [e EXCEPT !.season = shut, !.active = NoSeason]
           g    == bumpVersion(f)
           last == [g.season EXCEPT ![s].version = g.version]
<1>1. /\ e.season \in [Season -> SeasonRow]
      /\ \A t \in Season : e.season[t] \in SeasonRow BY DEF Rows
<1>2. /\ shut \in [Season -> SeasonRow]
      /\ \A t \in Season :
           /\ shut[t].state = IF t = s THEN "closed" ELSE e.season[t].state
           /\ shut[t].version = e.season[t].version
  BY <1>1 DEF SeasonRow
<1>3. d = [g EXCEPT !.season = last] BY DEF Closed
<1> HIDE DEF shut
<1>4. /\ f \in Rows /\ f.version = e.version /\ f.season = shut /\ f.active = NoSeason
      /\ f.commissioner = e.commissioner /\ f.member = e.member
      /\ f.account = e.account /\ f.audit = e.audit
  BY <1>2 DEF Rows
<1> HIDE DEF f
<1>5. /\ g \in Rows /\ g.version = e.version + 1
      /\ g.commissioner = e.commissioner /\ g.active = NoSeason
      /\ g.member = e.member /\ g.account = e.account /\ g.audit = e.audit
      /\ \A t \in Season : /\ g.season[t].state = shut[t].state
                           /\ g.season[t].version = shut[t].version
  BY <1>4, BumpIs, PoolAssumption
<1> HIDE DEF g
<1>6. g.season \in [Season -> SeasonRow] /\ g.version \in Nat
      /\ \A t \in Season : g.season[t] \in SeasonRow BY <1>5 DEF Rows
<1>7. /\ last \in [Season -> SeasonRow]
      /\ \A t \in Season :
           /\ last[t].state = g.season[t].state
           /\ last[t].version = IF t = s THEN g.version ELSE g.season[t].version
  BY <1>6 DEF SeasonRow
<1> HIDE DEF last
<1>8. /\ d \in Rows /\ d.version = g.version /\ d.season = last /\ d.active = g.active
      /\ d.commissioner = g.commissioner /\ d.member = g.member
      /\ d.account = g.account /\ d.audit = g.audit
  BY <1>3, <1>5, <1>7 DEF Rows
<1> QED BY <1>2, <1>5, <1>7, <1>8

\* The active season closes, with or without a settlement of its books.
LEMMA CloseFollows ==
  ASSUME NEW b, Good(b), NEW e \in Rows, NEW s \in Season, s = b.active,
         e.version = b.version, e.season = b.season, e.commissioner = b.commissioner,
         e.member = b.member, e.account = b.account,
         NEW d, d = Closed(e, s)
  PROVE  Good(d) /\ Follows(b, d)
<1>1. /\ d \in Rows /\ d.version = b.version + 1
      /\ d.commissioner = b.commissioner /\ d.active = NoSeason
      /\ d.member = b.member /\ d.account = b.account
      /\ \A t \in Season :
           /\ d.season[t].state = IF t = s THEN "closed" ELSE b.season[t].state
           /\ d.season[t].version = IF t = s THEN b.version + 1 ELSE b.season[t].version
  BY ClosedIs
<1>2. /\ b.version \in Nat /\ b.version >= 1
      /\ \A t \in Season : b.season[t].version \in Nat /\ b.season[t].version <= b.version
  BY DEF Good, Rows, Seasons, SeasonRow
<1>3. /\ b.season[s].state = "active"
      /\ \A t \in Season : t # s => b.season[t].state \notin {"draft", "active"}
  BY DEF Good, Seasons, Open
<1>4. Members(d) = Members(b) /\ Open(d) = {} BY <1>1, <1>3 DEF Members, Open
<1>5. Membership(d) BY <1>1 DEF Membership, Good
<1>6. Seasons(d) BY <1>1, <1>2, <1>3, <1>4, PoolAssumption DEF Seasons
<1>7. Accounts(d) BY <1>1, <1>4 DEF Accounts, Good
<1>8. Good(d) BY <1>1, <1>2, <1>5, <1>6, <1>7 DEF Good
<1>9. ASSUME NEW t \in Season, t # s PROVE history(d, t) = history(b, t)
  <2>1. d.season[t] \in SeasonRow /\ b.season[t] \in SeasonRow BY <1>1 DEF Good, Rows
  <2>2. d.season[t] = b.season[t] BY <1>1, <1>9, <2>1 DEF SeasonRow
  <2> QED BY <1>1, <2>2 DEF history
<1>10. LatestClosed(d) = {s}
  <2>1. \A t \in Season : d.season[t].state = "closed" => d.season[t].version <= d.season[s].version
    BY <1>1, <1>2
  <2>2. \A t \in Season : t # s => ~(d.season[s].version <= d.season[t].version) BY <1>1, <1>2
  <2> QED BY <1>1, <2>1, <2>2 DEF LatestClosed
<1>11. ArchivesKept(b, d) BY <1>1, <1>3, <1>9, <1>10 DEF ArchivesKept
<1>12. BasisKept(b, d) BY <1>1, <1>2, <1>3 DEF BasisKept
<1> QED BY <1>4, <1>8, <1>11, <1>12 DEF Follows

\* A draft becomes the active season of the pool.
LEMMA OpenFollows ==
  ASSUME NEW b, Good(b), NEW s \in Season, b.season[s].state = "draft",
         NEW d, d = bumpVersion([b EXCEPT !.season[s].state = "active", !.active = s])
  PROVE  Good(d) /\ Follows(b, d)
<1> DEFINE ready == [b.season EXCEPT ![s].state = "active"]
           f     == [b EXCEPT !.season = ready, !.active = s]
<1>1. /\ b \in Rows /\ b.season \in [Season -> SeasonRow]
      /\ \A t \in Season : b.season[t] \in SeasonRow BY DEF Good, Rows
<1>2. /\ ready \in [Season -> SeasonRow]
      /\ \A t \in Season :
           /\ ready[t].state = IF t = s THEN "active" ELSE b.season[t].state
           /\ ready[t].version = b.season[t].version
  BY <1>1 DEF SeasonRow
<1>3. d = bumpVersion(f) OBVIOUS
<1> HIDE DEF ready
<1>4. /\ f \in Rows /\ f.version = b.version /\ f.season = ready /\ f.active = s
      /\ f.commissioner = b.commissioner /\ f.member = b.member /\ f.account = b.account
  BY <1>1, <1>2 DEF Rows
<1> HIDE DEF f
<1>5. /\ d \in Rows /\ d.version = b.version + 1
      /\ d.commissioner = b.commissioner /\ d.active = s
      /\ d.member = b.member /\ d.account = b.account
      /\ \A t \in Season :
           /\ d.season[t].state = IF t = s THEN "active" ELSE b.season[t].state
           /\ d.season[t].version = IF t = s THEN b.version + 1 ELSE b.season[t].version
  BY <1>2, <1>3, <1>4, BumpIs
<1>6. /\ b.version \in Nat /\ b.version >= 1
      /\ \A t \in Season : b.season[t].version \in Nat /\ b.season[t].version <= b.version
  BY <1>1 DEF Good, Rows, Seasons, SeasonRow
<1>7. \A t \in Season : t # s => b.season[t].state \notin {"draft", "active"}
  BY DEF Good, Seasons, Open
<1>8. Members(d) = Members(b) /\ Open(d) = {s} /\ s \in Open(b)
  BY <1>5, <1>7 DEF Members, Open
<1>9. Membership(d) BY <1>5 DEF Membership, Good
<1>10. Seasons(d) BY <1>5, <1>6, <1>7, <1>8 DEF Seasons
<1>11. Accounts(d) BY <1>5, <1>8 DEF Accounts, Good
<1>12. Good(d) BY <1>5, <1>6, <1>9, <1>10, <1>11 DEF Good
<1>13. ASSUME NEW t \in Season, t # s PROVE history(d, t) = history(b, t)
  <2>1. d.season[t] \in SeasonRow BY <1>5 DEF Rows
  <2>2. d.season[t] = b.season[t] BY <1>1, <1>5, <1>13, <2>1 DEF SeasonRow
  <2> QED BY <1>5, <2>2 DEF history
<1>14. ArchivesKept(b, d) BY <1>5, <1>13 DEF ArchivesKept
<1>15. BasisKept(b, d) BY <1>5, <1>6, <1>7 DEF BasisKept
<1> QED BY <1>8, <1>12, <1>14, <1>15 DEF Follows

\* A season is drafted while none is open, with an account for every member.
LEMMA CreateFollows ==
  ASSUME NEW b, Good(b), NEW s \in Season, b.season[s].state = "none", Open(b) = {},
         NEW e, e = bumpVersion(b),
         NEW d, d = [e EXCEPT !.season[s] = [state |-> "draft", version |-> e.version],
                              !.account = e.account \cup {s} \X AccountHolders(b)]
  PROVE  Good(d) /\ Follows(b, d)
<1> DEFINE drafted == [e.season EXCEPT ![s] = [state |-> "draft", version |-> e.version]]
           opened  == e.account \cup {s} \X AccountHolders(b)
<1>1. b \in Rows /\ b.version \in Nat /\ b.version >= 1 BY DEF Good, Rows
<1>2. /\ e \in Rows /\ e.version = b.version + 1
      /\ e.commissioner = b.commissioner /\ e.active = b.active
      /\ e.member = b.member /\ e.account = b.account
      /\ \A t \in Season :
           /\ e.season[t].state = b.season[t].state
           /\ e.season[t].version = IF t = b.active THEN b.version + 1 ELSE b.season[t].version
  BY <1>1, BumpIs
<1>3. \A t \in Season : t # b.active /\ b.season[t].state \notin {"draft", "active"}
  BY DEF Good, Seasons, Open
<1>4. e.season \in [Season -> SeasonRow] /\ e.version \in Nat /\ e.account \subseteq Season \X User
  BY <1>2 DEF Rows
<1>5. /\ drafted \in [Season -> SeasonRow]
      /\ drafted[s].state = "draft" /\ drafted[s].version = e.version
      /\ \A t \in Season : t # s => drafted[t] = e.season[t]
  BY <1>4 DEF SeasonRow
<1>6. opened \subseteq Season \X User BY <1>4 DEF AccountHolders, Members
<1>7. \A t \in Season, u \in User :
        <<t, u>> \in opened <=> <<t, u>> \in b.account \/ (t = s /\ u \in Members(b))
  BY <1>2 DEF AccountHolders
<1> HIDE DEF drafted, opened
<1>8. d = [e EXCEPT !.season = drafted, !.account = opened] BY DEF drafted, opened
<1>9. /\ d \in Rows /\ d.version = b.version + 1
      /\ d.commissioner = b.commissioner /\ d.active = b.active /\ d.member = b.member
      /\ d.season = drafted /\ d.account = opened
  BY <1>2, <1>5, <1>6, <1>8 DEF Rows
<1>10. \A t \in Season :
         /\ d.season[t].state = IF t = s THEN "draft" ELSE b.season[t].state
         /\ d.season[t].version = IF t = s THEN b.version + 1 ELSE b.season[t].version
  BY <1>2, <1>3, <1>5, <1>9
<1>11. \A t \in Season : b.season[t].version \in Nat /\ b.season[t].version <= b.version
  BY <1>1 DEF Good, Rows, Seasons, SeasonRow
<1>12. Members(d) = Members(b) /\ Open(d) = {s} /\ Members(b) \subseteq User
  BY <1>3, <1>9, <1>10 DEF Members, Open
<1>13. Membership(d) BY <1>9 DEF Membership, Good
<1>14. Seasons(d) BY <1>1, <1>3, <1>9, <1>10, <1>11, <1>12 DEF Seasons
<1>15. Accounts(d) BY <1>7, <1>9, <1>12 DEF Accounts, Good
<1>16. Good(d) BY <1>1, <1>9, <1>13, <1>14, <1>15 DEF Good
<1>17. ASSUME NEW t \in Season, t # s PROVE history(d, t) = history(b, t)
  <2>1. d.season[t] \in SeasonRow /\ b.season[t] \in SeasonRow BY <1>1, <1>9 DEF Rows
  <2>2. d.season[t] = b.season[t] BY <1>10, <1>17, <2>1 DEF SeasonRow
  <2>3. {u \in User : <<t, u>> \in d.account} = {u \in User : <<t, u>> \in b.account}
    BY <1>7, <1>9, <1>17
  <2> QED BY <2>2, <2>3 DEF history
<1>18. ArchivesKept(b, d) BY <1>3, <1>10, <1>17 DEF ArchivesKept
<1>19. BasisKept(b, d) BY <1>3, <1>10, <1>11 DEF BasisKept
<1> QED BY <1>12, <1>16, <1>18, <1>19 DEF Follows

-----------------------------------------------------------------------------
(* What a commit keeps *)

\* Rows that differ in the audit alone are as good.
LEMMA AuditApart ==
  ASSUME NEW b, NEW d, Good(d), Follows(b, d), NEW e \in Rows,
         e.version = d.version, e.commissioner = d.commissioner, e.active = d.active,
         e.name = d.name, e.books = d.books,
         e.member = d.member, e.season = d.season, e.account = d.account
  PROVE  /\ Good(e) /\ Follows(b, e) /\ Projected(e) = Projected(d) /\ Members(e) = Members(d)
         /\ \A s \in Season : Basis(e, s) = Basis(d, s)
<1>1. Members(e) = Members(d) /\ Open(e) = Open(d) BY DEF Members, Open
<1>2. Good(e) BY <1>1 DEF Good, Membership, Seasons, Accounts
<1>3. \A s \in Season : history(e, s) = history(d, s) /\ Basis(e, s) = Basis(d, s)
  BY DEF history, Basis
<1>4. LatestClosed(e) = LatestClosed(d) BY DEF LatestClosed
<1>5. ArchivesKept(b, e) BY <1>3, <1>4 DEF ArchivesKept, Follows
<1>6. BasisKept(b, e) BY <1>3 DEF BasisKept, Follows
<1>7. Projected(e) = Projected(d) BY DEF Projected
<1> QED BY <1>1, <1>2, <1>3, <1>5, <1>6, <1>7 DEF Follows

\* A quote ages with the rows.
LEMMA AgedFits ==
  ASSUME Inv, NEW d, Good(d), Follows(db, d), NEW q, q = Aged(quote, d)
  PROVE  q \in Quote \cup {NoQuote} /\ QuoteFits(q, d)
<1>1. CASE quote = NoQuote BY <1>1 DEF Aged, QuoteFits
<1>2. CASE quote # NoQuote
  <2>1. quote \in Quote BY <1>2 DEF Inv, Types
  <2> DEFINE same == Basis(d, quote.season) = Basis(db, quote.season)
  <2>2. q = [quote EXCEPT !.current = quote.current /\ same] BY <1>2 DEF Aged
  <2> HIDE DEF same
  <2>3. /\ q \in Quote /\ q.season = quote.season /\ q.version = quote.version
        /\ q.current = (quote.current /\ same)
    BY <2>1, <2>2 DEF Quote
  <2> DEFINE s == quote.season
  <2>4. /\ s \in Season /\ quote.version \in Nat
        /\ db.season[s].version \in Nat /\ d.season[s].version \in Nat
    BY <2>1 DEF Quote, Inv, Good, Rows, SeasonRow
  <2>5. /\ db.season[s].state \in {"active", "closed"}
        /\ quote.version <= db.season[s].version
        /\ db.season[s].state = "active" /\ quote.version = db.season[s].version => quote.current
    BY <1>2 DEF Inv, QuoteFits
  <2>6. /\ d.season[s].state \in {"active", "closed"}
        /\ db.season[s].version <= d.season[s].version
        /\ db.season[s].state = "closed" => d.season[s].state # "active"
    BY <2>4, <2>5 DEF Follows, BasisKept
  <2>7. ASSUME d.season[s].state = "active", quote.version = d.season[s].version
        PROVE  quote.current /\ same
    <3>1. db.season[s].state = "active" /\ db.season[s].version = d.season[s].version
          /\ quote.version = db.season[s].version
      BY <2>4, <2>5, <2>6, <2>7
    <3>2. same BY <2>4, <2>7, <3>1 DEF Follows, BasisKept, same
    <3> QED BY <2>5, <3>1, <3>2
  <2>8. quote.version <= d.season[s].version BY <2>4, <2>5, <2>6
  <2> QED BY <2>3, <2>6, <2>7, <2>8 DEF QuoteFits
<1> QED BY <1>1, <1>2

\* What a step may not do, as actions.
OnceAct    == \A i \in Id : runs'[i].count > runs[i].count /\ runs[i].count > 0
                              => clock > runs[i].at + Retention
ToldAct    == Projected(db') # Projected(db) => told' = db'.version
NoticesAct == \A i \in Id : mailed'[i] > mailed[i] /\ mailed'[i] > 1
                              => processed[i].command.type = "TransferCommissioner"
ArchivesAct == ArchivesKept(db, db')

StepIsSound == Inv' /\ OnceAct /\ ToldAct /\ NoticesAct /\ ArchivesAct

\* The rows of a command by one of the members, whose type says whether the directory hears.
Sound(c, d) ==
  /\ c \in Command /\ Good(d) /\ Follows(db, d) /\ c.actor \in Members(d)
  /\ Projected(d) # Projected(db) => shouldEnqueueOutbox(c)

LEMMA CommitStep ==
  ASSUME Inv, NEW id \in Id \cup {Once}, NEW c, NEW d, NEW changed \in BOOLEAN,
         Sound(c, d), Commit(c, id, d, changed)
  PROVE  StepIsSound
<1> DEFINE row   == [command |-> c, changed |-> changed, expires |-> clock + Retention]
           rows  == IF id = Once THEN processed ELSE [processed EXCEPT ![id] = row]
           ran   == IF id = Once THEN runs
                    ELSE [runs EXCEPT ![id] = [count |-> runs[id].count + 1, at |-> clock]]
<1>1. /\ Good(d) /\ Follows(db, d) /\ d \in Rows /\ c \in Command BY DEF Sound, Good
<1>2. Retention \in Nat /\ clock \in Nat /\ Once \notin Id /\ (id # Once => id \in Id)
  BY PoolAssumption DEF Inv, Types
<1>3. /\ processed \in [Id -> ProcessedCommand \cup {NoRow}]
      /\ runs \in [Id -> [count : Nat, at : Nat]] /\ mailed \in [Id -> Nat]
  BY DEF Inv, Types
<1>4. /\ processed' = Unexpired(rows) /\ runs' = ran /\ clock' = clock
      /\ quote' = Aged(quote, d) /\ d.version <= MaxVersion
      /\ told' = IF shouldEnqueueOutbox(c) THEN d.version ELSE told
      /\ id # Once => processed[id] = NoRow
  BY <1>2 DEF Commit, IsNew
<1>5. /\ Good(db') /\ Follows(db, db') /\ Projected(db') = Projected(d)
      /\ Members(db') = Members(d) /\ db'.version = d.version
      /\ \A s \in Season : Basis(db', s) = Basis(d, s)
  <2>1. CASE db' = d BY <1>1, <2>1
  <2>2. CASE id \in Id /\ db' = [d EXCEPT !.audit = d.audit \cup {id}]
    <3>1. /\ db' \in Rows /\ db'.version = d.version /\ db'.commissioner = d.commissioner
          /\ db'.active = d.active /\ db'.name = d.name /\ db'.books = d.books
          /\ db'.member = d.member /\ db'.season = d.season /\ db'.account = d.account
      BY <1>1, <2>2 DEF Rows
    <3> QED BY <1>1, <3>1, AuditApart
  <2> QED BY <2>1, <2>2 DEF Commit
<1>6. row \in ProcessedCommand /\ row # NoRow /\ row.command = c /\ row.expires = clock + Retention
  BY <1>1, <1>2, RowAssumption DEF ProcessedCommand
<1> HIDE DEF row
<1>7. /\ rows \in [Id -> ProcessedCommand \cup {NoRow}]
      /\ \A i \in Id : rows[i] = IF i = id THEN row ELSE processed[i]
  BY <1>2, <1>3, <1>6
<1>8. /\ ran \in [Id -> [count : Nat, at : Nat]]
      /\ \A i \in Id : IF i = id THEN ran[i].count = runs[i].count + 1 /\ ran[i].at = clock
                       ELSE ran[i] = runs[i]
  BY <1>2, <1>3
<1> HIDE DEF rows, ran
<1>9. /\ processed' \in [Id -> ProcessedCommand \cup {NoRow}]
      /\ \A i \in Id : processed'[i] = IF rows[i] # NoRow /\ rows[i].expires < clock
                                       THEN NoRow ELSE rows[i]
  BY <1>4, <1>7 DEF Unexpired
<1>10. Recorded(processed', runs', clock', db')
  <2>1. Members(db) \subseteq Members(db') /\ c.actor \in Members(db')
    BY <1>5 DEF Follows, Sound
  <2>2. ASSUME NEW i \in Id, i = id
        PROVE  /\ processed'[i] = row /\ runs'[i].count > 0 /\ runs'[i].at = clock
    <3>1. runs[i].count \in Nat BY <1>3
    <3>2. ~(row.expires < clock) BY <1>2, <1>6
    <3> QED BY <1>4, <1>7, <1>8, <1>9, <2>2, <3>1, <3>2
  <2>3. ASSUME NEW i \in Id, i # id
        PROVE  /\ runs'[i] = runs[i]
               /\ processed'[i] = IF processed[i] # NoRow /\ processed[i].expires < clock
                                  THEN NoRow ELSE processed[i]
    BY <1>4, <1>7, <1>8, <1>9, <2>3
  <2>4. ASSUME NEW i \in Id
        PROVE  /\ processed[i] # NoRow =>
                    /\ processed[i].command.actor \in Members(db)
                    /\ runs[i].count > 0 /\ processed[i].expires = runs[i].at + Retention
               /\ runs[i].count > 0 /\ clock <= runs[i].at + Retention => processed[i] # NoRow
    BY DEF Inv, Recorded
  <2>5. \A i \in Id : runs[i].at \in Nat BY <1>3
  <2>6. ASSUME NEW i \in Id
        PROVE  /\ processed'[i] # NoRow =>
                    /\ processed'[i].command.actor \in Members(db')
                    /\ runs'[i].count > 0 /\ processed'[i].expires = runs'[i].at + Retention
               /\ runs'[i].count > 0 /\ clock <= runs'[i].at + Retention => processed'[i] # NoRow
    <3>1. CASE i = id BY <1>6, <2>1, <2>2, <3>1
    <3>2. CASE i # id BY <1>2, <2>1, <2>3, <2>4, <2>5, <3>2
    <3> QED BY <3>1, <3>2
  <2> QED BY <1>4, <2>6 DEF Recorded
<1>11. quote' \in Quote \cup {NoQuote} /\ QuoteFits(quote', db')
  <2>1. Aged(quote, d) = Aged(quote, db')
    <3>1. CASE quote = NoQuote BY <3>1 DEF Aged
    <3>2. CASE quote # NoQuote
      <4>1. quote.season \in Season BY <3>2 DEF Inv, Types, Quote
      <4> QED BY <1>5, <4>1 DEF Aged
    <3> QED BY <3>1, <3>2
  <2> QED BY <1>4, <1>5, <2>1, AgedFits
<1>12. /\ mailed' \in [Id -> Nat]
       /\ \A i \in Id : mailed'[i] = mailed[i] \/ mailed'[i] \in {0, 1}
  <2>1. PICK reached \in BOOLEAN :
          mailed' = IF id = Once THEN mailed
                    ELSE [mailed EXCEPT ![id] = IF reached /\ Notifies(c, changed) THEN 1 ELSE 0]
    BY DEF Commit
  <2> QED BY <1>2, <1>3, <2>1
<1>13. Types'
  <2>1. d.version \in Nat /\ d.version >= 1 BY <1>1 DEF Good, Rows
  <2>2. told' \in 1..MaxVersion BY <1>4, <2>1, PoolAssumption DEF Inv, Types
  <2>3. clock' \in 0..MaxTime BY <1>4 DEF Inv, Types
  <2>4. runs' \in [Id -> [count : Nat, at : Nat]] BY <1>4, <1>8
  <2> QED BY <1>4, <1>5, <1>9, <1>11, <1>12, <2>2, <2>3, <2>4 DEF Types
<1>14. Inv' BY <1>5, <1>10, <1>11, <1>13 DEF Inv
<1>15. OnceAct
  <2>1. ASSUME NEW i \in Id, runs'[i].count > runs[i].count, runs[i].count > 0
        PROVE  clock > runs[i].at + Retention
    <3>1. runs[i].count \in Nat /\ runs[i].at \in Nat BY <1>3
    <3>2. i = id BY <1>4, <1>8, <2>1, <3>1
    <3>3. processed[i] = NoRow BY <1>2, <1>4, <3>2
    <3>4. ~(clock <= runs[i].at + Retention) BY <2>1, <3>3 DEF Inv, Recorded
    <3> QED BY <1>2, <3>1, <3>4
  <2> QED BY <2>1 DEF OnceAct
<1>16. ToldAct BY <1>4, <1>5 DEF ToldAct, Sound
<1>17. NoticesAct BY <1>3, <1>12 DEF NoticesAct
<1>18. ArchivesAct BY <1>5 DEF ArchivesAct, Follows
<1> QED BY <1>14, <1>15, <1>16, <1>17, <1>18 DEF StepIsSound

-----------------------------------------------------------------------------
(* Every command writes sound rows *)

LEMMA Requests ==
  /\ \A c \in OnPool : c \in Command /\ c.actor \in User
  /\ \A c \in OnMember : c \in Command /\ c.actor \in User /\ c.on \in User
  /\ \A c \in OnSeason : c \in Command /\ c.actor \in User /\ c.on \in Season
  /\ \A c \in OnText : c \in Command /\ c.actor \in User
<1>1. \A c \in OnPool : c \in Command /\ c.actor \in User BY DEF Command, OnPool
<1>2. \A c \in OnMember : c \in Command /\ c.actor \in User /\ c.on \in User
  BY DEF Command, OnMember
<1>3. \A c \in OnSeason : c \in Command /\ c.actor \in User /\ c.on \in Season
  BY DEF Command, OnSeason
<1>4. \A c \in OnText : c \in Command /\ c.actor \in User BY DEF Command, OnText
<1> QED BY <1>1, <1>2, <1>3, <1>4

LEMMA ActiveIsMember ==
  ASSUME Inv, NEW u \in User, IsActive(u)
  PROVE  u \in Members(db)
BY DEF Inv, Good, Membership, IsActive, Members

\* The books, the name or the sign-ups of the pool change, or nothing does.
LEMMA Toggled ==
  ASSUME NEW b \in Rows, NEW e,
         \/ e = b \/ e = [b EXCEPT !.books = ~b.books]
         \/ e = [b EXCEPT !.name = ~b.name] \/ e = [b EXCEPT !.signups = ~b.signups]
  PROVE  /\ e \in Rows /\ e.version = b.version /\ e.commissioner = b.commissioner
         /\ e.active = b.active /\ e.member = b.member /\ e.season = b.season
         /\ e.account = b.account
BY DEF Rows

LEMMA ToggleFollows ==
  ASSUME NEW b, Good(b), NEW e,
         \/ e = b \/ e = [b EXCEPT !.books = ~b.books]
         \/ e = [b EXCEPT !.name = ~b.name] \/ e = [b EXCEPT !.signups = ~b.signups],
         NEW d, d = bumpVersion(e)
  PROVE  Good(d) /\ Follows(b, d)
<1>1. b \in Rows BY DEF Good
<1>2. /\ e \in Rows /\ e.version = b.version /\ e.commissioner = b.commissioner
      /\ e.active = b.active /\ e.member = b.member /\ e.season = b.season
      /\ e.account = b.account
  BY <1>1, Toggled
<1>3. Members(e) = Members(b) BY <1>2 DEF Members
<1>4. Membership(e) BY <1>2 DEF Good, Membership
<1>5. \A s \in Open(b), u \in Members(b) : <<s, u>> \in b.account BY DEF Good, Accounts
<1> QED BY <1>2, <1>3, <1>4, <1>5, BumpFollows

\* A post bumps the version, and the directory has nothing to hear.
LEMMA BumpIsNotProjected ==
  ASSUME NEW b, Good(b)
  PROVE  Projected(bumpVersion(b)) = Projected(b)
<1> DEFINE d == bumpVersion(b)
<1>1. b \in Rows BY DEF Good
<1>2. d.name = b.name /\ d.member = b.member
      /\ \A s \in Season : d.season[s].state = b.season[s].state
  BY <1>1, BumpIs
<1> HIDE DEF d
<1>3. Projected(d) = Projected(b) BY <1>2 DEF Projected
<1> QED BY <1>3 DEF d

LEMMA JoinStep ==
  ASSUME Inv, NEW id \in Id \cup {Once}, NEW c \in OnPool, JoinPool(c, id)
  PROVE  StepIsSound
<1>1. Good(db) /\ db \in Rows /\ c \in Command /\ c.actor \in User
  BY Requests DEF Inv, Good
<1>2. shouldEnqueueOutbox(c)
  BY DEF JoinPool, shouldEnqueueOutbox, Board, isInformationalSettings
<1>3. CASE db.member[c.actor].role = "none"
  <2> DEFINE seat   == [db.member EXCEPT ![c.actor] = [role |-> "member", status |-> "active"]]
             joined == AccountsOfJoiner(db, c.actor)
             e      == [db EXCEPT !.member = seat, !.account = joined]
  <2>1. Commit(c, id, bumpVersion(e), TRUE) BY <1>3 DEF JoinPool
  <2>2. /\ seat \in [User -> MemberRow]
        /\ seat[c.actor].role = "member" /\ seat[c.actor].status = "active"
        /\ \A u \in User : u # c.actor => seat[u] = db.member[u]
    BY <1>1 DEF Rows, MemberRow
  <2>3. joined \subseteq Season \X User
        /\ \A s \in Season, u \in User :
             <<s, u>> \in joined <=> <<s, u>> \in db.account \/ (s \in Open(db) /\ u = c.actor)
    BY <1>1 DEF Rows, AccountsOfJoiner, Open
  <2> HIDE DEF seat, joined
  <2>4. /\ e \in Rows /\ e.version = db.version /\ e.commissioner = db.commissioner
        /\ e.active = db.active /\ e.season = db.season /\ e.member = seat /\ e.account = joined
    BY <1>1, <2>2, <2>3 DEF Rows
  <2> HIDE DEF e
  <2>5. Members(e) = Members(db) \cup {c.actor} BY <1>1, <2>2, <2>4 DEF Members
  <2>6. db.commissioner \in User /\ c.actor # db.commissioner
    BY <1>1, <1>3 DEF Good, Membership, Rows
  <2>7. Membership(e) BY <1>1, <2>2, <2>4, <2>6 DEF Good, Membership
  <2>8. \A s \in Open(db), u \in Members(db) : <<s, u>> \in db.account BY <1>1 DEF Good, Accounts
  <2>9. Good(bumpVersion(e)) /\ Follows(db, bumpVersion(e))
    BY <1>1, <2>3, <2>4, <2>5, <2>7, <2>8, BumpFollows
  <2>10. c.actor \in Members(bumpVersion(e))
    <3>1. bumpVersion(e).member = e.member BY <2>4, BumpIs
    <3> QED BY <1>1, <2>2, <2>4, <3>1 DEF Members
  <2>11. Sound(c, bumpVersion(e)) BY <1>1, <1>2, <2>9, <2>10 DEF Sound
  <2> QED BY <2>1, <2>11, CommitStep
<1>4. CASE db.member[c.actor].role # "none"
  <2>1. Commit(c, id, db, FALSE) BY <1>4 DEF JoinPool
  <2>2. Sound(c, db) BY <1>1, <1>2, <1>4, SameRows DEF Sound, Members
  <2> QED BY <2>1, <2>2, CommitStep
<1> QED BY <1>3, <1>4

\* Roles and statuses among those who are members, with one active commissioner.
Seating(seat, boss) ==
  /\ \A u \in User : /\ seat[u].role = "none" <=> db.member[u].role = "none"
                     /\ seat[u].role = "none" <=> seat[u].status = "none"
                     /\ seat[u].role = "commissioner" <=> u = boss
  /\ seat[boss].status = "active"

LEMMA MemberStep ==
  ASSUME Inv, NEW id \in Id \cup {Once}, NEW c \in Command,
         NEW seat \in [User -> MemberRow], NEW boss \in User, Seating(seat, boss),
         Commit(c, id, bumpVersion([db EXCEPT !.commissioner = boss, !.member = seat]), TRUE),
         c.actor \in Members(db), shouldEnqueueOutbox(c)
  PROVE  StepIsSound
<1> DEFINE e == [db EXCEPT !.commissioner = boss, !.member = seat]
           d == bumpVersion(e)
<1>1. Good(db) /\ db \in Rows BY DEF Inv, Good
<1>2. /\ e \in Rows /\ e.version = db.version /\ e.commissioner = boss
      /\ e.active = db.active /\ e.season = db.season /\ e.member = seat /\ e.account = db.account
  BY <1>1 DEF Rows
<1>3. d = bumpVersion(e) /\ Commit(c, id, d, TRUE) OBVIOUS
<1> HIDE DEF e, d
<1>4. Members(e) = Members(db) BY <1>2 DEF Members, Seating
<1>5. Membership(e) BY <1>2 DEF Membership, Seating
<1>6. \A s \in Open(db), u \in Members(db) : <<s, u>> \in db.account BY <1>1 DEF Good, Accounts
<1>7. Good(d) /\ Follows(db, d)
  BY <1>1, <1>2, <1>3, <1>4, <1>5, <1>6, BumpFollows
<1>8. Sound(c, d) BY <1>7 DEF Sound, Follows
<1> QED BY <1>3, <1>8, CommitStep

\* A command that bumps the version and leaves members and seasons alone.
LEMMA BumpStep ==
  ASSUME Inv, NEW id \in Id \cup {Once}, NEW c \in Command, NEW e, NEW changed \in BOOLEAN,
         Commit(c, id, bumpVersion(e), changed), c.actor \in Members(db),
         \/ e = db
         \/ /\ shouldEnqueueOutbox(c)
            /\ \/ e = [db EXCEPT !.books = ~db.books] \/ e = [db EXCEPT !.name = ~db.name]
               \/ e = [db EXCEPT !.signups = ~db.signups]
  PROVE  StepIsSound
<1> DEFINE d == bumpVersion(e)
<1>1. Good(db) BY DEF Inv
<1>2. Good(d) /\ Follows(db, d) BY <1>1, ToggleFollows
<1>3. Projected(d) # Projected(db) => shouldEnqueueOutbox(c) BY <1>1, BumpIsNotProjected
<1> HIDE DEF d
<1>4. Sound(c, d) BY <1>2, <1>3 DEF Sound, Follows
<1>5. Commit(c, id, d, changed) BY DEF d
<1> QED BY <1>4, <1>5, CommitStep

\* A command that closes the active season.
LEMMA CloseStep ==
  ASSUME Inv, NEW id \in Id \cup {Once}, NEW c \in Command, NEW e, NEW s \in Season,
         Commit(c, id, Closed(e, s), TRUE), c.actor \in Members(db), shouldEnqueueOutbox(c),
         s = db.active, e = db \/ e = [db EXCEPT !.books = ~db.books]
  PROVE  StepIsSound
<1>1. Good(db) /\ db \in Rows BY DEF Inv, Good
<1>2. Good(Closed(e, s)) /\ Follows(db, Closed(e, s)) BY <1>1, Toggled, CloseFollows
<1>3. Sound(c, Closed(e, s)) BY <1>2 DEF Sound, Follows
<1> QED BY <1>3, CommitStep

LEMMA OnPoolStep ==
  ASSUME Inv, NEW id \in Id \cup {Once}, NEW c \in OnPool,
         \/ JoinPool(c, id) \/ UpdateMemberNickname(c, id) \/ PlaceWager(c, id)
         \/ RegradeWager(c, id) \/ ReverseShareOrder(c, id) \/ ReplyToMessageBoardPost(c, id)
  PROVE  StepIsSound
<1>1. c \in Command /\ c.actor \in User BY Requests
<1>2. c.type \notin Board /\ ~isInformationalSettings(c) => shouldEnqueueOutbox(c)
  BY DEF shouldEnqueueOutbox
<1>3. IsActive(c.actor) => c.actor \in Members(db) BY <1>1, ActiveIsMember
<1>4. Good(db) /\ db.active \in Season \cup {NoSeason} BY DEF Inv, Good, Rows
<1>5. CASE JoinPool(c, id) BY <1>5, JoinStep
<1>6. CASE UpdateMemberNickname(c, id)
  <2>1. Commit(c, id, bumpVersion(db), TRUE) /\ IsActive(c.actor)
    BY <1>6 DEF UpdateMemberNickname
  <2> QED BY <1>1, <1>3, <2>1, BumpStep
<1>7. CASE PlaceWager(c, id)
  <2>1. /\ Commit(c, id, bumpVersion([db EXCEPT !.books = ~db.books]), TRUE)
        /\ IsActive(c.actor) /\ shouldEnqueueOutbox(c)
    BY <1>2, <1>7 DEF PlaceWager, Board, isInformationalSettings
  <2> QED BY <1>1, <1>3, <2>1, BumpStep
<1>8. CASE RegradeWager(c, id)
  <2>1. /\ IsActive(c.actor) /\ shouldEnqueueOutbox(c) /\ db.active \in Season
    BY <1>2, <1>4, <1>8 DEF RegradeWager, Commands, Board, isInformationalSettings
  <2>2. PICK close \in BOOLEAN :
          Commit(c, id, IF close THEN Closed([db EXCEPT !.books = ~db.books], db.active)
                        ELSE bumpVersion([db EXCEPT !.books = ~db.books]), TRUE)
    BY <1>8 DEF RegradeWager
  <2>3. CASE close
    <3>1. Commit(c, id, Closed([db EXCEPT !.books = ~db.books], db.active), TRUE)
      BY <2>2, <2>3
    <3> QED BY <1>1, <1>3, <2>1, <3>1, CloseStep
  <2>4. CASE ~close
    <3>1. Commit(c, id, bumpVersion([db EXCEPT !.books = ~db.books]), TRUE) BY <2>2, <2>4
    <3> QED BY <1>1, <1>3, <2>1, <3>1, BumpStep
  <2> QED BY <2>3, <2>4
<1>9. CASE ReverseShareOrder(c, id)
  <2>1. /\ Commit(c, id, bumpVersion([db EXCEPT !.books = ~db.books]), TRUE)
        /\ IsActive(c.actor) /\ shouldEnqueueOutbox(c)
    BY <1>2, <1>9 DEF ReverseShareOrder, Commands, Board, isInformationalSettings
  <2> QED BY <1>1, <1>3, <2>1, BumpStep
<1>10. CASE ReplyToMessageBoardPost(c, id)
  <2>1. PICK another \in BOOLEAN : Commit(c, id, bumpVersion(db), another)
    BY <1>10 DEF ReplyToMessageBoardPost
  <2>2. IsActive(c.actor) BY <1>10 DEF ReplyToMessageBoardPost
  <2> QED BY <1>1, <1>3, <2>1, <2>2, BumpStep
<1> QED BY <1>5, <1>6, <1>7, <1>8, <1>9, <1>10

LEMMA OnMemberStep ==
  ASSUME Inv, NEW id \in Id \cup {Once}, NEW c \in OnMember,
         \/ TransferCommissioner(c, id) \/ SuspendMember(c, id)
         \/ RestoreMember(c, id) \/ ExecuteShareOrder(c, id)
  PROVE  StepIsSound
<1>1. c \in Command /\ c.actor \in User /\ c.on \in User BY Requests
<1>2. /\ Good(db) /\ db \in Rows /\ db.commissioner \in User /\ db.member \in [User -> MemberRow]
      /\ \A u \in User : db.member[u] \in MemberRow
  BY DEF Inv, Good, Rows
<1>3. shouldEnqueueOutbox(c) /\ IsActive(c.actor)
  BY DEF TransferCommissioner, SuspendMember, RestoreMember, ExecuteShareOrder, Commands,
         shouldEnqueueOutbox, Board, isInformationalSettings
<1>4. c.actor \in Members(db) BY <1>1, <1>3, ActiveIsMember
<1>5. /\ \A u \in User : /\ db.member[u].role = "none" <=> db.member[u].status = "none"
                         /\ db.member[u].role = "commissioner" <=> u = db.commissioner
      /\ db.member[db.commissioner].status = "active"
  BY <1>2 DEF Good, Membership
<1>6. CASE TransferCommissioner(c, id)
  <2>1. CASE c.on = db.commissioner
    <3>1. Commit(c, id, db, FALSE) BY <1>6, <2>1 DEF TransferCommissioner
    <3>2. Sound(c, db) BY <1>1, <1>2, <1>3, <1>4, SameRows DEF Sound
    <3> QED BY <3>1, <3>2, CommitStep
  <2>2. CASE c.on # db.commissioner
    <3> DEFINE seat == [u \in User |->
                 IF u \in Members(db)
                 THEN [db.member[u] EXCEPT !.role = IF u = c.on THEN "commissioner" ELSE "member"]
                 ELSE db.member[u]]
    <3>1. Commit(c, id, bumpVersion([db EXCEPT !.commissioner = c.on, !.member = seat]), TRUE)
      BY <1>6, <2>2 DEF TransferCommissioner
    <3>2. db.member[c.on].role # "none" /\ db.member[c.on].status = "active"
      BY <1>6 DEF TransferCommissioner, MayCommand
    <3>3. ASSUME NEW u \in User
          PROVE  /\ seat[u] \in MemberRow /\ seat[u].status = db.member[u].status
                 /\ seat[u].role = IF db.member[u].role = "none" THEN "none"
                                   ELSE IF u = c.on THEN "commissioner" ELSE "member"
      <4>1. db.member[u] \in MemberRow /\ (u \in Members(db) <=> db.member[u].role # "none")
        BY <1>2 DEF Members
      <4> QED BY <4>1 DEF MemberRow
    <3>4. seat \in [User -> MemberRow] BY <3>3
    <3> HIDE DEF seat
    <3>5. Seating(seat, c.on) BY <1>1, <1>5, <3>2, <3>3 DEF Seating
    <3> QED BY <1>1, <1>3, <1>4, <3>1, <3>4, <3>5, MemberStep
  <2> QED BY <2>1, <2>2
<1>7. ASSUME NEW word \in {"suspended", "active"}, c.on \in Members(db),
             word = "active" \/ c.on # db.commissioner,
             Commit(c, id, bumpVersion([db EXCEPT !.member[c.on].status = word]), TRUE)
      PROVE  StepIsSound
  <2> DEFINE seat == [db.member EXCEPT ![c.on].status = word]
  <2>1. ASSUME NEW u \in User
        PROVE  /\ seat[u] \in MemberRow /\ seat[u].role = db.member[u].role
               /\ seat[u].status = IF u = c.on THEN word ELSE db.member[u].status
    BY <1>1, <1>2, <1>7 DEF MemberRow
  <2>2. seat \in [User -> MemberRow] BY <1>1, <1>2, <1>7 DEF MemberRow
  <2>3. Commit(c, id, bumpVersion([db EXCEPT !.member = seat]), TRUE) BY <1>7
  <2> HIDE DEF seat
  <2>4. [db EXCEPT !.member = seat] = [db EXCEPT !.commissioner = db.commissioner, !.member = seat]
    BY <1>2 DEF Rows
  <2>5. Seating(seat, db.commissioner)
    BY <1>2, <1>5, <1>7, <2>1 DEF Members, Seating
  <2>6. Commit(c, id, bumpVersion([db EXCEPT !.commissioner = db.commissioner, !.member = seat]), TRUE)
    BY <2>3, <2>4
  <2> QED BY <1>1, <1>2, <1>3, <1>4, <2>2, <2>5, <2>6, MemberStep
<1>8. CASE SuspendMember(c, id) BY <1>7, <1>8 DEF SuspendMember
<1>9. CASE RestoreMember(c, id) BY <1>7, <1>9 DEF RestoreMember
<1>10. CASE ExecuteShareOrder(c, id)
  <2>1. Commit(c, id, bumpVersion([db EXCEPT !.books = ~db.books]), TRUE)
    BY <1>10 DEF ExecuteShareOrder
  <2> QED BY <1>1, <1>3, <1>4, <2>1, BumpStep
<1> QED BY <1>6, <1>8, <1>9, <1>10

LEMMA OnSeasonStep ==
  ASSUME Inv, NEW id \in Id \cup {Once}, NEW c \in OnSeason,
         \/ CreateSeason(c, id) \/ OpenSeason(c, id)
         \/ CloseSeason(c, id) \/ CreateSeasonAnnotation(c, id)
  PROVE  StepIsSound
<1>1. c \in Command /\ c.actor \in User /\ c.on \in Season BY Requests
<1>2. Good(db) BY DEF Inv
<1>3. shouldEnqueueOutbox(c) /\ IsActive(c.actor)
  BY DEF CreateSeason, OpenSeason, CloseSeason, CreateSeasonAnnotation, Commands,
         shouldEnqueueOutbox, Board, isInformationalSettings
<1>4. c.actor \in Members(db) BY <1>1, <1>3, ActiveIsMember
<1>5. ASSUME NEW d, Good(d), Follows(db, d) PROVE Sound(c, d)
  BY <1>1, <1>3, <1>4, <1>5 DEF Sound, Follows
<1>6. CASE CreateSeason(c, id)
  <2> DEFINE e == bumpVersion(db)
             d == [e EXCEPT !.season[c.on] = [state |-> "draft", version |-> e.version],
                            !.account = e.account \cup {c.on} \X AccountHolders(db)]
  <2>1. Commit(c, id, d, TRUE) BY <1>6 DEF CreateSeason
  <2>2. db.season[c.on].state = "none" /\ Open(db) = {} BY <1>6 DEF CreateSeason, NoneOpen
  <2>3. Good(d) /\ Follows(db, d) BY <1>1, <1>2, <2>2, CreateFollows
  <2> HIDE DEF d
  <2> QED BY <1>5, <2>1, <2>3, CommitStep
<1>7. CASE OpenSeason(c, id)
  <2> DEFINE d == bumpVersion([db EXCEPT !.season[c.on].state = "active", !.active = c.on])
  <2>1. Commit(c, id, d, TRUE) /\ db.season[c.on].state = "draft" BY <1>7 DEF OpenSeason
  <2>2. Good(d) /\ Follows(db, d) BY <1>1, <1>2, <2>1, OpenFollows
  <2> HIDE DEF d
  <2> QED BY <1>5, <2>1, <2>2, CommitStep
<1>8. CASE CloseSeason(c, id)
  <2>1. Commit(c, id, Closed(db, c.on), TRUE) /\ db.season[c.on].state = "active"
    BY <1>8 DEF CloseSeason
  <2>2. c.on = db.active BY <1>1, <1>2, <2>1 DEF Good, Seasons
  <2> QED BY <1>1, <1>3, <1>4, <2>1, <2>2, CloseStep
<1>9. CASE CreateSeasonAnnotation(c, id)
  <2>1. Commit(c, id, bumpVersion(db), TRUE) BY <1>9 DEF CreateSeasonAnnotation
  <2> QED BY <1>1, <1>4, <2>1, BumpStep
<1> QED BY <1>6, <1>7, <1>8, <1>9

LEMMA OnTextStep ==
  ASSUME Inv, NEW id \in Id \cup {Once}, NEW c \in OnText,
         UpdatePoolSettings(c, id) \/ CreateMessageBoardPost(c, id)
  PROVE  StepIsSound
<1>1. c \in Command /\ c.actor \in User BY Requests
<1>2. Good(db) BY DEF Inv
<1>3. c.actor \in Members(db)
  BY <1>1, ActiveIsMember DEF UpdatePoolSettings, CreateMessageBoardPost, Commands
<1>4. CASE UpdatePoolSettings(c, id)
  <2>1. CASE isInformationalSettings(c)
    <3>1. Commit(c, id, db, TRUE) BY <1>4, <2>1 DEF UpdatePoolSettings
    <3>2. Sound(c, db) BY <1>1, <1>2, <1>3, SameRows DEF Sound
    <3> QED BY <3>1, <3>2, CommitStep
  <2>2. CASE ~isInformationalSettings(c)
    <3>1. shouldEnqueueOutbox(c) BY <1>4, <2>2 DEF UpdatePoolSettings, shouldEnqueueOutbox, Board
    <3>2. Commit(c, id, bumpVersion(
            IF c.on = "name" THEN [db EXCEPT !.name = ~db.name]
            ELSE [db EXCEPT !.signups = ~db.signups]), TRUE)
      BY <1>4, <2>2 DEF UpdatePoolSettings
    <3>3. CASE c.on = "name"
      <4>1. Commit(c, id, bumpVersion([db EXCEPT !.name = ~db.name]), TRUE) BY <3>2, <3>3
      <4> QED BY <1>1, <1>3, <3>1, <4>1, BumpStep
    <3>4. CASE c.on # "name"
      <4>1. Commit(c, id, bumpVersion([db EXCEPT !.signups = ~db.signups]), TRUE) BY <3>2, <3>4
      <4> QED BY <1>1, <1>3, <3>1, <4>1, BumpStep
    <3> QED BY <3>3, <3>4
  <2> QED BY <2>1, <2>2
<1>5. CASE CreateMessageBoardPost(c, id)
  <2>1. Commit(c, id, bumpVersion(db), c.on = "announcement") BY <1>5 DEF CreateMessageBoardPost
  <2>2. (c.on = "announcement") \in BOOLEAN OBVIOUS
  <2> QED BY <1>1, <1>3, <2>1, <2>2, BumpStep
<1> QED BY <1>4, <1>5

-----------------------------------------------------------------------------
(* The other steps *)

LEMMA ReplayStep ==
  ASSUME Inv, NEW id \in Id, Replay(id)
  PROVE  StepIsSound
<1>1. /\ mailed \in [Id -> Nat] /\ mailed' = [mailed EXCEPT ![id] = mailed[id] + 1]
      /\ db' = db /\ processed' = processed /\ told' = told /\ quote' = quote
      /\ clock' = clock /\ runs' = runs
  BY DEF Replay, Inv, Types
<1>2. processed[id].command.type = "TransferCommissioner"
  BY DEF Replay, Notifies, MarksReplay, Board, TellsOfJoin, TellsOfOrder, TellsOfTransfer,
         TellsOfPost, TellsOfReply
<1>3. mailed' \in [Id -> Nat] /\ \A i \in Id : i # id => mailed'[i] = mailed[i] BY <1>1
<1>4. Inv' BY <1>1, <1>3 DEF Inv, Types
<1>5. NoticesAct BY <1>1, <1>2, <1>3 DEF NoticesAct
<1>6. OnceAct /\ ToldAct
  <2>1. \A i \in Id : runs[i].count \in Nat BY DEF Inv, Types
  <2> QED BY <1>1, <2>1 DEF OnceAct, ToldAct
<1>7. ArchivesAct BY <1>1, SameRows DEF ArchivesAct, Follows, Inv
<1> QED BY <1>4, <1>5, <1>6, <1>7 DEF StepIsSound

LEMMA StillStep ==
  ASSUME Inv, db' = db, processed' = processed, told' = told, runs' = runs, mailed' = mailed,
         clock' \in 0..MaxTime, clock' >= clock,
         quote' \in Quote \cup {NoQuote}, QuoteFits(quote', db)
  PROVE  StepIsSound
<1>1. \A i \in Id : runs[i].count \in Nat /\ runs[i].at \in Nat /\ mailed[i] \in Nat
  BY DEF Inv, Types
<1>2. Types' BY DEF Inv, Types
<1>3. Recorded(processed, runs, clock', db)
  <2>1. clock \in Nat /\ clock' \in Nat /\ Retention \in Nat BY PoolAssumption DEF Inv, Types
  <2> QED BY <1>1, <2>1 DEF Inv, Recorded
<1>4. Inv' BY <1>2, <1>3 DEF Inv
<1>5. OnceAct /\ ToldAct /\ NoticesAct BY <1>1 DEF OnceAct, ToldAct, NoticesAct
<1>6. ArchivesAct BY SameRows DEF ArchivesAct, Follows, Inv
<1> QED BY <1>4, <1>5, <1>6 DEF StepIsSound

LEMMA SettleStep ==
  ASSUME Inv, Settle
  PROVE  StepIsSound
<1> DEFINE e == [db EXCEPT !.books = ~db.books]
<1>1. Good(db) /\ db \in Rows /\ db.active \in Season /\ db.version \in Nat
      /\ db.version < MaxVersion
  BY DEF Settle, Inv, Good, Rows
<1>2. PICK close \in BOOLEAN : db' = IF close THEN Closed(e, db.active) ELSE bumpVersion(e)
  BY DEF Settle
<1>3. told' = db'.version /\ quote' = Aged(quote, db')
      /\ processed' = processed /\ clock' = clock /\ runs' = runs /\ mailed' = mailed
  BY DEF Settle
<1>4. /\ e \in Rows /\ e.version = db.version /\ e.commissioner = db.commissioner
      /\ e.active = db.active /\ e.member = db.member /\ e.season = db.season
      /\ e.account = db.account
  BY <1>1, Toggled
<1>5. Good(db') /\ Follows(db, db') /\ db'.version = db.version + 1
  <2>1. CASE close
    <3>1. db' = Closed(e, db.active) BY <1>2, <2>1
    <3> HIDE DEF e
    <3>2. Good(db') /\ Follows(db, db') BY <1>1, <1>4, <3>1, CloseFollows
    <3>3. db'.version = db.version + 1 BY <1>1, <1>4, <3>1, ClosedIs
    <3> QED BY <3>2, <3>3
  <2>2. CASE ~close
    <3>1. db' = bumpVersion(e) BY <1>2, <2>2
    <3>2. Good(db') /\ Follows(db, db') BY <1>1, <3>1, ToggleFollows
    <3> HIDE DEF e
    <3>3. db'.version = db.version + 1 BY <1>4, <3>1, BumpIs
    <3> QED BY <3>2, <3>3
  <2> QED BY <2>1, <2>2
<1>6. quote' \in Quote \cup {NoQuote} /\ QuoteFits(quote', db') BY <1>3, <1>5, AgedFits
<1>7. Types'
  <2>1. db'.version \in 1..MaxVersion BY <1>1, <1>5, PoolAssumption
  <2> QED BY <1>3, <1>6, <2>1, PoolAssumption DEF Inv, Types
<1>8. Recorded(processed', runs', clock', db') BY <1>3, <1>5 DEF Inv, Recorded, Follows
<1>9. Inv' BY <1>5, <1>6, <1>7, <1>8 DEF Inv
<1>10. \A i \in Id : runs[i].count \in Nat /\ mailed[i] \in Nat BY DEF Inv, Types
<1>11. OnceAct /\ ToldAct /\ NoticesAct BY <1>3, <1>10 DEF OnceAct, ToldAct, NoticesAct
<1>12. ArchivesAct BY <1>5 DEF ArchivesAct, Follows
<1> QED BY <1>9, <1>11, <1>12 DEF StepIsSound

LEMMA QuoteStep ==
  ASSUME Inv, QuoteShareOrder
  PROVE  StepIsSound
<1> DEFINE q == [season |-> db.active, version |-> db.season[db.active].version, current |-> TRUE]
<1>1. db.active \in Season /\ db.season \in [Season -> SeasonRow]
  BY DEF QuoteShareOrder, Inv, Good, Rows
<1>2. db.season[db.active].version \in Nat /\ db.season[db.active].state = "active"
  BY <1>1 DEF SeasonRow, Inv, Good, Seasons
<1>3. q \in Quote /\ QuoteFits(q, db) BY <1>1, <1>2 DEF Quote, QuoteFits
<1>4. /\ quote' = q /\ db' = db /\ processed' = processed /\ told' = told /\ clock' = clock
      /\ runs' = runs /\ mailed' = mailed
  BY DEF QuoteShareOrder
<1>5. clock' \in 0..MaxTime /\ clock' >= clock BY <1>4, PoolAssumption DEF Inv, Types
<1> HIDE DEF q
<1> QED BY <1>3, <1>4, <1>5, StillStep

-----------------------------------------------------------------------------
(* The invariant *)

LEMMA InitInv ==
  ASSUME Init
  PROVE  Inv
<1> DEFINE member  == [u \in User |-> IF u = Owner
                         THEN [role |-> "commissioner", status |-> "active"] ELSE Absent]
           season  == [s \in Season |-> IF s \in Past THEN [state |-> "closed", version |-> 1]
                                        ELSE [state |-> "none", version |-> 0]]
           account == Past \X {Owner}
<1>1. /\ db = [version |-> 1, commissioner |-> Owner, active |-> NoSeason,
               name |-> FALSE, signups |-> TRUE, books |-> FALSE,
               member |-> member, season |-> season, account |-> account, audit |-> {}]
      /\ processed = [i \in Id |-> NoRow] /\ told = 1 /\ quote = NoQuote /\ clock = 0
      /\ runs = [i \in Id |-> [count |-> 0, at |-> 0]] /\ mailed = [i \in Id |-> 0]
  BY DEF Init
<1>2. /\ member \in [User -> MemberRow]
      /\ \A u \in User : IF u = Owner
           THEN member[u].role = "commissioner" /\ member[u].status = "active"
           ELSE member[u].role = "none" /\ member[u].status = "none"
  BY DEF MemberRow, Absent
<1>3. /\ season \in [Season -> SeasonRow]
      /\ \A s \in Season : /\ season[s].state \in {"closed", "none"}
                           /\ season[s].version \in {0, 1}
  BY DEF SeasonRow
<1>4. account \subseteq Season \X User
      /\ \A s \in Season, u \in User : <<s, u>> \in account => u = Owner
  BY PoolAssumption
<1> HIDE DEF member, season, account
<1>5. db \in Rows BY <1>1, <1>2, <1>3, <1>4, PoolAssumption DEF Rows
<1>6. /\ db.version = 1 /\ db.commissioner = Owner /\ db.active = NoSeason
      /\ db.member = member /\ db.season = season /\ db.account = account BY <1>1
<1>7. Open(db) = {} /\ Owner \in Members(db)
  BY <1>2, <1>3, <1>6, PoolAssumption DEF Open, Members
<1>8. Membership(db) BY <1>2, <1>6, PoolAssumption DEF Membership
<1>9. Seasons(db)
  <2>1. \A s \in Season : season[s].version <= 1 /\ s # NoSeason BY <1>3, PoolAssumption
  <2> QED BY <1>3, <1>6, <1>7, <2>1 DEF Seasons
<1>10. Accounts(db) BY <1>4, <1>6, <1>7 DEF Accounts
<1>11. Good(db) BY <1>5, <1>6, <1>8, <1>9, <1>10 DEF Good
<1>12. Types BY <1>1, <1>6, PoolAssumption DEF Types
<1>13. Recorded(processed, runs, clock, db) BY <1>1 DEF Recorded
<1>14. QuoteFits(quote, db) BY <1>1 DEF QuoteFits
<1> QED BY <1>11, <1>12, <1>13, <1>14 DEF Inv

LEMMA NextIsSound ==
  ASSUME Inv, Next
  PROVE  StepIsSound
<1>1. ASSUME NEW id \in Id \cup {Once}, Execute(id) PROVE StepIsSound
  BY <1>1, OnPoolStep, OnMemberStep, OnSeasonStep, OnTextStep DEF Execute
<1>2. CASE Tick
  <2>1. /\ db' = db /\ processed' = processed /\ told' = told /\ quote' = quote
        /\ runs' = runs /\ mailed' = mailed /\ clock' = clock + 1 /\ clock < MaxTime
    BY <1>2 DEF Tick
  <2>2. clock' \in 0..MaxTime /\ clock' >= clock BY <2>1, PoolAssumption DEF Inv, Types
  <2>3. quote' \in Quote \cup {NoQuote} /\ QuoteFits(quote', db) BY <2>1 DEF Inv, Types
  <2> QED BY <2>1, <2>2, <2>3, StillStep
<1> QED BY <1>1, <1>2, ReplayStep, SettleStep, QuoteStep DEF Next

LEMMA StutterIsSound ==
  ASSUME Inv, UNCHANGED vars
  PROVE  Inv'
BY DEF vars, Inv, Types

THEOREM PoolInvariant == Spec => []Inv
<1>1. Init => Inv BY InitInv
<1>2. Inv /\ [Next]_vars => Inv' BY NextIsSound, StutterIsSound DEF StepIsSound
<1> QED BY <1>1, <1>2, PTL DEF Spec

-----------------------------------------------------------------------------
(* The results *)

\* The rows, the clock and the newest outbox version stay what schema.ts declares.
THEOREM TypeCorrect == Spec => []TypeOK
<1>1. Inv => TypeOK
  <2> SUFFICES ASSUME Inv PROVE TypeOK OBVIOUS
  <2>1. db \in Rows /\ db.version \in 1..MaxVersion /\ told \in 1..MaxVersion
    BY PoolAssumption DEF Inv, Good, Types, Rows
  <2>2. /\ db.commissioner \in User /\ db.active \in Season \cup {NoSeason}
        /\ db.member \in [User -> MemberRow] /\ db.season \in [Season -> SeasonRow]
        /\ db.account \subseteq Season \X User /\ db.audit \subseteq Id
    BY <2>1 DEF Rows
  <2>3. ASSUME NEW s \in Season
        PROVE  db.season[s] \in [state : {"none", "draft", "active", "closed"},
                                 version : 0..MaxVersion]
    <3>1. db.season[s] \in SeasonRow /\ db.season[s].version <= db.version
      BY <2>2 DEF Inv, Good, Seasons
    <3> QED BY <2>1, <3>1, PoolAssumption DEF SeasonRow
  <2>4. db.season \in [Season -> [state : {"none", "draft", "active", "closed"},
                                  version : 0..MaxVersion]]
    BY <2>2, <2>3
  <2>5. /\ \A i \in Id : processed[i] # NoRow => processed[i] \in ProcessedCommand
        /\ clock \in 0..MaxTime
    BY DEF Inv, Types
  <2> QED BY <2>1, <2>2, <2>4, <2>5 DEF TypeOK, MemberRow
<1> QED BY <1>1, PoolInvariant, PTL

LEMMA OneOpenSeason ==
  ASSUME Inv
  PROVE  Cardinality(Open(db)) <= 1
<1>1. \A s, t \in Open(db) : s = t BY DEF Inv, Good, Seasons
<1>2. CASE Open(db) = {}
  <2>1. Cardinality({}) = 0 BY FS_EmptySet
  <2> QED BY <1>2, <2>1
<1>3. CASE Open(db) # {}
  <2>1. PICK s : s \in Open(db) BY <1>3
  <2>2. Open(db) = {s} BY <1>1, <2>1
  <2>3. Cardinality({s}) = 1 BY FS_Singleton
  <2> QED BY <2>2, <2>3
<1> QED BY <1>2, <1>3

\* Whatever transfers, joins, seasons and settlements came before: one active
\* commissioner, at most one open season with an account in it for every member, a gate and
\* a view that say what the rows say, and a quote of the present version that is of the
\* present books.
THEOREM PoolAlwaysCoherent == Spec => []PoolIsCoherent
<1>1. Inv => PoolIsCoherent
  <2> SUFFICES ASSUME Inv PROVE PoolIsCoherent OBVIOUS
  <2>1. /\ Membership(db) /\ Seasons(db) /\ Accounts(db) /\ db \in Rows
        /\ db.commissioner \in User /\ db.active \in Season \cup {NoSeason}
    BY DEF Inv, Good, Rows
  <2>2. OneCommissioner BY <2>1 DEF OneCommissioner, Membership, IsActive
  <2>3. OneSeason BY <2>1, OneOpenSeason, PoolAssumption DEF OneSeason, Seasons
  <2>4. AccountsCoverMembers BY <2>1 DEF AccountsCoverMembers, Accounts
  <2>5. GateIsHonest
    <3>1. ASSUME NEW u \in User
          PROVE  /\ ReadPoolGate(u) = "member" => u \in Members(db)
                 /\ ReadPoolGate(u) \in {"joinable", "closed"} => u \notin Members(db)
      <4>1. CASE db.member[u].role = "none"
        <5>1. u \notin Members(db) BY <4>1 DEF Members
        <5>2. ReadPoolGate(u) # "member" BY <4>1 DEF ReadPoolGate
        <5> QED BY <5>1, <5>2
      <4>2. CASE db.member[u].role # "none"
        <5>1. u \in Members(db) BY <4>2 DEF Members
        <5>2. ReadPoolGate(u) \notin {"joinable", "closed"} BY <4>2 DEF ReadPoolGate
        <5> QED BY <5>1, <5>2
      <4> QED BY <4>1, <4>2
    <3>2. \A s \in Season, u \in User : <<s, u>> \in db.account => u \in Members(db)
      BY <2>1 DEF Accounts
    <3>3. \A i \in Id : processed[i] # NoRow => processed[i].command.actor \in Members(db)
      BY DEF Inv, Recorded
    <3> QED BY <2>4, <3>1, <3>2, <3>3 DEF GateIsHonest, AccountsCoverMembers
  <2>6. ViewIsHonest
    <3>1. ASSUME NEW u \in User, NEW seen \in read(u)
          PROVE  /\ seen.open \subseteq seen.balances /\ Cardinality(seen.open) <= 1
                 /\ seen.emails # {} => Commands(u) /\ u = seen.commissioner
      <4>1. IsActive(u) BY <3>1 DEF read
      <4>2. u \in Members(db) BY <4>1, ActiveIsMember
      <4>3. /\ seen.open = Open(db) /\ seen.commissioner = db.commissioner
            /\ seen.balances = {s \in Open(db) \cup LatestClosed(db) : <<s, u>> \in db.account}
            /\ seen.emails = IF db.member[u].role = "commissioner" THEN Members(db) ELSE {}
        BY <3>1, <4>1 DEF read, readPool
      <4>4. seen.open \subseteq seen.balances
        BY <2>4, <4>2, <4>3 DEF AccountsCoverMembers
      <4>5. seen.emails # {} => db.member[u].role = "commissioner" BY <4>3
      <4>6. db.member[u].role = "commissioner" => Commands(u) /\ u = db.commissioner
        BY <2>1, <4>1 DEF Membership, Commands
      <4> QED BY <4>3, <4>4, <4>5, <4>6, OneOpenSeason
    <3> QED BY <3>1 DEF ViewIsHonest
  <2>7. QuotesAge BY DEF QuotesAge, QuoteHolds, Inv, QuoteFits
  <2> QED BY <2>2, <2>3, <2>4, <2>5, <2>6, <2>7 DEF PoolIsCoherent
<1> QED BY <1>1, PoolInvariant, PTL

\* However commands are repeated, before and after their rows expire: an id is executed
\* once while its row is due to be kept, the directory is told of what it shows, a notice
\* is mailed once but for transfers, and what is closed stays as it was.
THEOREM EffectsHold == Spec => CommandEffects
<1>1. Inv /\ [Next]_vars =>
        [\A i \in Id : runs'[i].count > runs[i].count /\ runs[i].count > 0
           => clock > runs[i].at + Retention]_vars
  BY NextIsSound DEF StepIsSound, OnceAct
<1>2. Inv /\ [Next]_vars => [Projected(db') # Projected(db) => told' = db'.version]_vars
  BY NextIsSound DEF StepIsSound, ToldAct
<1>3. Inv /\ [Next]_vars =>
        [\A i \in Id : mailed'[i] > mailed[i] /\ mailed'[i] > 1
           => processed[i].command.type = "TransferCommissioner"]_vars
  BY NextIsSound DEF StepIsSound, NoticesAct
<1>4. Inv /\ [Next]_vars =>
        [\A s \in Season :
           /\ db.season[s].state = "closed" => history(db', s) = history(db, s)
           /\ db.season[s].state # "closed" /\ db'.season[s].state = "closed" =>
                LatestClosed(db') = {s}]_vars
  BY NextIsSound DEF StepIsSound, ArchivesAct, ArchivesKept
<1>5. Spec => ExecutedOnce BY <1>1, PoolInvariant, PTL DEF Spec, ExecutedOnce
<1>6. Spec => DirectoryIsTold BY <1>2, PoolInvariant, PTL DEF Spec, DirectoryIsTold
<1>7. Spec => NoticesFollowExecutions
  BY <1>3, PoolInvariant, PTL DEF Spec, NoticesFollowExecutions
<1>8. Spec => ArchivesStand BY <1>4, PoolInvariant, PTL DEF Spec, ArchivesStand
<1> QED BY <1>5, <1>6, <1>7, <1>8 DEF CommandEffects
=============================================================================
