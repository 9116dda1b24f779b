----------------------------- MODULE PoolCommands -----------------------------
(***************************************************************************)
(* The command protocol of a pool's Durable Object, and the Worker routes  *)
(* that send the commands: idempotent execution, replay and expiry,        *)
(* membership and authority, the life of seasons, pool settings, and the   *)
(* notices the Worker mails for an answer.                                 *)
(*                                                                         *)
(* A command is one storage transaction.  One that is refused rolls back   *)
(* and leaves nothing, so it is a step the action cannot take.  What an    *)
(* order, a wager or a settlement does to the books is SeasonLedger's; here *)
(* it is one toggle of db.books.  Passwords, names and texts are data: a   *)
(* join with a wrong password is refused.                                  *)
(***************************************************************************)
EXTENDS Naturals, FiniteSets

CONSTANTS
  User, Owner,  \* accounts, and the one that created the pool
  Season,
  Past,         \* seasons the creator has played alone, one at most
  Id,           \* command ids a client may send more than once
  Once,         \* any id that is sent only once; its row is never read again
  Nobody, NoSeason, NoRow, NoQuote,
  Retention,    \* how long a processed command is kept (30 days)
  MaxTime, MaxVersion

ASSUME PoolAssumption ==
  /\ Owner \in User /\ Nobody \notin User
  /\ NoSeason \notin Season /\ Once \notin Id
  /\ Past \subseteq Season /\ Cardinality(Past) <= 1
  /\ Retention \in Nat /\ MaxTime \in Nat /\ MaxVersion \in Nat \ {0}

VARIABLES
  db,         \* the object's rows
  processed,  \* processed_command
  told,       \* the version carried by the newest outbox row
  quote,      \* the share-order quote the commissioner's browser holds
  clock,
  runs,       \* per id: how often it was executed, and when last (history)
  mailed      \* per id: notices mailed since it was last executed (history)

vars == <<db, processed, told, quote, clock, runs, mailed>>

-----------------------------------------------------------------------------
(* Commands and rows *)

Setting == {"name", "signups", "notice"}

\* on is the member, the season or the setting a command is about.
OnPool   == [type : {"JoinPool", "UpdateMemberNickname", "PlaceWager", "RegradeWager",
                     "ReverseShareOrder", "ReplyToMessageBoardPost"},
             actor : User, on : {Nobody}]
OnMember == [type : {"SuspendMember", "RestoreMember", "TransferCommissioner",
                     "ExecuteShareOrder"}, actor : User, on : User]
OnSeason == [type : {"CreateSeason", "OpenSeason", "CloseSeason", "CreateSeasonAnnotation"},
             actor : User, on : Season]
OnText   == [type : {"UpdatePoolSettings"}, actor : User, on : Setting]
            \cup [type : {"CreateMessageBoardPost"}, actor : User, on : {"post", "announcement"}]

Command == OnPool \cup OnMember \cup OnSeason \cup OnText

\* A row of processed_command: the request, whether its answer tells of a change, and
\* when it expires.
ProcessedCommand == [command : Command, changed : BOOLEAN, expires : Nat]

ASSUME RowAssumption == NoRow \notin ProcessedCommand

\* Commands that leave a row with a UNIQUE command_id, which is never deleted.
Audited == {"TransferCommissioner", "ExecuteShareOrder", "RegradeWager", "ReverseShareOrder"}
Board   == {"CreateMessageBoardPost", "ReplyToMessageBoardPost"}

isInformationalSettings(c) == c.type = "UpdatePoolSettings" /\ c.on = "notice"

\* Fault: a rename is taken for a notice.
TellsNoSettings(c) == c.type \notin Board \cup {"UpdatePoolSettings"}

shouldEnqueueOutbox(c) == c.type \notin Board /\ ~isInformationalSettings(c)

Absent == [role |-> "none", status |-> "none"]

Members(d)  == {u \in User : d.member[u].role # "none"}
Open(d)     == {s \in Season : d.season[s].state \in {"draft", "active"}}
IsActive(u) == db.member[u].status = "active"
Commands(u) == /\ IsActive(u)
               /\ db.commissioner = u /\ db.member[u].role = "commissioner"

\* What the directory projects: the pool's name, its members and its seasons.
Projected(d) == <<d.name, d.member, [s \in Season |-> d.season[s].state]>>

\* What the price and the effect of a share order on season s depend on.
Basis(d, s) == <<d.season[s].state, d.books, {u \in User : <<s, u>> \in d.account}>>

\* Fault: the active season keeps its command version.
BumpsPoolOnly(d) == [d EXCEPT !.version = @ + 1]

bumpVersion(d) ==
  [d EXCEPT !.version = @ + 1,
            !.season = [s \in Season |-> IF s = d.active
                          THEN [d.season[s] EXCEPT !.version = d.version + 1]
                         ELSE d.season[s]]]

\* InitializePool has run, and perhaps a season: the creator is the pool's commissioner.
Init ==
  /\ db = [version |-> 1, commissioner |-> Owner, active |-> NoSeason,
           name |-> FALSE, signups |-> TRUE, books |-> FALSE,
           member  |-> [u \in User |-> IF u = Owner
                          THEN [role |-> "commissioner", status |-> "active"] ELSE Absent],
           season  |-> [s \in Season |-> IF s \in Past THEN [state |-> "closed", version |-> 1]
                                         ELSE [state |-> "none", version |-> 0]],
           account |-> Past \X {Owner}, audit |-> {}]
  /\ processed = [i \in Id |-> NoRow]
  /\ told = 1
  /\ quote = NoQuote
  /\ clock = 0
  /\ runs = [i \in Id |-> [count |-> 0, at |-> 0]]
  /\ mailed = [i \in Id |-> 0]

-----------------------------------------------------------------------------
(* Executing a command *)

\* Fault: rows are deleted as soon as they are written.
ExpiresAtOnce(rows) ==
  [i \in Id |-> IF rows[i] # NoRow /\ rows[i].expires < clock + Retention + 1
                THEN NoRow ELSE rows[i]]

\* The rows whose expiry has passed are deleted after every executed command.
Unexpired(rows) ==
  [i \in Id |-> IF rows[i] # NoRow /\ rows[i].expires < clock THEN NoRow ELSE rows[i]]

\* The routes that mail, each when its command took effect: a join, a fulfilled
\* order, a transfer, an announcement, a reply to the author of another's post.
TellsOfJoin(c)     == c.type = "JoinPool"
TellsOfOrder(c)    == c.type = "ExecuteShareOrder"
TellsOfTransfer(c) == c.type = "TransferCommissioner"
TellsOfPost(c)     == c.type = "CreateMessageBoardPost" /\ c.on = "announcement"
TellsOfReply(c)    == c.type = "ReplyToMessageBoardPost"

Notifies(c, changed) ==
  /\ changed
  /\ TellsOfJoin(c) \/ TellsOfOrder(c) \/ TellsOfTransfer(c) \/ TellsOfPost(c) \/ TellsOfReply(c)

\* A quote the browser holds is of the season as it stands until the basis moves.
Aged(q, d) ==
  IF q = NoQuote THEN q
  ELSE [q EXCEPT !.current = @ /\ Basis(d, q.season) = Basis(db, q.season)]

\* Fault: the id is not looked up.
AlwaysNew(id) == TRUE

IsNew(id) == id \in Id => processed[id] = NoRow

\* One transaction: the handler's rows d, the outbox row and the processed
\* command.  The answer reaches the Worker or is lost on the way.
Commit(c, id, d, changed) ==
  /\ IsNew(id) /\ d.version <= MaxVersion
  /\ c.type \in Audited => id \notin db.audit
  /\ db' = IF c.type \in Audited /\ id \in Id /\ changed
           THEN [d EXCEPT !.audit = @ \cup {id}] ELSE d
  /\ told' = IF shouldEnqueueOutbox(c) THEN d.version ELSE told
  /\ processed' = Unexpired(
       IF id = Once THEN processed
       ELSE [processed EXCEPT ![id] = [command |-> c, changed |-> changed,
                                       expires |-> clock + Retention]])
  /\ runs' = IF id = Once THEN runs
             ELSE [runs EXCEPT ![id] = [count |-> @.count + 1, at |-> clock]]
  /\ \E reached \in BOOLEAN :
       mailed' = IF id = Once THEN mailed
                 ELSE [mailed EXCEPT ![id] = IF reached /\ Notifies(c, changed) THEN 1 ELSE 0]
  /\ quote' = Aged(quote, d)
  /\ UNCHANGED clock

\* Fault: the stored answer of an order is returned as it stands.
MarksJoinsOnly(c) == c.type \in Board \cup {"JoinPool"}

MarksReplay(c) == c.type \in Board \cup {"JoinPool", "ExecuteShareOrder"}

\* A recorded id with the same request is answered from its row, before any
\* check of membership; with another request it is refused.  Only some answers
\* say that they are replayed, and a Worker that cannot tell mails again.
Replay(id) ==
  /\ processed[id] # NoRow
  /\ Notifies(processed[id].command, processed[id].changed)
  /\ ~MarksReplay(processed[id].command)
  /\ mailed[id] < 2
  /\ mailed' = [mailed EXCEPT ![id] = @ + 1]
  /\ UNCHANGED <<db, processed, told, quote, clock, runs>>

-----------------------------------------------------------------------------
(* Membership *)

\* Fault: only the active season gets an account.
AccountsOfActive(d, u) == d.account \cup {d.active} \X {u}

\* Fault: a joiner gets an account in closed seasons too.
AccountsOfEverySeason(d, u) ==
  d.account \cup {s \in Season : d.season[s].state # "none"} \X {u}

AccountsOfJoiner(d, u) == d.account \cup Open(d) \X {u}

JoinPool(c, id) ==
  /\ c.type = "JoinPool" /\ db.signups
  /\ db.member[c.actor].status # "suspended"
  /\ IF db.member[c.actor].role = "none"
     THEN Commit(c, id, bumpVersion([db EXCEPT
            !.member[c.actor] = [role |-> "member", status |-> "active"],
            !.account = AccountsOfJoiner(db, c.actor)]), TRUE)
     ELSE Commit(c, id, db, FALSE)

UpdateMemberNickname(c, id) ==
  /\ c.type = "UpdateMemberNickname" /\ IsActive(c.actor)
  /\ Commit(c, id, bumpVersion(db), TRUE)

\* Fault: the target's status is not read.
AnyMember(u) == db.member[u].role # "none"

MayCommand(u) == db.member[u].role # "none" /\ db.member[u].status = "active"

TransferCommissioner(c, id) ==
  /\ c.type = "TransferCommissioner" /\ Commands(c.actor) /\ MayCommand(c.on)
  /\ IF c.on = db.commissioner
     THEN Commit(c, id, db, FALSE)
     ELSE Commit(c, id, bumpVersion([db EXCEPT
            !.commissioner = c.on,
            !.member = [u \in User |->
              IF u \in Members(db)
              THEN [db.member[u] EXCEPT !.role = IF u = c.on THEN "commissioner" ELSE "member"]
              ELSE db.member[u]]]), TRUE)

SuspendMember(c, id) ==
  /\ c.type = "SuspendMember" /\ Commands(c.actor)
  /\ c.on \in Members(db) /\ c.on # db.commissioner
  /\ Commit(c, id, bumpVersion([db EXCEPT !.member[c.on].status = "suspended"]), TRUE)

RestoreMember(c, id) ==
  /\ c.type = "RestoreMember" /\ Commands(c.actor) /\ c.on \in Members(db)
  /\ Commit(c, id, bumpVersion([db EXCEPT !.member[c.on].status = "active"]), TRUE)

\* A notice alone leaves the command version as it is.
UpdatePoolSettings(c, id) ==
  /\ c.type = "UpdatePoolSettings" /\ Commands(c.actor)
  /\ IF isInformationalSettings(c) THEN Commit(c, id, db, TRUE)
     ELSE Commit(c, id, bumpVersion(
            IF c.on = "name" THEN [db EXCEPT !.name = ~@] ELSE [db EXCEPT !.signups = ~@]), TRUE)

\* A post raises the command version and tells nobody.
CreateMessageBoardPost(c, id) ==
  /\ c.type = "CreateMessageBoardPost" /\ IsActive(c.actor)
  /\ c.on = "announcement" => Commands(c.actor)
  /\ Commit(c, id, bumpVersion(db), c.on = "announcement")

\* The author of the post is told unless that is who replies.
ReplyToMessageBoardPost(c, id) ==
  /\ c.type = "ReplyToMessageBoardPost" /\ IsActive(c.actor)
  /\ \E another \in BOOLEAN : Commit(c, id, bumpVersion(db), another)

-----------------------------------------------------------------------------
(* Seasons *)

\* Fault: a draft does not count as a season.
NoneActive(d) == d.active = NoSeason

NoneOpen(d) == Open(d) = {}

\* Fault: suspended members get no account.
AccountsOfActiveMembers(d) == {u \in Members(d) : d.member[u].status = "active"}

AccountHolders(d) == Members(d)

CreateSeason(c, id) ==
  /\ c.type = "CreateSeason" /\ Commands(c.actor)
  /\ db.season[c.on].state = "none" /\ NoneOpen(db)
  /\ Commit(c, id, LET d == bumpVersion(db) IN
       [d EXCEPT !.season[c.on] = [state |-> "draft", version |-> d.version],
                 !.account = @ \cup {c.on} \X AccountHolders(db)], TRUE)

OpenSeason(c, id) ==
  /\ c.type = "OpenSeason" /\ Commands(c.actor) /\ db.season[c.on].state = "draft"
  /\ Commit(c, id, bumpVersion([db EXCEPT !.season[c.on].state = "active",
                                          !.active = c.on]), TRUE)

\* Closure, by the commissioner or by a settlement: the pool points at no season
\* any more and the closed season carries the version of its closure.
Closed(d, s) ==
  LET e == bumpVersion([d EXCEPT !.season[s].state = "closed", !.active = NoSeason])
  IN  [e EXCEPT !.season[s].version = e.version]

CloseSeason(c, id) ==
  /\ c.type = "CloseSeason" /\ Commands(c.actor) /\ db.season[c.on].state = "active"
  /\ Commit(c, id, Closed(db, c.on), TRUE)

CreateSeasonAnnotation(c, id) ==
  /\ c.type = "CreateSeasonAnnotation" /\ Commands(c.actor)
  /\ db.season[c.on].state = "closed"
  /\ Commit(c, id, bumpVersion(db), TRUE)

\* A settlement run that settles, and may close, the active season.
Settle ==
  /\ db.active # NoSeason /\ db.version < MaxVersion
  /\ \E close \in BOOLEAN :
       db' = IF close THEN Closed([db EXCEPT !.books = ~@], db.active)
             ELSE bumpVersion([db EXCEPT !.books = ~@])
  /\ told' = db'.version
  /\ quote' = Aged(quote, db')
  /\ UNCHANGED <<processed, clock, runs, mailed>>

-----------------------------------------------------------------------------
(* The books *)

PlaceWager(c, id) ==
  /\ c.type = "PlaceWager" /\ IsActive(c.actor) /\ db.active # NoSeason
  /\ <<db.active, c.actor>> \in db.account
  /\ Commit(c, id, bumpVersion([db EXCEPT !.books = ~@]), TRUE)

\* The commissioner's quote: the version and the price of the active season.
QuoteShareOrder ==
  /\ Commands(db.commissioner) /\ db.active # NoSeason
  /\ quote' = [season |-> db.active, version |-> db.season[db.active].version, current |-> TRUE]
  /\ UNCHANGED <<db, processed, told, clock, runs, mailed>>

\* Fault: the quoted version is not compared.
QuoteUnchecked(q) == db.season[q.season].state = "active"

\* applyOrder refuses a quote of another version than the season's.
QuoteHolds(q) ==
  /\ db.season[q.season].state = "active"
  /\ q.version = db.season[q.season].version

ExecuteShareOrder(c, id) ==
  /\ c.type = "ExecuteShareOrder" /\ Commands(c.actor) /\ MayCommand(c.on)
  /\ quote # NoQuote /\ QuoteHolds(quote) /\ <<quote.season, c.on>> \in db.account
  /\ Commit(c, id, bumpVersion([db EXCEPT !.books = ~@]), TRUE)

\* The same for VoidWager.  A correction can close the season.
RegradeWager(c, id) ==
  /\ c.type = "RegradeWager" /\ Commands(c.actor) /\ db.active # NoSeason
  /\ \E close \in BOOLEAN :
       Commit(c, id, IF close THEN Closed([db EXCEPT !.books = ~@], db.active)
                     ELSE bumpVersion([db EXCEPT !.books = ~@]), TRUE)

ReverseShareOrder(c, id) ==
  /\ c.type = "ReverseShareOrder" /\ Commands(c.actor) /\ db.active # NoSeason
  /\ Commit(c, id, bumpVersion([db EXCEPT !.books = ~@]), TRUE)

-----------------------------------------------------------------------------
(* Reads *)

\* What a signed-in account is told at the pool's door.
ReadPoolGate(u) ==
  CASE db.member[u].role = "none" /\ db.signups     -> "joinable"
    [] db.member[u].role = "none" /\ ~db.signups    -> "closed"
    [] db.member[u].role # "none" /\ IsActive(u)    -> "member"
    [] db.member[u].role # "none" /\ ~IsActive(u)   -> "suspended"

\* Fault: the first closed season is taken.
EarliestClosed(d) ==
  {s \in Season :
     /\ d.season[s].state = "closed"
     /\ \A t \in Season : d.season[t].state = "closed" => d.season[s].version <= d.season[t].version}

\* By closed_at, of which versions have the order as long as the object's clock moves on
\* between two closings and is not set back.
LatestClosed(d) ==
  {s \in Season :
     /\ d.season[s].state = "closed"
     /\ \A t \in Season : d.season[t].state = "closed" => d.season[t].version <= d.season[s].version}

\* A member's view of the pool, with their balance in each season shown; the object
\* knows no addresses.
readPool(u) ==
  LET Shown == Open(db) \cup LatestClosed(db)
  IN  [role |-> db.member[u].role, commissioner |-> db.commissioner, open |-> Open(db),
       balances |-> {s \in Shown : <<s, u>> \in db.account}, emails |-> {}]

\* The Worker adds the addresses of all once the view says who reads it; a read that is
\* refused shows nothing.
read(u) ==
  IF ~IsActive(u) THEN {}
  ELSE LET view == readPool(u)
       IN  {[view EXCEPT !.emails = IF view.role = "commissioner" THEN Members(db) ELSE {}]}

\* The archive of a season: who held an account in it, and the version it was closed at.
history(d, s) == [season |-> d.season[s], holders |-> {u \in User : <<s, u>> \in d.account}]

-----------------------------------------------------------------------------
Tick ==
  /\ clock < MaxTime
  /\ clock' = clock + 1
  /\ UNCHANGED <<db, processed, told, quote, runs, mailed>>

Execute(id) ==
  \/ \E c \in OnPool : \/ JoinPool(c, id) \/ UpdateMemberNickname(c, id)
                      \/ PlaceWager(c, id) \/ RegradeWager(c, id) \/ ReverseShareOrder(c, id)
                      \/ ReplyToMessageBoardPost(c, id)
  \/ \E c \in OnMember : \/ TransferCommissioner(c, id) \/ SuspendMember(c, id)
                        \/ RestoreMember(c, id) \/ ExecuteShareOrder(c, id)
  \/ \E c \in OnSeason : \/ CreateSeason(c, id) \/ OpenSeason(c, id)
                        \/ CloseSeason(c, id) \/ CreateSeasonAnnotation(c, id)
  \/ \E c \in OnText : UpdatePoolSettings(c, id) \/ CreateMessageBoardPost(c, id)

Next ==
  \/ \E id \in Id \cup {Once} : IsNew(id) /\ Execute(id)
  \/ \E id \in Id : Replay(id)
  \/ Settle
  \/ QuoteShareOrder
  \/ Tick

Spec == Init /\ [][Next]_vars

-----------------------------------------------------------------------------
(* Properties *)

TypeOK ==
  /\ db.version \in 1..MaxVersion /\ told \in 1..MaxVersion
  /\ db.commissioner \in User /\ db.active \in Season \cup {NoSeason}
  /\ db.member \in [User -> [role : {"none", "member", "commissioner"},
                             status : {"none", "active", "suspended"}]]
  /\ db.season \in [Season -> [state : {"none", "draft", "active", "closed"},
                               version : 0..MaxVersion]]
  /\ db.account \subseteq Season \X User /\ db.audit \subseteq Id
  /\ \A i \in Id : processed[i] # NoRow => processed[i] \in ProcessedCommand
  /\ clock \in 0..MaxTime

\* Whatever transfers, suspensions and restorations came before, the pool has one
\* commissioner, and that member is active.
OneCommissioner ==
  {u \in User : db.member[u].role = "commissioner" /\ IsActive(u)} = {db.commissioner}
  /\ \A u \in User : db.member[u].role = "commissioner" => u = db.commissioner

\* At most one season is open; the pool points at it exactly while it is active.
OneSeason ==
  /\ Cardinality(Open(db)) <= 1
  /\ {s \in Season : db.season[s].state = "active"} = {db.active} \ {NoSeason}

\* Every member, suspended or not, and whether they joined before the season was
\* drafted or after, has an account in the open season.
AccountsCoverMembers == Open(db) \X Members(db) \subseteq db.account

\* Who is shown in holds accounts in what is open, who may join or is kept out has none
\* in any season, and only the former can have commanded the pool.
GateIsHonest ==
  \A u \in User :
    /\ ReadPoolGate(u) = "member" => Open(db) \X {u} \subseteq db.account
    /\ ReadPoolGate(u) \in {"joinable", "closed"} =>
         /\ \A s \in Season : <<s, u>> \notin db.account
         /\ \A i \in Id : processed[i] # NoRow => processed[i].command.actor # u

\* A quote of the season's present version was taken from the books as they stand:
\* whatever moves them moves the version too.
QuotesAge ==
  quote # NoQuote /\ QuoteHolds(quote) => quote.current

\* Who is shown a season to order and bet in has an account in it, and who is shown
\* addresses is the member that commands the pool.
ViewIsHonest ==
  \A u \in User : \A view \in read(u) :
    /\ view.open \subseteq view.balances /\ Cardinality(view.open) <= 1
    /\ view.emails # {} => Commands(u) /\ u = view.commissioner

PoolIsCoherent ==
  OneCommissioner /\ OneSeason /\ AccountsCoverMembers /\ GateIsHonest /\ ViewIsHonest /\ QuotesAge

\* A command id is executed at most once while its row is due to be kept.
ExecutedOnce ==
  [][\A i \in Id : runs'[i].count > runs[i].count /\ runs[i].count > 0
       => clock > runs[i].at + Retention]_vars

\* What the directory shows never changes without an outbox row of that version.
DirectoryIsTold ==
  [][Projected(db') # Projected(db) => told' = db'.version]_vars

\* A notice is mailed for an execution, never again for its replays: joins,
\* fulfilled orders and announcements.
NoticesFollowExecutions ==
  [][\A i \in Id : mailed'[i] > mailed[i] /\ mailed'[i] > 1
       => processed[i].command.type = "TransferCommissioner"]_vars

\* Whoever joins, transfers or repeats a command later, the archive of a closed season
\* stays what it was, and the season that closed last is the one the pool points to.
ArchivesStand ==
  [][\A s \in Season :
       /\ db.season[s].state = "closed" => history(db', s) = history(db, s)
       /\ db.season[s].state # "closed" /\ db'.season[s].state = "closed" =>
            LatestClosed(db') = {s}]_vars

\* A command takes effect once, in the pool, in the directory and by mail, and none on
\* what is closed.
CommandEffects == ExecutedOnce /\ DirectoryIsTold /\ NoticesFollowExecutions /\ ArchivesStand

\* pool-do.ts:171 says a notification is for a newly committed action, not for a replay.
NoticeOnce == \A i \in Id : mailed[i] <= 1
=============================================================================
