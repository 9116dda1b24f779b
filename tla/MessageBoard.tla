----------------------------- MODULE MessageBoard -----------------------------
(***************************************************************************)
(* The message board: the entries and the read watermarks a pool's Durable *)
(* Object keeps, and the board page of one member's browser, which submits *)
(* posts as frozen commands and reloads the board.  Its replies are frozen *)
(* the same way; the rest of the pool posts and replies at will.           *)
(*                                                                         *)
(* The network may lose an answer, or deliver a request after the page has *)
(* given up on it.  The object's clock may stand still or step back.       *)
(***************************************************************************)
EXTENDS Naturals, Sequences, FiniteSets

CONSTANTS
  Reader,       \* the member whose page is modelled
  Others,       \* the rest of the pool
  Thread,       \* ids of root posts
  NoKey,
  MaxActivity,  \* bound on activity times
  MaxNow,       \* bound on the object's clock
  MaxDraft,     \* bound on the texts written on the page
  MaxLoads      \* bound on the reads the page starts

ASSUME BoardAssumption ==
  /\ Thread # {} /\ NoKey \notin Nat \X Nat
  /\ {MaxActivity, MaxNow, MaxDraft, MaxLoads} \subseteq Nat

VARIABLES
  board,  \* the object's rows
  page,   \* the component's state
  net,    \* keys of requests on their way to the object
  loads,  \* reads of the board by generation, with what came back
  news,   \* members to whom an entry was added since they last read or wrote (history)
  order   \* pairs of threads, the first last added to before the second (history)

boardVars == <<board, page, net, loads, news, order>>

Viewer == {Reader} \cup Others

-----------------------------------------------------------------------------
(* The object *)

Never  == 0   \* no row
Posts  == {t \in Thread : board.activity[t] # Never}
Newest == CHOOSE a \in {board.activity[t] : t \in Thread} :
            \A t \in Thread : board.activity[t] <= a

Later(a, b) == IF a > b THEN a ELSE b

\* Fault: two entries of one instant share their time.
SameInstant(now) == Later(now, Newest)

\* Strictly later than every entry, whatever the clock says.
nextMessageBoardActivityAt(now) == IF Posts = {} THEN now ELSE Later(now, Newest + 1)

advanceMessageBoardRead(u, at) == [board.read EXCEPT ![u] = Later(@, at)]

\* Fault: a reply leaves the time of its post.
RepliesKeepTheirTime(t, at) ==
  IF t \in Posts THEN board.activity ELSE [board.activity EXCEPT ![t] = at]

\* The time of a root post is that of the newest entry of its thread.
Touched(t, at) == [board.activity EXCEPT ![t] = at]

\* History: nothing was added to another thread after t.
LastAdded(t) == {p \in order : p[1] # t} \cup (Posts \ {t}) \X {t}

\* createMessageBoardPost for a new thread, replyToMessageBoardPost for another.
Entry(u, t, now) ==
  LET at == nextMessageBoardActivityAt(now) IN
  /\ at <= MaxActivity
  /\ board' = [board EXCEPT !.activity = Touched(t, at), !.read = advanceMessageBoardRead(u, at)]
  /\ news'  = Viewer \ {u}
  /\ order' = LastAdded(t)

hasUnreadBoard(u) == Posts # {} /\ Newest > board.read[u]

AnotherWrites(u, t, now) ==
  /\ Entry(u, t, now)
  /\ UNCHANGED <<page, net, loads>>

AnotherReads(u) ==
  /\ board' = [board EXCEPT !.read = advanceMessageBoardRead(u, Newest)]
  /\ news'  = news \ {u}
  /\ UNCHANGED <<page, net, loads, order>>

-----------------------------------------------------------------------------
(* The page: FrozenAdminCommand *)

\* crypto.randomUUID(): a key no command of this draft has had.
FreshKey == <<page.draft, Cardinality({k \in page.keys : k[1] = page.draft}) + 1>>

\* Fault: every attempt makes its own command.
FreshCommand == FreshKey

\* run() sends the command it retains and makes one only when there is none.
Frozen == IF page.frozen = NoKey THEN FreshKey ELSE page.frozen

Submit ==
  /\ page.flight = NoKey /\ Frozen[2] <= 2 /\ page.draft <= MaxDraft
  /\ page' = [page EXCEPT !.frozen = Frozen, !.flight = Frozen, !.keys = @ \cup {Frozen}]
  /\ net' = net \cup {Frozen}
  /\ UNCHANGED <<board, loads, news, order>>

\* A key that has been executed is replayed and adds nothing.
Arrive(k, now) ==
  /\ k \in net /\ net' = net \ {k}
  /\ IF k \in board.posted THEN UNCHANGED <<board, news, order>>
     ELSE \E t \in Thread \ Posts :
            LET at == nextMessageBoardActivityAt(now) IN
            /\ at <= MaxActivity
            /\ board' = [board EXCEPT !.activity = Touched(t, at),
                                      !.read = advanceMessageBoardRead(Reader, at),
                                      !.posted = board.posted \cup {k}]
            /\ news'  = Viewer \ {Reader}
            /\ order' = LastAdded(t)
  /\ UNCHANGED <<page, loads>>

\* load() starts a generation; only the newest may be shown.
Asked   == [at |-> "asked", posts |-> {}]
Done    == [at |-> "done", posts |-> {}]
Loading == Append(loads, Asked)

\* The answer retires the command, clears the text and reloads the board.
Answered ==
  /\ page.flight # NoKey /\ page.flight \in board.posted /\ page.flight \notin net
  /\ Len(loads) < MaxLoads
  /\ page' = [page EXCEPT !.frozen = NoKey, !.flight = NoKey, !.draft = @ + 1,
                          !.acked = @ \cup {page.flight}]
  /\ loads' = Loading
  /\ UNCHANGED <<board, net, news, order>>

\* An error of any kind keeps the command; the request may still arrive.
Failed ==
  /\ page.flight # NoKey
  /\ page' = [page EXCEPT !.flight = NoKey]
  /\ UNCHANGED <<board, net, loads, news, order>>

\* Every edit of the text retires the command.
Edit ==
  /\ page.flight = NoKey /\ page.frozen # NoKey
  /\ page' = [page EXCEPT !.frozen = NoKey, !.draft = @ + 1]
  /\ UNCHANGED <<board, net, loads, news, order>>

Load ==
  /\ Len(loads) < MaxLoads
  /\ loads' = Loading
  /\ UNCHANGED <<board, page, net, news, order>>

\* readMessageBoard: one transaction raises the watermark and reads the threads.
ReadBoard(g) ==
  /\ loads[g].at = "asked"
  /\ loads' = [loads EXCEPT ![g] = [at |-> "read", posts |-> board.posted]]
  /\ board' = [board EXCEPT !.read = advanceMessageBoardRead(Reader, Newest)]
  /\ news'  = news \ {Reader}
  /\ UNCHANGED <<page, net, order>>

\* Fault: whatever arrives is shown.
AnyGeneration(g) == TRUE

current(g) == g = Len(loads)

Show(g) ==
  /\ loads[g].at = "read"
  /\ page' = IF current(g) THEN [page EXCEPT !.shown = loads[g].posts, !.broken = FALSE]
             ELSE page
  /\ loads' = [loads EXCEPT ![g] = Done]
  /\ UNCHANGED <<board, net, news, order>>

LoadFails(g) ==
  /\ loads[g].at # "done"
  /\ page' = IF current(g) THEN [page EXCEPT !.broken = TRUE] ELSE page
  /\ loads' = [loads EXCEPT ![g] = Done]
  /\ UNCHANGED <<board, net, news, order>>

-----------------------------------------------------------------------------
BoardInit ==
  /\ board = [activity |-> [t \in Thread |-> Never], read |-> [u \in Viewer |-> Never],
              posted |-> {}]
  /\ page = [draft |-> 1, frozen |-> NoKey, flight |-> NoKey, keys |-> {}, acked |-> {},
             shown |-> {}, broken |-> FALSE]
  /\ net = {} /\ loads = <<Asked>>
  /\ news = {} /\ order = {}

BoardNext ==
  \/ \E u \in Others, t \in Thread, now \in 1..MaxNow : AnotherWrites(u, t, now)
  \/ \E u \in Others : AnotherReads(u)
  \/ Submit \/ Answered \/ Failed \/ Edit \/ Load
  \/ \E k \in net, now \in 1..MaxNow : Arrive(k, now)
  \/ \E g \in DOMAIN loads : ReadBoard(g) \/ Show(g) \/ LoadFails(g)

BoardSpec == BoardInit /\ [][BoardNext]_boardVars

-----------------------------------------------------------------------------
(* Properties *)

\* A member's board is marked unread exactly when an entry was added since they
\* last read or wrote, though the clock may stand still between the two.
UnreadIsNews == \A u \in Viewer : hasUnreadBoard(u) <=> u \in news

\* The threads sort in the order in which they were last added to.
ThreadsByRecency == \A p \in order : board.activity[p[1]] < board.activity[p[2]]

\* However often its submission is retried, one text is posted once.
PostedOnce == \A j, k \in board.posted : j[1] = k[1] => j = k

\* Once no read is on its way the page shows every post it was told of, unless it
\* shows an error: a late read never hides the reload after a post.
OwnPostsShown ==
  (\A g \in DOMAIN loads : loads[g].at = "done") /\ ~page.broken => page.acked \subseteq page.shown

\* The board and its page tell the truth: what is unread, which thread is newest, each
\* text once, and every post the page was told of.
BoardIsTrue == UnreadIsNews /\ ThreadsByRecency /\ PostedOnce /\ OwnPostsShown
=============================================================================
