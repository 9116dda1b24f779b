------------------------------ MODULE Directory ------------------------------
(***************************************************************************)
(* What the D1 directory promises about one pool: it lags behind the       *)
(* pool's Durable Object, but its rows are always those of one moment of   *)
(* the pool, and they never go back.                                       *)
(***************************************************************************)
EXTENDS Naturals

CONSTANT Table    \* the tables the directory keeps for a pool

VARIABLES
  version,        \* command version of the pool
  shown           \* version of the pool each table shows, 0 before the first

vars == <<version, shown>>

\* All tables as of version v.
Snapshot(v) == [t \in Table |-> v]

Init == version = 0 /\ shown = Snapshot(0)

Command == version' = version + 1 /\ UNCHANGED shown

Publish ==
  \E v \in 1..version :
    /\ \A t \in Table : shown[t] < v
    /\ shown' = Snapshot(v)
    /\ UNCHANGED version

Next == Command \/ Publish
Spec == Init /\ [][Next]_vars
=============================================================================
