----------------------------- MODULE MCDeliveries -----------------------------
(***************************************************************************)
(* What must get through in the end, for TLC: the directory's messages     *)
(* (DirectoryProjection) and the alerts of SettlementMonitor.  They share  *)
(* nothing: each is explored from the initial state of the other, in which *)
(* none of the other's fair steps is enabled.                              *)
(***************************************************************************)
EXTENDS DirectoryProjection, SettlementMonitor

CONSTANTS c1, c2, alarm, g1, g2, a, b

\* The last pool of the sweep has a wager on two games, the others have none.
OnTwoGames == [p \in Pool |-> IF p = NPools THEN {g1, g2} ELSE {}]

NothingWatched == MonitorInit /\ ready = {}

DeliveriesNext ==
  \/ NothingWatched /\ Next /\ UNCHANGED monitorVars
  \/ Init /\ MonitorNext /\ UNCHANGED vars

DeliveriesInit == Init /\ MonitorInit

DeliveriesSpec ==
  /\ DeliveriesInit
  /\ [][DeliveriesNext]_<<vars, monitorVars>>
  /\ Fairness /\ MonitorFairness
=============================================================================
