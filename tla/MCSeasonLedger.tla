--------------------------- MODULE MCSeasonLedger ---------------------------
(***************************************************************************)
(* SeasonLedger for TLC.                                                   *)
(***************************************************************************)
EXTENDS SeasonLedger, TLC

CONSTANTS e1, e2

Straight(e, side) == [kind |-> "straight", picks |-> e :> side]
Multi(kind) == [kind |-> kind, picks |-> e1 :> "home" @@ e2 :> "home"]

\* Orders, placements and closure: every ticket rides on one event.
OneEvent  == {e1}
BothSides == {Straight(e1, "home"), Straight(e1, "away")}

\* Corrections: multi-leg tickets whose results arrive one event at a time.
TwoEvents == {e1, e2}
Combined  == {Multi("parlay")}

\* Even money on each surviving leg.
EvenMoney == [x \in Risk \X SUBSET Event |-> x[1] * Cardinality(x[2])]
=============================================================================
