-------------------------- MODULE MCWagerPlacement --------------------------
(***************************************************************************)
(* WagerPlacement and WagerRules for TLC: a run either carries tickets to  *)
(* the pool, whatever their legs, or puts legs on a ticket.                *)
(***************************************************************************)
EXTENDS WagerPlacement, WagerRules, TLC

CONSTANTS a, b, g1, g2, g3

\* Two lines, which the model treats alike.
Lines == Permutations(Terms)

\* A half-point spread, a whole-point total, and a heavy, a plain and an even
\* favourite.  The scores put each line on both sides and on the number: the
\* total pushes, the tie voids moneylines and pushes a spread teased by 6.5.
HomeLine   == -13
Moneylines == g1 :> [home |-> -900, away |-> 900] @@ g2 :> [home |-> -420, away |-> 420]
                @@ g3 :> [home |-> 105, away |-> -105]
Finals     == {[home |-> x[1], away |-> x[2]] : x \in {<<24, 21>>, <<21, 21>>, <<31, 17>>, <<10, 30>>}}

SystemInit == Init /\ RulesInit

SystemSpec ==
  /\ SystemInit
  /\ [][\/ RulesInit /\ Next /\ UNCHANGED rulesVars
        \/ Init /\ RulesNext /\ UNCHANGED vars
       ]_<<vars, rulesVars>>
=============================================================================
