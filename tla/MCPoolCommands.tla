---------------------------- MODULE MCPoolCommands ----------------------------
(***************************************************************************)
(* PoolCommands and MessageBoard, the two halves of the pool's object, and *)
(* OddsBoard, ShareOrders and AdminPages, the pages most commands come     *)
(* from, for TLC.  They share no row but the command version, so each is   *)
(* explored from the initial state of the others.                          *)
(***************************************************************************)
EXTENDS PoolCommands, MessageBoard, OddsBoard, CommissionerPages

CONSTANTS owner, ann, s1, s2, s3, i1, p1, p2, mine, yours, n1, n2, c1, typo, refund,
          m1, t1

\* The two sides of one market, and a game of the other league.
Siblings == {<<n1, n2>>, <<n2, n1>>}

\* The two pools of the odds board differ in nothing: the page is first opened on mine.
SystemInit ==
  /\ Init /\ BoardInit /\ OrdersInit /\ AdminInit
  /\ BoardPageInit /\ at.slug = mine

SystemVars == <<vars, boardVars, boardPageVars, ordersVars, adminVars>>

SystemNext ==
  \/ AdminInit /\ OrdersInit /\ BoardInit /\ BoardPageInit /\ Next
     /\ UNCHANGED <<boardVars, boardPageVars, ordersVars, adminVars>>
  \/ AdminInit /\ OrdersInit /\ Init /\ BoardPageInit /\ BoardNext
     /\ UNCHANGED <<vars, boardPageVars, ordersVars, adminVars>>
  \/ AdminInit /\ OrdersInit /\ Init /\ BoardInit /\ BoardPageNext
     /\ UNCHANGED <<vars, boardVars, ordersVars, adminVars>>
  \/ AdminInit /\ Init /\ BoardInit /\ BoardPageInit /\ OrdersNext
     /\ UNCHANGED <<vars, boardVars, boardPageVars, adminVars>>
  \/ Init /\ OrdersInit /\ BoardInit /\ BoardPageInit /\ AdminNext
     /\ UNCHANGED <<vars, boardVars, boardPageVars, ordersVars>>

SystemSpec == SystemInit /\ [][SystemNext]_SystemVars
=============================================================================
