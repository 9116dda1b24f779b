-------------------------- MODULE MCSettlementAlarm --------------------------
(***************************************************************************)
(* SettlementAlarm for TLC.                                                *)
(***************************************************************************)
EXTENDS SettlementAlarm, TLC

\* One run at a time: the platform's alarm only.
Alone   == {"alarm"}
\* The settlement service calls while the alarm's run may be on its way.
Overlap == {"alarm", "settle"}
=============================================================================
