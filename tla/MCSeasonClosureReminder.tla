---------------------- MODULE MCSeasonClosureReminder ----------------------
(***************************************************************************)
(* SeasonClosureReminder for TLC.  A unit of time is about five minutes,   *)
(* the windows of days and hours shortened to a few units.                 *)
(***************************************************************************)
EXTENDS SeasonClosureReminder

CONSTANTS v1, v2, ann, bob, inbox, other
=============================================================================
