------------------------------- MODULE Totals -------------------------------
(***************************************************************************)
(* Sums over the numbered rows of a table.  Rows are numbered 1..n, so a   *)
(* sum is a recursive function on the naturals and facts about it can be   *)
(* proved (SeasonLedgerProofs).                                            *)
(***************************************************************************)
EXTENDS Integers

\* RunningTotals(f, n)[k] is f[1] + ... + f[k].
RunningTotals(f, n) ==
  LET t[k \in 0..n] == IF k = 0 THEN 0 ELSE t[k-1] + f[k]
  IN  t

Total(f, n) == RunningTotals(f, n)[n]
=============================================================================
