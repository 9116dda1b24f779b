--------------------------- MODULE CommissionerPages ---------------------------
(***************************************************************************)
(* The pages of the commissioner: share orders, and settings, members and  *)
(* history.  They share nothing but the command version, which each counts *)
(* for itself, so either moves whatever the other does.                    *)
(***************************************************************************)
EXTENDS ShareOrders, AdminPages

CommissionerSpec == OrdersSpec /\ AdminSpec

\* What the commissioner's pages send is what was reviewed or typed on them, once: an
\* order and its reversal (admin-orders-lifecycle.ts), a setting, a suspension, an
\* archive (AdminSettingsPage, AdminMembersPage, AdminHistoryPage).
AdminActsAreAsReviewed == OrdersAreAsReviewed /\ PagesAreTrue
=============================================================================
