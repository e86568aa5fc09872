---------------------------- MODULE MCDashboard ----------------------------
(* TLC instances of Dashboard.                                             *)
EXTENDS DashboardProperties

CONSTANTS r1, r2, r3, f1, f2
=============================================================================
