---------------------------- MODULE MCDashboard ----------------------------
(***************************************************************************)
(* TLC instances of Dashboard: a metric over days of two windows, and two  *)
(* alerts, with a clock that lags two units at most.                       *)
(***************************************************************************)
EXTENDS Dashboard, TLC

AlertsAlike == Permutations(AlertIds)

=============================================================================
