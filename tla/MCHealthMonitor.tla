-------------------------- MODULE MCHealthMonitor --------------------------
(***************************************************************************)
(* TLC instance of HealthMonitor: one target is checked by an HTTP rule    *)
(* and a TCP rule with different thresholds.                               *)
(***************************************************************************)
EXTENDS HealthMonitor

MCChecks == <<[http |-> TRUE, max_failed |-> 1, target |-> "a"],
              [http |-> FALSE, max_failed |-> 2, target |-> "a"]>>

=============================================================================
