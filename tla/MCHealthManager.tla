---------------------------- MODULE MCHealthManager ----------------------------
(* Instances of HealthManager for TLC. *)
EXTENDS HealthManager

CONSTANTS s1, s2

\* s1 is monitored; s2 has no interval and is skipped.
OneMonitored == [s \in Servers |-> IF s = s1 THEN 2 ELSE 0]
================================================================================
