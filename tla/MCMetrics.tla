------------------------------ MODULE MCMetrics ------------------------------
(* Metrics for TLC: two buckets, with values on, between and above their bounds. *)
EXTENDS Metrics

MCBuckets == <<1, 2>>
=============================================================================
