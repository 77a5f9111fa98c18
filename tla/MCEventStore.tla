---------------------------- MODULE MCEventStore ----------------------------
(* Events alone, for the run about the daily index of a pruned day.        *)
EXTENDS EventStore, TLC

=============================================================================
