--------------------------- MODULE MCMetricsLease ---------------------------
(* A small instance of MetricsLease for TLC. *)
EXTENDS MetricsLease, TLC

CONSTANTS w1, w2, a1

\* Every log is of the first bucket; the second stays empty.
OneBucket == [l \in Logs |-> 0]

\* An hour of two buckets.
Hour == [r \in Rollups |-> 2]

\* The workers are interchangeable until one of them takes the lease: the first one
\* takes it first.
FirstWorkerFirst ==
    state.owner = Nobody /\ at[w1] = "idle" /\ at[w2] = "idle" => at'[w2] = "idle"
=============================================================================
