----------------------------- MODULE MCFluxTask ------------------------------
(* Small instances of FluxTask for TLC. *)
EXTENDS FluxTask, TLC

CONSTANTS b1, r1, w1, w2

\* The two goroutines are interchangeable while they are idle: the second one
\* begins only while the first is at work.
FirstWorkerFirst == at[w2] = "idle" /\ at'[w2] # "idle" => at[w1] # "idle"
=============================================================================
