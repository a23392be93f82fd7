----------------------------- MODULE MCChannel ------------------------------
(* Small instances of Channel for TLC. *)
EXTENDS Channel, TLC

CONSTANTS p1, p2, j1, j2, j3, j4, m1, m2

OneProc == [j \in Jobs |-> p1]
Spread == [j \in Jobs |-> IF j \in {j1, j2} THEN p1 ELSE p2]

\* Two jobs of one process are interchangeable until they begin: the first begins
\* first.
FirstJobFirst == At(j2, "idle") /\ job'[j2].pc # "idle" => ~At(j1, "idle")

AllOn == [i \in Indices |-> "enabled"]
=============================================================================
