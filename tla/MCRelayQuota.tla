---------------------------- MODULE MCRelayQuota -----------------------------
(* Small instances of RelayQuota for TLC. *)
EXTENDS RelayQuota, TLC

CONSTANTS c1, c2, c3, t1, t2

\* Every call presents the same token.
OneToken == [c \in Calls |-> t1]

\* The first call presents one token, the others another of the same user.
TwoTokens == [c \in Calls |-> IF c = c1 THEN t1 ELSE t2]

\* Two calls that present one token are interchangeable until they begin: the first
\* begins first.
FirstCallFirst == pc[c2] = "idle" /\ pc'[c2] # "idle" => pc[c1] # "idle"
=============================================================================
