----------------------------- MODULE TaskBilling -----------------------------
(***************************************************************************)
(* What asynchronous image tasks promise their user: a task ends once, in  *)
(* failure or in success, and a success is billed at most once, with the   *)
(* amount that was due when it succeeded.                                  *)
(***************************************************************************)
EXTENDS Integers

CONSTANTS Tasks, Amounts

VARIABLE bill  \* what each task's user owes and has paid

TypeOK == bill \in [Tasks -> [state : {"open", "failed", "due", "charged", "free"},
                              amount : Amounts \cup {0}]]

Open == [state |-> "open", amount |-> 0]

Init == bill = [t \in Tasks |-> Open]

\* Tasks that have not ended fail.
Fail(S) ==
    /\ \A t \in S : bill[t].state = "open"
    /\ bill' = [t \in Tasks |->
                  IF t \in S THEN [state |-> "failed", amount |-> 0] ELSE bill[t]]

\* A task that has not ended succeeds, and a is due.
Succeed(t, a) ==
    /\ bill[t].state = "open"
    /\ bill' = [bill EXCEPT ![t] = [state |-> "due", amount |-> a]]

\* A task that has not ended succeeds for free.
SucceedFree(t) ==
    /\ bill[t].state = "open"
    /\ bill' = [bill EXCEPT ![t] = [state |-> "free", amount |-> 0]]

\* What is due is charged, all of it.
Charge(t) ==
    /\ bill[t].state = "due" /\ bill[t].amount > 0
    /\ bill' = [bill EXCEPT ![t] = [state |-> "charged", amount |-> bill[t].amount]]

\* What is due is given up.
Waive(S) ==
    /\ \A t \in S : bill[t].state = "due"
    /\ bill' = [t \in Tasks |->
                  IF t \in S THEN [state |-> "free", amount |-> 0] ELSE bill[t]]

Next ==
    \/ \E S \in SUBSET Tasks : Fail(S) \/ Waive(S)
    \/ \E t \in Tasks : SucceedFree(t) \/ Charge(t) \/ \E a \in Amounts : Succeed(t, a)

Spec == Init /\ [][Next]_bill
=============================================================================
