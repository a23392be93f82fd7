----------------------------- MODULE QuotaLedger -----------------------------
(***************************************************************************)
(* What quota billing promises, with no database, token or channel in it:  *)
(* one balance, and for every call at most one hold that ends exactly once *)
(* in a charge, in a release, or in a loss nobody repairs.  RelayQuota     *)
(* implements it.                                                          *)
(***************************************************************************)
EXTENDS Integers

CONSTANTS
    Calls,      \* the calls that are billed
    Amounts     \* the amounts a hold, a charge or a funding can have

VARIABLES
    balance,    \* what can still be held
    account     \* account[c] = [state, amount]: what call c took out of balance

ledgerVars == <<balance, account>>

LedgerInit ==
    /\ balance \in Nat
    /\ account = [c \in Calls |-> [state |-> "none", amount |-> 0]]

\* A hold is granted only out of what is there; a hold of nothing always is.
Hold(c) ==
    /\ account[c].state = "none"
    /\ \E a \in Amounts :
        /\ a = 0 \/ a <= balance
        /\ balance' = balance - a
        /\ account' = [account EXCEPT ![c] = [state |-> "held", amount |-> a]]

\* The charge replaces the hold, in one step, whatever its size.
Charge(c) ==
    /\ account[c].state = "held"
    /\ \E q \in Amounts :
        /\ balance' = balance + account[c].amount - q
        /\ account' = [account EXCEPT ![c] = [state |-> "charged", amount |-> q]]

Release(c) ==
    /\ account[c].state = "held"
    /\ balance' = balance + account[c].amount
    /\ account' = [account EXCEPT ![c] = [state |-> "released", amount |-> 0]]

\* A call that gave its hold back may be tried again.
Again(c) ==
    /\ account[c].state = "released"
    /\ account' = [account EXCEPT ![c] = [state |-> "none", amount |-> 0]]
    /\ UNCHANGED balance

\* A failure loses the holds of some calls, all at the same moment.
Lose(S) ==
    /\ \A c \in S : account[c].state = "held"
    /\ account' = [c \in Calls |-> IF c \in S
                                   THEN [account[c] EXCEPT !.state = "lost"]
                                   ELSE account[c]]
    /\ UNCHANGED balance

Fund ==
    /\ \E a \in Amounts : balance' = balance + a
    /\ UNCHANGED account

LedgerNext ==
    \/ \E c \in Calls : Hold(c) \/ Charge(c) \/ Release(c) \/ Again(c)
    \/ \E S \in SUBSET Calls : Lose(S)
    \/ Fund

LedgerSpec == LedgerInit /\ [][LedgerNext]_ledgerVars
=============================================================================
