----------------------------- MODULE MCPayments ------------------------------
(***************************************************************************)
(* Two orders of one buyer, of any kinds, and two handlers in processes of *)
(* their own, so that two reports, a report and an administrator, or a     *)
(* report and its copy meet.  The buyer reaches the second level with one  *)
(* payment and the third with both.                                        *)
(***************************************************************************)
EXTENDS Payments, TLC

CONSTANTS h1, h2, o1, o2, buyer, inviter

MCOrders == {o1, o2}
MCHandlers == {h1, h2}
MCUsers == {buyer, inviter}
MCProcOf == [h \in MCHandlers |-> h]
Pair(k1, k2) == [o \in MCOrders |-> IF o = o1 THEN k1 ELSE k2]
\* Every pair of kinds, in one order.
MCKindsOf == {Pair(k, k) : k \in Kinds} \cup
             {Pair(p[1], p[2]) : p \in {<<"topup", "charge">>, <<"topup", "crypto">>, <<"topup", "code">>,
                                       <<"charge", "crypto">>, <<"charge", "code">>, <<"crypto", "code">>}}
MCThresholds == <<0, 2, 4>>
=============================================================================
