------------------------------- MODULE Payments -------------------------------
(***************************************************************************)
(* Money comes in: an order is paid at a provider, the provider reports    *)
(* it, and the report credits the buyer, pays a commission to whoever      *)
(* invited the buyer and may raise the buyer's level.  Four kinds of order *)
(* do this, each in its own way:                                           *)
(*                                                                         *)
(*   "topup"   Stripe Checkout (model/topup.go, model/topup_stripe.go): a  *)
(*             locked row; paid, expired, or completed by an administrator *)
(*   "charge"  Stripe payment links (model/charge_order.go): conditional   *)
(*             updates; paid, or paid and refunded                         *)
(*   "crypto"  model/order.go: the report itself creates the order, under  *)
(*             a mutex of the process                                      *)
(*   "code"    redemption codes (model/redemption.go), which an            *)
(*             administrator may edit                                      *)
(*                                                                         *)
(* A provider repeats a report until it is answered with success, and may  *)
(* repeat it after that; reports come in any order.                        *)
(*                                                                         *)
(* Abstractions: an order's kind is chosen at the start; the order mutex   *)
(* of controller/topup.go is left out, because its map forgets a mutex     *)
(* that others wait for, so that it excludes nobody; a transaction whose   *)
(* statements wait for a row that another holds is one step; amounts are   *)
(* the quota they are converted to.  MaxFaults bounds the handlers that    *)
(* fail, MaxCopies the reports repeated needlessly, MaxSpends the quota    *)
(* spent by calls.                                                         *)
(***************************************************************************)
EXTENDS Integers, FiniteSets, Sequences, FiniteSetsExt

CONSTANTS Orders, Handlers, Users,
          KindsOf,      \* the kinds the orders may be of
          Buyer, Inviter,
          ProcOf,       \* the server process of a handler
          Amount,       \* quota of an order
          Commissions,  \* what the rate of the inviter's group makes of it, 0 if there is none
          Thresholds,   \* upgrade_threshold of the levels, ascending
          MaxFaults, MaxCopies, MaxSpends, None

ASSUME PaymentsAssumption ==
    /\ IsFiniteSet(Orders)
    /\ KindsOf \subseteq [Orders -> {"topup", "charge", "crypto", "code"}]
    /\ Buyer \in Users /\ Inviter \in Users /\ Buyer # Inviter
    /\ Amount \in Nat \ {0} /\ Commissions \subseteq Nat
    /\ Thresholds \in Seq(Nat) /\ Len(Thresholds) > 0 /\ Thresholds[1] = 0
    /\ MaxFaults \in Nat /\ MaxCopies \in Nat /\ MaxSpends \in Nat
    /\ None \notin Orders

VARIABLES
    kind,
    provider, \* what the provider knows of the order
    due,      \* reports the provider has to deliver, or deliver again
    order,    \* the order's status; a code's
    real,     \* orders that were paid for: no manual_complete in other
    account,  \* users: quota, topup_quota, gift_quota, level (the group)
    record,   \* aff_commission_records, by source_no
    job,      \* the handlers: step, order, report, what they read
    credits,  \* history: how often the order was credited
    lost,     \* history: quota a refund could not take back, by order
    causes,   \* history: what else happened to the order
    spent, faults, copies

vars == <<kind, provider, due, order, real, account, record, job, credits, lost,
          causes, spent, faults, copies>>
world == <<kind, provider, spent, copies>>

Kinds == {"topup", "charge", "crypto", "code"}
Reports == {"paid", "expired", "refund"}
Levels == 1..Len(Thresholds)
Steps == {"idle", "paid", "expired", "refund", "revoking", "manual", "inserting", "crediting",
          "recalc", "leveling", "editing"}
CodeStatuses == {"pending", "disabled", "used"}
Jobs == [step : Steps, order : Orders \cup {None}, report : Reports \cup {"none"},
         quota : Int, topup : Int, gift : Int, level : {0} \cup Levels, status : STRING]
Idle == [step |-> "idle", order |-> None, report |-> "none",
         quota |-> 0, topup |-> 0, gift |-> 0, level |-> 0, status |-> ""]
Causes == {"early", "swallowed", "dropped", "race", "edited"}
NoRecord == [status |-> "none", quota |-> 0, reversed |-> 0]

Init ==
    /\ kind \in KindsOf
    /\ provider = [o \in Orders |-> "open"]
    /\ due = [o \in Orders |-> {}]
    /\ order = [o \in Orders |-> IF kind[o] = "crypto" THEN "none" ELSE "pending"]
    /\ real = {}
    /\ account = [u \in Users |-> [quota |-> 0, topup |-> 0, gift |-> 0, level |-> 1]]
    /\ record = [o \in Orders |-> NoRecord]
    /\ job = [h \in Handlers |-> Idle]
    /\ credits = [o \in Orders |-> 0]
    /\ lost = [o \in Orders |-> 0]
    /\ causes = [o \in Orders |-> {}]
    /\ spent = [u \in Users |-> 0]
    /\ faults = 0 /\ copies = 0

Lesser(m, n) == IF m < n THEN m ELSE n
Greater(m, n) == IF m > n THEN m ELSE n
Order(h) == job[h].order
Go(h, step) == job' = [job EXCEPT ![h].step = step]
Blame(o, c) == causes' = [causes EXCEPT ![o] = @ \cup {c}]

\* Mutant: every report is answered with success.
AnswerAlways(h, handled) ==
    /\ job' = [job EXCEPT ![h] = Idle]
    /\ due' = [due EXCEPT ![Order(h)] = @ \ {job[h].report}]

\* The handler returns: a report that was handled need not come again.
Answer(h, handled) ==
    /\ job' = [job EXCEPT ![h] = Idle]
    /\ due' = IF handled THEN [due EXCEPT ![Order(h)] = @ \ {job[h].report}] ELSE due

-----------------------------------------------------------------------------
(* The provider and the users.                                             *)

Pay(o) ==
    /\ kind[o] # "code" /\ provider[o] = "open"
    /\ provider' = [provider EXCEPT ![o] = "paid"]
    /\ due' = [due EXCEPT ![o] = @ \cup {"paid"}]
    /\ UNCHANGED <<kind, order, real, account, record, job, credits, lost, causes, spent, faults, copies>>

\* A Checkout session is paid or expires, never both.
SessionExpires(o) ==
    /\ kind[o] = "topup" /\ provider[o] = "open"
    /\ provider' = [provider EXCEPT ![o] = "expired"]
    /\ due' = [due EXCEPT ![o] = @ \cup {"expired"}]
    /\ UNCHANGED <<kind, order, real, account, record, job, credits, lost, causes, spent, faults, copies>>

RefundCharge(o) ==
    /\ kind[o] = "charge" /\ provider[o] = "paid"
    /\ provider' = [provider EXCEPT ![o] = "refunded"]
    /\ due' = [due EXCEPT ![o] = @ \cup {"refund"}]
    /\ UNCHANGED <<kind, order, real, account, record, job, credits, lost, causes, spent, faults, copies>>

\* A report whose answer was lost is delivered once more.
Repeat(o) ==
    /\ copies < MaxCopies
    /\ \E r \in (CASE provider[o] = "paid" -> {"paid"}
                   [] provider[o] = "expired" -> {"expired"}
                   [] provider[o] = "refunded" -> {"paid", "refund"}
                   [] OTHER -> {}) \ due[o] :
          due' = [due EXCEPT ![o] = @ \cup {r}]
    /\ copies' = copies + 1
    /\ UNCHANGED <<kind, provider, order, real, account, record, job, credits, lost, causes, spent, faults>>

\* Calls take quota that is there.
Spend(u) ==
    /\ account[u].quota > 0 /\ spent[u] < MaxSpends
    /\ account' = [account EXCEPT ![u].quota = @ - 1]
    /\ spent' = [spent EXCEPT ![u] = @ + 1]
    /\ UNCHANGED <<kind, provider, due, order, real, record, job, credits, lost, causes, faults, copies>>

Deliver(h, o, r) ==
    /\ job[h].step = "idle" /\ r \in due[o]
    /\ job' = [job EXCEPT ![h] = [Idle EXCEPT !.step = r, !.order = o, !.report = r]]
    /\ UNCHANGED <<kind, provider, due, order, real, account, record, credits, lost, causes, spent, faults, copies>>

\* CompleteTopUp, when the administrator pleases.
CompleteManually(h, o) ==
    /\ kind[o] = "topup" /\ job[h].step = "idle" /\ order[o] = "pending"
    /\ job' = [job EXCEPT ![h] = [Idle EXCEPT !.step = "manual", !.order = o]]
    /\ UNCHANGED <<kind, provider, due, order, real, account, record, credits, lost, causes, spent, faults, copies>>

-----------------------------------------------------------------------------
(* What the handlers share.                                                *)

\* A refund's transaction holds the row of its order until it ends.
RowLocked(o) == \E g \in Handlers : job[g].step = "revoking" /\ job[g].order = o

Credited(o, isReal) ==
    /\ order' = [order EXCEPT ![o] = IF kind[o] = "code" THEN "used" ELSE "success"]
    /\ real' = IF isReal THEN real \cup {o} ELSE real
    /\ credits' = [credits EXCEPT ![o] = @ + 1]

\* Mutant: the manual completion counts as a payment.
PaidForAlways(isReal) == Amount
PaidFor(isReal) == IF isReal THEN Amount ELSE 0

\* The record's source_no is unique: it is inserted once.
NotGranted(o) == record[o].status = "none"

\* GrantCommission, in the transaction that credits the buyer.
CreditAndGrant(o, isReal, granted) ==
    LET due1 == IF NotGranted(o) THEN granted ELSE 0
    IN  /\ account' = [account EXCEPT ![Buyer].quota = @ + Amount,
                                      ![Buyer].topup = @ + PaidFor(isReal),
                                      ![Inviter].quota = @ + due1,
                                      ![Inviter].gift = @ + due1]
        /\ record' = IF due1 > 0
                     THEN [record EXCEPT ![o] = [status |-> "granted", quota |-> due1, reversed |-> 0]]
                     ELSE record

\* RecalcUserLevel: the highest level whose threshold is reached; what was read is
\* written after other handlers have read and written.
Target(topup) == Max({l \in Levels : Thresholds[l] <= topup})

RecalcReads(h) ==
    /\ job[h].step = "recalc"
    /\ IF Target(account[Buyer].topup) > account[Buyer].level
       THEN /\ job' = [job EXCEPT ![h].step = "leveling", ![h].level = Target(account[Buyer].topup)]
            /\ UNCHANGED due
       ELSE Answer(h, TRUE)
    /\ UNCHANGED <<world, order, real, account, record, credits, lost, causes, faults>>

RecalcWrites(h) ==
    /\ job[h].step = "leveling"
    /\ account' = [account EXCEPT ![Buyer].level = job[h].level]
    /\ Answer(h, TRUE)
    /\ UNCHANGED <<world, order, real, record, credits, lost, causes, faults>>

-----------------------------------------------------------------------------
(* Checkout orders.                                                        *)

\* Mutant: a report is believed whatever the order's status.
OpenAlways(o) == TRUE
Open(o) == order[o] = "pending"

\* completeTopUpOrder, for a report and for an administrator: no commission and no
\* topup_quota in the second case.
Complete(h) ==
    /\ \/ job[h].step = "paid" /\ kind[Order(h)] = "topup"
       \/ job[h].step = "manual"
    /\ IF Open(Order(h))
       THEN /\ \E n \in IF job[h].step = "paid" THEN Commissions ELSE {0} :
                  CreditAndGrant(Order(h), job[h].step = "paid", n)
            /\ Credited(Order(h), job[h].step = "paid")
            /\ Go(h, "recalc")
            /\ UNCHANGED due
       ELSE Answer(h, TRUE) /\ UNCHANGED <<order, real, account, record, credits>>
    /\ UNCHANGED <<world, lost, causes, faults>>

\* stripeSessionExpired, ExpireTopUpOrder: a failure is logged and answered with
\* success all the same.
Expire(h) ==
    /\ job[h].step = "expired"
    /\ \/ /\ order' = IF Open(Order(h)) THEN [order EXCEPT ![Order(h)] = "expired"] ELSE order
          /\ UNCHANGED faults
       \/ faults < MaxFaults /\ faults' = faults + 1 /\ UNCHANGED order
    /\ Answer(h, TRUE)
    /\ UNCHANGED <<world, real, account, record, credits, lost, causes>>

-----------------------------------------------------------------------------
(* Payment links.                                                          *)

\* stripeChargeSuccess: create -> success, or an error for any other status.
ChargeSuccess(h) ==
    /\ job[h].step = "paid" /\ kind[Order(h)] = "charge" /\ ~RowLocked(Order(h))
    /\ IF Open(Order(h))
       THEN /\ \E n \in Commissions : CreditAndGrant(Order(h), TRUE, n)
            /\ Credited(Order(h), TRUE)
            /\ Go(h, "recalc")
            /\ UNCHANGED due
       ELSE Answer(h, FALSE) /\ UNCHANGED <<order, real, account, record, credits>>
    /\ UNCHANGED <<world, lost, causes, faults>>

Refundable(o) == order[o] = "success"

\* stripeChargeRefund and ReverseCommission: the balances that bound what is taken
\* back are read without a lock.
RefundReads(h) ==
    /\ job[h].step = "refund" /\ ~RowLocked(Order(h))
    /\ IF Refundable(Order(h))
       THEN /\ job' = [job EXCEPT ![h].step = "revoking",
                 ![h].quota = Greater(0, Lesser(Amount, account[Buyer].quota)),
                 ![h].topup = Greater(0, Lesser(Amount, account[Buyer].topup)),
                 ![h].gift = IF record[Order(h)].status = "granted"
                             THEN Greater(0, Lesser(record[Order(h)].quota, account[Inviter].quota))
                             ELSE 0]
            /\ UNCHANGED <<due, causes>>
       ELSE /\ Answer(h, TRUE)
            /\ IF Open(Order(h)) THEN Blame(Order(h), "early") ELSE UNCHANGED causes
    /\ UNCHANGED <<world, order, real, account, record, credits, lost, faults>>

\* The conditional update fails and its error is dropped, so that the refund looks like
\* one of an order that was handled before, and is answered as handled.
RefundSwallowed(h) ==
    /\ faults < MaxFaults /\ job[h].step = "refund"
    /\ faults' = faults + 1
    /\ Answer(h, TRUE)
    /\ IF order[Order(h)] = "refund" THEN UNCHANGED causes ELSE Blame(Order(h), "swallowed")
    /\ UNCHANGED <<world, order, real, account, record, credits, lost>>

\* Mutant: the commission stays.
ReversedNot(r, gift) == r
Reversed(r, gift) == [r EXCEPT !.status = "reversed", !.reversed = gift]

RefundCommits(h) ==
    /\ job[h].step = "revoking"
    /\ order' = [order EXCEPT ![Order(h)] = "refund"]
    /\ account' = [account EXCEPT ![Buyer].quota = @ - job[h].quota,
                                  ![Buyer].topup = @ - job[h].topup,
                                  ![Inviter].quota = @ - job[h].gift,
                                  ![Inviter].gift = @ - job[h].gift]
    /\ record' = IF record[Order(h)].status = "granted"
                 THEN [record EXCEPT ![Order(h)] = Reversed(@, job[h].gift)] ELSE record
    /\ lost' = [lost EXCEPT ![Order(h)] = Amount - job[h].quota]
    /\ Answer(h, TRUE)
    /\ UNCHANGED <<world, real, credits, causes, faults>>

-----------------------------------------------------------------------------
(* Crypto payments and redemption codes.                                   *)

InMutex(g) ==
    \/ job[g].step \in {"inserting", "crediting"}
    \/ job[g].step \in {"recalc", "leveling"} /\ kind[Order(g)] = "crypto"

\* CreateOrUpdateOrder looks for the order under the process's mutex.
CryptoFind(h) ==
    /\ job[h].step = "paid" /\ kind[Order(h)] = "crypto"
    /\ ~\E g \in Handlers : ProcOf[g] = ProcOf[h] /\ InMutex(g)
    /\ IF order[Order(h)] = "none"
       THEN Go(h, "inserting") /\ UNCHANGED due
       ELSE Answer(h, TRUE)
    /\ UNCHANGED <<world, order, real, account, record, credits, lost, causes, faults>>

\* The order and its bill are created outside the transaction they stand in.
CryptoInsert(h) ==
    /\ job[h].step = "inserting"
    /\ IF order[Order(h)] = "none" THEN UNCHANGED causes ELSE Blame(Order(h), "race")
    /\ order' = [order EXCEPT ![Order(h)] = "success"]
    /\ real' = real \cup {Order(h)}
    /\ Go(h, "crediting")
    /\ UNCHANGED <<world, due, account, record, credits, lost, faults>>

CryptoCredit(h) ==
    /\ job[h].step = "crediting"
    /\ account' = [account EXCEPT ![Buyer].quota = @ + Amount, ![Buyer].topup = @ + Amount]
    /\ credits' = [credits EXCEPT ![Order(h)] = @ + 1]
    /\ Go(h, "recalc")
    /\ UNCHANGED <<world, due, order, real, record, lost, causes, faults>>

\* Redeem: one transaction, with the code's row locked.
Redeem(o) ==
    /\ kind[o] = "code" /\ Open(o)
    /\ Credited(o, FALSE)
    /\ account' = [account EXCEPT ![Buyer].quota = @ + Amount]
    /\ UNCHANGED <<world, due, record, job, lost, causes, faults>>

\* UpdateRedemption reads the row and then saves it whole: with the status it read and
\* a new name, or, if the request is status_only, with the status the request names,
\* whatever it is.
EditReads(h, o) ==
    /\ kind[o] = "code" /\ job[h].step = "idle" /\ credits[o] < 2     \* bound: edits never end
    /\ \E s \in CodeStatuses :
          job' = [job EXCEPT ![h] = [Idle EXCEPT !.step = "editing", !.order = o, !.status = s]]
    /\ UNCHANGED <<world, due, order, real, account, record, credits, lost, causes, faults>>

\* An edit that makes a used code usable, or an unused one used, is held against it.
EditSaves(h) ==
    /\ job[h].step = "editing"
    /\ order' = [order EXCEPT ![Order(h)] = job[h].status]
    /\ IF (order[Order(h)] = "used") = (job[h].status = "used")
       THEN UNCHANGED causes ELSE Blame(Order(h), "edited")
    /\ job' = [job EXCEPT ![h] = Idle]
    /\ UNCHANGED <<world, due, real, account, record, credits, lost, faults>>

-----------------------------------------------------------------------------
\* A handler's transaction fails or its process dies: what was not committed is
\* undone and the report stays due.  A failed recalculation is only logged.
Fail(h) ==
    /\ faults < MaxFaults /\ job[h].step \notin {"idle", "expired", "editing"}
    /\ faults' = faults + 1
    /\ IF job[h].step = "crediting" THEN Blame(Order(h), "dropped") ELSE UNCHANGED causes
    /\ \/ Answer(h, FALSE)
       \/ job[h].step \in {"recalc", "leveling"} /\ Answer(h, TRUE)
    /\ UNCHANGED <<world, order, real, account, record, credits, lost>>

Work(h) ==
    \/ Complete(h) \/ Expire(h) \/ ChargeSuccess(h) \/ RefundReads(h) \/ RefundCommits(h)
    \/ CryptoFind(h) \/ CryptoInsert(h) \/ CryptoCredit(h) \/ EditSaves(h)
    \/ RecalcReads(h) \/ RecalcWrites(h)

Next ==
    \/ \E o \in Orders : Pay(o) \/ SessionExpires(o) \/ RefundCharge(o) \/ Repeat(o) \/ Redeem(o)
    \/ \E u \in Users : Spend(u)
    \/ \E h \in Handlers :
          \/ \E o \in Orders : CompleteManually(h, o) \/ EditReads(h, o)
          \/ \E o \in Orders, r \in Reports : Deliver(h, o, r)
          \/ Work(h) \/ Fail(h) \/ RefundSwallowed(h)

Spec == Init /\ [][Next]_vars

-----------------------------------------------------------------------------
TypeOK ==
    /\ kind \in [Orders -> Kinds]
    /\ provider \in [Orders -> {"open", "paid", "expired", "refunded"}]
    /\ due \in [Orders -> SUBSET Reports]
    /\ order \in [Orders -> {"none", "pending", "success", "expired", "refund", "used", "disabled"}]
    /\ real \subseteq Orders
    /\ account \in [Users -> [quota : Int, topup : Nat, gift : Nat, level : Levels]]
    /\ record \in [Orders -> [status : {"none", "granted", "reversed"},
                              quota : Commissions \cup {0}, reversed : Nat]]
    /\ job \in [Handlers -> Jobs]
    /\ credits \in [Orders -> Nat] /\ lost \in [Orders -> Nat]
    /\ causes \in [Orders -> SUBSET Causes]
    /\ spent \in [Users -> 0..MaxSpends]
    /\ faults \in 0..MaxFaults /\ copies \in 0..MaxCopies

\* An order is credited once at most, whatever the reports that are repeated, come
\* late or meet an administrator's completion: unless two processes take the same
\* crypto report at once, or an administrator's edit saves a used code as one that is
\* not, because it was told to or because it read it before it was used.
CreditedOnce ==
    \A o \in Orders : credits[o] > 1 => causes[o] \cap {"race", "edited"} # {}

Kept(o) == record[o].quota - record[o].reversed

\* The orders and commission records explain the accounts to the unit: topup_quota
\* is what was paid and not refunded, gift_quota the commissions not taken back, and
\* the balances are these and the gifts, less what was spent and with what refunds
\* could not take back; unless the order is one that CreditedOnce excuses, or a crypto
\* order that was created and not credited.
BooksBalance ==
    (\A o \in Orders : causes[o] \cap {"race", "edited", "dropped"} = {})
    /\ (\A h \in Handlers : job[h].step # "crediting")
    =>
    LET held == {o \in Orders : order[o] \in {"success", "used"}}
    IN  /\ account[Buyer].topup = Amount * Cardinality(held \cap real)
        /\ account[Buyer].quota + spent[Buyer] = Amount * Cardinality(held) + SumFunction(lost)
        /\ account[Inviter].gift = SumFunction([o \in Orders |-> Kept(o)])
        /\ account[Inviter].quota + spent[Inviter] = account[Inviter].gift

\* A commission stands exactly as long as the payment it was granted for: it is never
\* granted for a completion by hand, a crypto payment or a code, and a refund marks it
\* as taken back.
CommissionFollowsPayment ==
    \A o \in Orders :
        /\ record[o].status = "granted" =>
              order[o] = "success" /\ o \in real /\ kind[o] \in {"topup", "charge"}
        /\ record[o].status = "reversed" => order[o] = "refund"

\* A report that has been answered as handled has been: the provider will not come
\* again, and the payment is credited, the refund taken back, whichever handlers
\* failed on the way; except a crypto payment whose order was created and then not
\* credited, a refund that was reported before its payment was handled, and a refund
\* whose update of the order failed in the database.
Unattended(o, r) == r \notin due[o] /\ \A h \in Handlers : job[h].order # o

AnsweredIsHandled ==
    \A o \in Orders :
        /\ provider[o] \in {"paid", "refunded"} /\ Unattended(o, "paid") =>
              credits[o] > 0 \/ "dropped" \in causes[o]
        /\ provider[o] = "refunded" /\ Unattended(o, "refund") =>
              order[o] = "refund" \/ causes[o] \cap {"early", "swallowed"} # {}

\* The comments on ReverseCommission and stripeChargeRefund: no negative balance.
\* It does not hold: README, section 6.
NoNegativeBalance == \A u \in Users : account[u].quota >= 0

\* The comment on RecalcUserLevel: levels only rise.
\* It does not hold: README, section 6.
LevelsOnlyRise == [][\A u \in Users : account'[u].level >= account[u].level]_vars
=============================================================================
