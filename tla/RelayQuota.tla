----------------------------- MODULE RelayQuota ------------------------------
(***************************************************************************)
(* Transactional billing of System One and of audio calls                  *)
(* (model/relay-quota.go, relay/controller/systemone.go), together with    *)
(* the other writers of the same token row: token validation               *)
(* (model/token.go) and the owner's edits (controller/token.go).           *)
(*                                                                         *)
(* One user, several tokens of that user, one channel.  A database         *)
(* transaction is one step when everything it reads is read again by the   *)
(* conditional UPDATE that writes; what a transaction or a handler reads   *)
(* earlier is kept in snap and used, possibly stale, by the later step.    *)
(***************************************************************************)
EXTENDS Integers, FiniteSets, Functions

CONSTANTS
    Calls,        \* relay requests
    Tokens,       \* tokens of the one user
    TokenOf,      \* the token each call authenticates with
    Reservations, \* estimates tariff.quota can give before the call
    Costs,        \* quotas tariff.quota can give for the reported usage
    InitQuota,    \* quota of the user at the start
    InitRemain,   \* remain_quota of every token at the start
    EditRemain,   \* values of remain_quota an owner's edit can carry
    TopUps,       \* amounts of a top-up
    Returns,      \* amounts a call of the other billing gives back
    MaxTopUps,    \* bound: number of top-ups
    MaxEdits,     \* bound: number of token edits, deletions and such returns
    MaxFaults,    \* bound: number of database faults and crashes
    RetryTimes    \* config.RetryTimes, attempts after the first one

ASSUME RelayQuotaAssumption ==
    /\ Tokens # {} /\ IsFiniteSet(Tokens) /\ IsFiniteSet(Calls)
    /\ TokenOf \in [Calls -> Tokens]
    /\ Reservations \subseteq Nat
    /\ Costs \subseteq Nat
    /\ InitQuota \in Nat
    /\ InitRemain \in Nat
    /\ EditRemain \subseteq Int
    /\ TopUps \subseteq Nat /\ Returns \subseteq Nat
    /\ MaxTopUps \in Nat /\ MaxEdits \in Nat /\ MaxFaults \in Nat
    /\ RetryTimes \in Nat

VARIABLES
    userQuota, userUsed, requestCount,  \* row of users
    token,      \* rows of tokens
    channelUsed, channelLive,  \* row of channels: used_quota, and whether it exists
    pc,         \* progress of each call
    snap,       \* token row a call read and has not used up yet
    reserved,   \* reserved of RelaySystemOneHelper
    cost,       \* quota computed from the upstream usage
    retryable,  \* FALSE: systemone_no_retry was set on the call's context
    attempts,   \* retries done by the loop in Relay
    edit,       \* an UpdateToken request between its read and its write
    editCount, topUpCount, faultCount,  \* bounded environment counters
    funded,     \* history: everything ever added to the user's quota
    returned,   \* history: what calls of the other billing gave back to tokens
    overrun,    \* history: total by which charges exceeded their reservation
    edited,     \* history: tokens whose row an edit has rewritten
    manualOff   \* history: tokens the owner disabled and did not enable since

vars == <<userQuota, userUsed, requestCount, token, channelUsed, channelLive,
          pc, snap, reserved, cost, retryable, attempts, edit, editCount,
          topUpCount, faultCount, funded, returned, overrun, edited, manualOff>>

-----------------------------------------------------------------------------
Status == {"enabled", "disabled", "expired", "exhausted"}

TokenRow == [status : Status, remain : Int, used : Int,
             unlimited : BOOLEAN, expired : BOOLEAN, live : BOOLEAN]

InFlight == {"held", "settling", "refunding"}
Before   == {"idle", "validating", "admitted", "reserving"}
Final    == {"rejected", "settled", "refunded", "leaked"}

TokenInit == [status |-> "enabled", remain |-> InitRemain, used |-> 0,
              unlimited |-> FALSE, expired |-> FALSE, live |-> TRUE]

NoEdit == [phase |-> "none", tok |-> CHOOSE t \in Tokens : TRUE,
           row |-> TokenInit]

Init ==
    /\ userQuota = InitQuota /\ userUsed = 0 /\ requestCount = 0
    /\ token = [t \in Tokens |-> TokenInit]
    /\ channelUsed = 0 /\ channelLive = TRUE
    /\ pc = [c \in Calls |-> "idle"]
    /\ snap = [c \in Calls |-> TokenInit]
    /\ reserved = [c \in Calls |-> 0]
    /\ cost = [c \in Calls |-> 0]
    /\ retryable = [c \in Calls |-> TRUE]
    /\ attempts = [c \in Calls |-> 0]
    /\ edit = NoEdit
    /\ editCount = 0 /\ topUpCount = 0 /\ faultCount = 0
    /\ funded = InitQuota /\ returned = 0 /\ overrun = 0
    /\ edited = {} /\ manualOff = {}

MaxOf(a, b) == IF a >= b THEN a ELSE b

callVars == <<snap, reserved, cost, retryable, attempts>>
statVars == <<userUsed, requestCount, channelUsed, channelLive>>
rowVars  == <<userQuota, token, statVars>>
envVars  == <<edit, editCount, topUpCount, faultCount, funded, returned, edited,
             manualOff>>

Goto(c, from, to) ==
    /\ pc[c] = from
    /\ pc' = [pc EXCEPT ![c] = to]

-----------------------------------------------------------------------------
(* adjustRelayQuota, after its read of the token row.                      *)

\* Mutant: a refund forgets the second UPDATE.
ChargedNoRevival(row, d) == [row EXCEPT !.remain = @ - d, !.used = @ + d]

\* Mutant: the second UPDATE forgets to ask for the exhausted status.
ChargedRevivesAll(row, d) ==
    [row EXCEPT !.remain = @ - d, !.used = @ + d,
                !.status = IF d < 0 /\ row.remain - d > 0 THEN "enabled" ELSE @]

\* The token row after remain_quota - d, used_quota + d and, for a refund,
\* the second UPDATE that takes an exhausted token back into service.
Charged(row, d) ==
    LET moved == [row EXCEPT !.remain = @ - d, !.used = @ + d]
    IN  IF d < 0 /\ moved.status = "exhausted" /\ moved.remain > 0
        THEN [moved EXCEPT !.status = "enabled"]
        ELSE moved

\* Mutant: the two balances in two transactions, the second one lost.
AdjustUserOnly(t, d) ==
    /\ userQuota' = userQuota - d
    /\ token' = token

\* Both balances move by d, or neither does.
Adjust(t, d) ==
    /\ userQuota' = userQuota - d
    /\ token' = [token EXCEPT ![t] = Charged(@, d)]

\* Mutant: the condition of the UPDATE only asks for some quota.
UserHasSome(r) == userQuota > 0

\* WHERE quota >= delta
UserCovers(r) == userQuota >= r

\* Mutant: the quota is checked on the row read before.
TokenCoveredWhenRead(row, t, r) == row.unlimited \/ row.remain >= r

\* WHERE remain_quota >= delta, unless the row read before was unlimited.
TokenCovers(row, t, r) == row.unlimited \/ token[t].remain >= r

-----------------------------------------------------------------------------
(* ValidateUserToken, without Redis.                                       *)

\* CacheGetTokenByKey: SELECT of the row; no row, no token.
AuthRead(c) ==
    LET t == TokenOf[c] IN
    /\ Goto(c, "idle", IF token[t].live THEN "validating" ELSE "rejected")
    /\ snap' = [snap EXCEPT ![c] = token[t]]
    /\ UNCHANGED <<rowVars, reserved, cost, retryable, attempts, envVars, overrun>>

\* What a refused validation that read row makes of the row as it is now:
\* "expired" is written whatever the row holds by now (SelectUpdate),
\* "exhausted" only while it is still enabled and empty.
Marked(row, now) ==
    CASE row.status # "enabled" -> now
      [] row.status = "enabled" /\ row.expired -> [now EXCEPT !.status = "expired"]
      [] OTHER -> IF now.status = "enabled" /\ now.remain <= 0 /\ ~now.unlimited
                  THEN [now EXCEPT !.status = "exhausted"]
                  ELSE now

Valid(row) ==
    /\ row.status = "enabled" /\ ~row.expired
    /\ row.unlimited \/ row.remain > 0

\* Everything is decided on the row read.
AuthDecide(c) ==
    LET t == TokenOf[c] IN
    /\ \/ /\ Valid(snap[c])
          /\ Goto(c, "validating", "admitted")
          /\ UNCHANGED token
       \/ /\ ~Valid(snap[c])
          /\ Goto(c, "validating", "rejected")
          /\ token' = IF token[t].live
                      THEN [token EXCEPT ![t] = Marked(snap[c], @)]
                      ELSE token
    /\ UNCHANGED <<userQuota, statVars, callVars, envVars, overrun>>

-----------------------------------------------------------------------------
(* RelaySystemOneHelper: reserve, call upstream, settle or refund.         *)

\* The transaction of AdjustRelayQuota(reserve) reads the token first; only
\* unlimited_quota is used from that read.
ReserveRead(c) ==
    /\ Goto(c, "admitted", IF token[TokenOf[c]].live THEN "reserving" ELSE "rejected")
    /\ snap' = [snap EXCEPT ![c] = token[TokenOf[c]]]
    /\ \E r \in Reservations : reserved' = [reserved EXCEPT ![c] = r]
    /\ UNCHANGED <<rowVars, cost, retryable, attempts, envVars, overrun>>

\* Conditional UPDATE of the user, conditional UPDATE of the token, commit.
\* A zero reservation returns before both.
ReserveCommit(c) ==
    LET t == TokenOf[c]  r == reserved[c] IN
    /\ Goto(c, "reserving", "held")
    /\ \/ /\ r = 0
          /\ UNCHANGED <<userQuota, token>>
       \/ /\ r > 0
          /\ UserCovers(r) /\ token[t].live /\ TokenCovers(snap[c], t, r)
          /\ Adjust(t, r)
    /\ UNCHANGED <<statVars, callVars, envVars, overrun>>

\* A condition not met or a row gone: rollback, 403 or 500, no retry.
ReserveRefused(c) ==
    LET t == TokenOf[c]  r == reserved[c] IN
    /\ r > 0
    /\ ~(UserCovers(r) /\ token[t].live /\ TokenCovers(snap[c], t, r))
    /\ Goto(c, "reserving", "rejected")
    /\ UNCHANGED <<rowVars, callVars, envVars, overrun>>

\* The upstream answered 200 with a usage the tariff can price.
UpstreamAnswers(c) ==
    /\ Goto(c, "held", "settling")
    /\ \E q \in Costs : cost' = [cost EXCEPT ![c] = q]
    /\ UNCHANGED <<rowVars, snap, reserved, retryable, attempts, envVars, overrun>>

\* The upstream failed, or answered what cannot be used (retryable), or a
\* usage the tariff cannot price (no retry).
UpstreamFails(c) ==
    /\ Goto(c, "held", "refunding")
    /\ \E again \in BOOLEAN : retryable' = [retryable EXCEPT ![c] = again]
    /\ UNCHANGED <<rowVars, snap, reserved, cost, attempts, envVars, overrun>>

\* What used_quota of the user grows by.
Usage(q, r) == q

\* SettleRelayQuota: the difference to the reservation, the user's usage and
\* the channel's usage commit together.
Settle(c) ==
    LET t == TokenOf[c]  q == cost[c]  d == cost[c] - reserved[c] IN
    /\ Goto(c, "settling", "settled")
    /\ token[t].live
    /\ q > 0 => channelLive
    /\ Adjust(t, d)
    /\ userUsed' = userUsed + Usage(q, reserved[c])
    /\ requestCount' = requestCount + 1
    /\ channelUsed' = channelUsed + q
    /\ overrun' = overrun + MaxOf(d, 0)
    /\ UNCHANGED <<channelLive, callVars, envVars>>

\* Mutant: a settlement that cannot commit is tried again for ever.
SettleAgain(c) ==
    /\ Goto(c, "settling", "settling")
    /\ ~token[TokenOf[c]].live \/ (cost[c] > 0 /\ ~channelLive)
    /\ retryable' = [retryable EXCEPT ![c] = FALSE]
    /\ UNCHANGED <<rowVars, snap, reserved, cost, attempts, envVars, overrun>>

\* The settlement rolls back when a row is gone; the call is then refunded
\* by the deferred function and never retried.
SettleRollsBack(c) ==
    /\ Goto(c, "settling", "refunding")
    /\ ~token[TokenOf[c]].live \/ (cost[c] > 0 /\ ~channelLive)
    /\ retryable' = [retryable EXCEPT ![c] = FALSE]
    /\ UNCHANGED <<rowVars, snap, reserved, cost, attempts, envVars, overrun>>

\* adjustRelayQuota finds the row by id and user.
Refundable(t) == token[t].live

\* The deferred function: AdjustRelayQuota(-reserved), skipped for zero.
Refund(c) ==
    LET t == TokenOf[c]  r == reserved[c] IN
    /\ Goto(c, "refunding", "refunded")
    /\ \/ r = 0 /\ UNCHANGED <<userQuota, token>>
       \/ r > 0 /\ Refundable(t) /\ Adjust(t, -r)
    /\ UNCHANGED <<statVars, callVars, envVars, overrun>>

\* The token row is gone: the refund's read fails, the error is logged.
RefundFindsNoToken(c) ==
    /\ reserved[c] > 0 /\ ~Refundable(TokenOf[c])
    /\ Goto(c, "refunding", "leaked")
    /\ UNCHANGED <<rowVars, callVars, envVars, overrun>>

\* The loop of Relay calls the helper again for the same request.
Retry(c) ==
    /\ retryable[c] /\ attempts[c] < RetryTimes
    /\ Goto(c, "refunded", "admitted")
    /\ attempts' = [attempts EXCEPT ![c] = @ + 1]
    /\ reserved' = [reserved EXCEPT ![c] = 0]
    /\ cost' = [cost EXCEPT ![c] = 0]
    /\ UNCHANGED <<rowVars, snap, retryable, envVars, overrun>>

-----------------------------------------------------------------------------
(* Faults, the owner and the operator.                                     *)

\* A transaction fails in the database and rolls back.
DatabaseFault(c) ==
    /\ faultCount < MaxFaults
    /\ faultCount' = faultCount + 1
    /\ \/ Goto(c, "reserving", "rejected") /\ UNCHANGED retryable
       \/ /\ Goto(c, "settling", "refunding")
          /\ retryable' = [retryable EXCEPT ![c] = FALSE]
       \/ /\ reserved[c] > 0
          /\ Goto(c, "refunding", "leaked") /\ UNCHANGED retryable
    /\ UNCHANGED <<rowVars, snap, reserved, cost, attempts, edit, editCount,
                   topUpCount, funded, returned, overrun, edited, manualOff>>

\* The process stops: nothing recovers the requests it was serving.
Crash ==
    /\ faultCount < MaxFaults
    /\ faultCount' = faultCount + 1
    /\ pc' = [c \in Calls |->
                CASE pc[c] \in InFlight -> "leaked"
                  [] pc[c] \in Before \ {"idle"} -> "rejected"
                  [] OTHER -> pc[c]]
    /\ edit' = NoEdit
    /\ retryable' = [c \in Calls |-> FALSE]
    /\ UNCHANGED <<rowVars, snap, reserved, cost, attempts, editCount,
                   topUpCount, funded, returned, overrun, edited, manualOff>>

\* Time passes the token's expired_time.
Expire(t) ==
    /\ token[t].live /\ ~token[t].expired
    /\ token' = [token EXCEPT ![t].expired = TRUE]
    /\ UNCHANGED <<userQuota, statVars, pc, callVars, envVars, overrun>>

\* UpdateToken, first half: the row the owner is about to edit.
EditRead(t) ==
    /\ edit.phase = "none" /\ editCount < MaxEdits /\ token[t].live
    /\ edit' = [phase |-> "read", tok |-> t, row |-> token[t]]
    /\ editCount' = editCount + 1
    /\ UNCHANGED <<rowVars, pc, callVars, topUpCount, faultCount, funded, returned,
                   overrun, edited, manualOff>>

\* Mutant: the statement writes the whole row that was read.
SavedStale(row, now) == row

\* Update() writes status, remain_quota, unlimited_quota and expired_time of
\* the row read before, not what the row holds by now; used_quota it leaves.
Saved(row, now) == [row EXCEPT !.used = now.used]

SaveEdit(t, row) ==
    /\ token' = IF token[t].live
                THEN [token EXCEPT ![t] = Saved(row, @)]
                ELSE token
    /\ edit' = NoEdit
    /\ edited' = edited \cup {t}
    /\ UNCHANGED <<userQuota, statVars, pc, callVars, editCount, topUpCount,
                   faultCount, funded, returned, overrun>>

\* The status switch (status_only) stores the status of the request, whatever
\* it is; only enabling is refused, on the row read.
EditStatus ==
    LET t == edit.tok  row == edit.row IN
    /\ edit.phase = "read"
    /\ \E st \in Status :
        /\ st = "enabled" =>
             /\ ~(row.status = "expired" /\ row.expired)
             /\ ~(row.status = "exhausted" /\ row.remain <= 0 /\ ~row.unlimited)
        /\ SaveEdit(t, [row EXCEPT !.status = st, !.expired = token[t].expired])
        /\ manualOff' = CASE st = "enabled"  -> manualOff \ {t}
                          [] st = "disabled" -> manualOff \cup {t}
                          [] OTHER -> manualOff

\* The full form: new quota, limit and expiry; a token the system disabled is
\* enabled again when the reason is gone.
EditFields ==
    LET t == edit.tok  old == edit.row IN
    /\ edit.phase = "read"
    /\ \E r \in EditRemain, u \in BOOLEAN, x \in BOOLEAN :
        LET autoEnable == \/ old.status = "exhausted" /\ (u \/ r > 0)
                          \/ old.status = "expired" /\ ~x
        IN  SaveEdit(t, [old EXCEPT !.remain = r, !.unlimited = u, !.expired = x,
                           !.status = IF autoEnable THEN "enabled" ELSE @])
    /\ UNCHANGED manualOff

\* increaseTokenQuota: unlike a refund of adjustRelayQuota it leaves the
\* status alone.
Returned(row, a) == [row EXCEPT !.remain = @ + a, !.used = @ - a]

\* PostConsumeTokenQuota with a negative amount: a call of the other billing
\* (CallQuota) gives back what it took before the start.
OtherReturns(t) ==
    /\ token[t].live /\ editCount < MaxEdits
    /\ editCount' = editCount + 1
    /\ \E a \in Returns :
        /\ userQuota' = userQuota + a
        /\ returned' = returned + a
        /\ token' = [token EXCEPT ![t] = Returned(@, a)]
    /\ UNCHANGED <<statVars, pc, callVars, edit, topUpCount, faultCount, funded,
                   overrun, edited, manualOff>>

\* DeleteToken: the row is removed; its last contents stay here as history.
DeleteToken(t) ==
    /\ token[t].live /\ editCount < MaxEdits
    /\ token' = [token EXCEPT ![t].live = FALSE]
    /\ editCount' = editCount + 1
    /\ UNCHANGED <<userQuota, statVars, pc, callVars, edit, topUpCount, faultCount,
                   funded, returned, overrun, edited, manualOff>>

\* The operator deletes the channel.
DeleteChannel ==
    /\ channelLive
    /\ channelLive' = FALSE
    /\ UNCHANGED <<userQuota, token, userUsed, requestCount, channelUsed, pc,
                   callVars, envVars, overrun>>

\* A payment or redemption adds to the user's quota.
TopUp ==
    /\ topUpCount < MaxTopUps
    /\ topUpCount' = topUpCount + 1
    /\ \E a \in TopUps : /\ userQuota' = userQuota + a
                         /\ funded' = funded + a
    /\ UNCHANGED <<token, statVars, pc, callVars, edit, editCount, faultCount,
                   returned, overrun, edited, manualOff>>

\* Every request of the instance has ended.
Done ==
    /\ \A c \in Calls : pc[c] \in Final
    /\ UNCHANGED vars

CallStep(c) ==
    \/ AuthRead(c) \/ AuthDecide(c)
    \/ ReserveRead(c) \/ ReserveCommit(c) \/ ReserveRefused(c)
    \/ UpstreamAnswers(c) \/ UpstreamFails(c)
    \/ Settle(c) \/ SettleRollsBack(c)
    \/ Refund(c) \/ RefundFindsNoToken(c)

Next ==
    \/ \E c \in Calls : CallStep(c) \/ Retry(c) \/ DatabaseFault(c)
    \/ \E t \in Tokens : Expire(t) \/ EditRead(t) \/ OtherReturns(t) \/ DeleteToken(t)
    \/ EditStatus \/ EditFields \/ DeleteChannel \/ TopUp \/ Crash \/ Done

Spec == Init /\ [][Next]_vars

\* A goroutine serving a request keeps running, and the upstream call ends
\* (answer, error or the client's timeout); owners, retries and faults need not.
FairSpec == Spec /\ \A c \in Calls : WF_vars(CallStep(c))

-----------------------------------------------------------------------------
TypeOK ==
    /\ userQuota \in Int /\ userUsed \in Nat /\ requestCount \in Nat
    /\ token \in [Tokens -> TokenRow]
    /\ channelUsed \in Nat /\ channelLive \in BOOLEAN
    /\ pc \in [Calls -> Before \cup InFlight \cup Final]
    /\ snap \in [Calls -> TokenRow]
    /\ reserved \in [Calls -> Nat]
    /\ cost \in [Calls -> Nat]
    /\ retryable \in [Calls -> BOOLEAN]
    /\ attempts \in [Calls -> Nat]
    /\ edit \in [phase : {"none", "read"}, tok : Tokens, row : TokenRow]
    /\ editCount \in Nat /\ topUpCount \in Nat /\ faultCount \in Nat
    /\ funded \in Nat /\ returned \in Nat /\ overrun \in Nat
    /\ edited \subseteq Tokens /\ manualOff \subseteq Tokens

\* Concurrent reservations cannot spend the same quota twice: the user's quota
\* goes below zero only by what calls cost beyond their reservation
\* (relay-quota.go:14, the conditional UPDATE).
NoOverdraft == userQuota >= -overrun

\* The same for a limited token nobody edited, so that a rich user cannot
\* bypass the limit of one token (systemone.go:149).
TokenNoOverdraft ==
    \A t \in Tokens : t \notin edited => token[t].remain >= -overrun

\* The users and tokens tables tell the same story after every transaction,
\* whatever was rolled back, edited or deleted in between: what left the
\* user's quota is what the tokens' used_quota says was used.
TablesAgree ==
    userQuota + SumFunction([t \in Tokens |-> token[t].used]) = funded

\* Out of service for want of quota, with quota on it.
Stranded(row) == row.status = "exhausted" /\ (row.remain > 0 \/ row.unlimited)

\* Billing strands no token: the race between a validation that read an empty
\* row and a refund that filled it is decided for the refund
\* (relay-quota.go:58, token.go:137), and the full form of an edit enables what
\* it fills.  Only the owner's own status switch, which stores any status, and
\* a return of the other billing, which fills the row and leaves its status,
\* make a token exhausted while it has quota.
OnlyOwnerStrands ==
    [][\A t \in Tokens : Stranded(token[t])' /\ ~Stranded(token[t]) =>
          (EditStatus /\ edit.tok = t) \/ OtherReturns(t)]_vars

\* Only an edit by the owner enables a token that was not merely exhausted:
\* a refund or a settlement never revives a disabled or expired one
\* (relay-quota.go:57).
OnlyOwnerRevives ==
    [][\A t \in Tokens :
         token[t].status \in {"disabled", "expired"} /\ token'[t].status = "enabled"
           => edit.phase = "read" /\ edit.tok = t]_vars

\* What call c took and has neither settled nor given back: its reservation,
\* which a crash, a failed refund or a deleted token leaves taken for good.
Outstanding(c) == IF pc[c] \in InFlight \cup {"leaked"} THEN reserved[c] ELSE 0

\* Every quota the tokens say was used is explained, whatever edits, faults and
\* deletions come between a reservation and its end: it is in the user's and
\* in the channel's used_quota, or it is the reservation of a call that has
\* not ended or was lost (systemone.go:163, relay-quota.go:69).
UsageExplained ==
    /\ SumFunction([t \in Tokens |-> token[t].used]) + returned
         = userUsed + SumFunction([c \in Calls |-> Outstanding(c)])
    /\ channelUsed = userUsed

\* A token its owner switched off is not taken for one the system switched
\* off, so that an edit of its quota or expiry does not enable it
\* (controller/token.go:313).
\* It does not hold: README, section 6.
ManualDisableHolds ==
    \A t \in manualOff : token[t].live => token[t].status # "enabled"

\* A reservation is always resolved, one way or another.
ReservationsEnd ==
    \A c \in Calls : pc[c] \in InFlight ~> pc[c] \notin InFlight

-----------------------------------------------------------------------------
(* Every call takes quota as QuotaLedger says.                             *)

AccountOf(c) ==
    CASE pc[c] \in InFlight -> [state |-> "held", amount |-> reserved[c]]
      [] pc[c] = "settled"  -> [state |-> "charged", amount |-> cost[c]]
      [] pc[c] = "refunded" -> [state |-> "released", amount |-> 0]
      [] pc[c] = "leaked"   -> [state |-> "lost", amount |-> reserved[c]]
      [] OTHER -> [state |-> "none", amount |-> 0]

Ledger == INSTANCE QuotaLedger WITH
            Amounts <- Reservations \cup Costs \cup TopUps \cup Returns,
            balance <- userQuota,
            account <- [c \in Calls |-> AccountOf(c)]

\* RelayQuota implements the ledger: holds are granted only out of what is
\* there, and each ends once, in a charge, a release or a loss.
ImplementsLedger == Ledger!LedgerSpec
=============================================================================
