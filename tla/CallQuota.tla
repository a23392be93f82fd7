------------------------------- MODULE CallQuota -------------------------------
(***************************************************************************)
(* Quota of the calls that are not billed in one transaction: chat, image  *)
(* and audio calls hold an estimate and settle or return it, the native    *)
(* protocols (Claude, Gemini, Responses) only compare it and pay at the    *)
(* end (relay/controller, relay/util).  All go over two rows they change   *)
(* one after the other (model/token.go, model/user.go), the user's quota   *)
(* in Redis (model/cache.go) and the batch updater (model/utils.go).       *)
(*                                                                         *)
(* One user with one token, served by one process.  A call here is one     *)
(* attempt: a retry on another channel is another call.                    *)
(***************************************************************************)
EXTENDS Integers, FiniteSets, Functions

CONSTANTS
    Calls,
    Setups,     \* configuration, the token's unlimited_quota, kinds of the calls
    Estimates,  \* what a call can be estimated at
    Costs,      \* what a call can turn out to cost
    Balance,    \* users.quota at the start
    Allowance,  \* tokens.remain_quota at the start
    Threshold,  \* config.PreConsumedQuota
    Trust,      \* a user with more than so many estimates is trusted (100)
    NoKey,      \* user_quota:<id> is not in Redis
    MaxFaults   \* bound: database faults and crashes

Kinds == {"chat", "image", "gemini", "audio", "stream", "native"}

ASSUME CallQuotaAssumption ==
    /\ IsFiniteSet(Calls)
    /\ Setups \subseteq [batch : BOOLEAN, redis : BOOLEAN, unlimited : BOOLEAN,
                         kind : [Calls -> Kinds]]
    /\ Estimates \subseteq Nat /\ Costs \subseteq Nat
    /\ Balance \in Nat /\ Allowance \in Nat
    /\ Threshold \in Nat /\ Trust \in Nat
    /\ NoKey \notin Int
    /\ MaxFaults \in Nat

Accounts == {"user", "token"}
Initial == [a \in Accounts |-> IF a = "user" THEN Balance ELSE Allowance]

VARIABLES
    batch, redis, unlimited,    \* configuration, and the token's unlimited_quota
    kind,       \* what a call asks for: "gemini" is an image from Gemini, "stream"
                \* a speech or a transcription answered as a stream of events
    row,        \* users.quota and tokens.remain_quota
    deleted,    \* the token's row is gone
    store,      \* batchUpdateStores: changes not written yet
    flushing,   \* the store the batch updater has taken out and is writing
    flush,      \* progress of batchUpdate
    cache, timed,   \* user_quota:<id> in Redis, and whether it has a TTL
    at,         \* how far the handler of a call is
    settle,     \* how far the charge of its cost is
    back,       \* how far the return of its hold is
    seen,       \* the quota it read, while it needs it
    pre, cost,  \* preConsumedQuota; quota: the estimate, then that of the usage
    outcome,    \* how it ended
    taken,      \* history: what the call took from an account, net
    hit,        \* history: calls under way when their token was deleted, the process
                \* stopped or a statement of theirs failed
    faults      \* bounded counter

configVars == <<batch, redis, unlimited, kind>>
cacheVars == <<cache, timed>>
flushVars == <<flushing, flush>>
faultVars == <<hit, faults>>
moneyVars == <<row, store, taken>>
taskVars == <<settle, back>>
callVars == <<at, taskVars, seen, pre, cost, outcome>>
sharedVars == <<configVars, deleted, flushVars>>
vars == <<configVars, moneyVars, deleted, flushVars, cacheVars, callVars, faultVars>>

-----------------------------------------------------------------------------
Init ==
    /\ \E s \in Setups : /\ batch = s.batch /\ redis = s.redis
                         /\ unlimited = s.unlimited /\ kind = s.kind
    /\ row = Initial /\ deleted = FALSE
    /\ store = [a \in Accounts |-> 0]
    /\ flushing = [a \in Accounts |-> 0] /\ flush = "asleep"
    /\ cache = NoKey /\ timed = FALSE
    /\ at = [c \in Calls |-> "new"]
    /\ settle = [c \in Calls |-> "idle"] /\ back = [c \in Calls |-> "idle"]
    /\ seen = [c \in Calls |-> 0]
    /\ pre = [c \in Calls |-> 0] /\ cost = [c \in Calls |-> 0]
    /\ outcome = [c \in Calls |-> "none"]
    /\ taken = [ca \in Calls \X Accounts |-> 0]
    /\ hit = {} /\ faults = 0

Go(c, where) == at' = [at EXCEPT ![c] = where]

End(c, how) ==
    /\ at' = [at EXCEPT ![c] = "ended"]
    /\ outcome' = [outcome EXCEPT ![c] = how]

\* DecreaseUserQuota and DecreaseTokenQuota, or their increasing twins for a
\* negative n: at once, or as a record for the batch updater.  A token that is
\* gone has no row to change.
Take(c, a, n) ==
    IF a = "token" /\ deleted
    THEN UNCHANGED moneyVars
    ELSE /\ taken' = [taken EXCEPT ![<<c, a>>] = @ + n]
         /\ IF batch THEN store' = [store EXCEPT ![a] = @ - n] /\ UNCHANGED row
                     ELSE row' = [row EXCEPT ![a] = @ - n] /\ UNCHANGED store

\* What was read is not used again.
Forget(c) == seen' = [seen EXCEPT ![c] = 0]

Fault(calls) == faults < MaxFaults /\ faults' = faults + 1 /\ hit' = hit \cup calls

\* The handler has ended and has left no goroutine.
Ended(c) == at[c] = "ended" /\ settle[c] \in {"idle", "done"} /\ back[c] \in {"idle", "done"}

-----------------------------------------------------------------------------
(* Before the upstream: preConsumeQuota, preConsumeImageQuota.             *)

CacheHit == cache # NoKey /\ cache > Threshold

\* CacheGetUserQuota: a cached quota, unless it is too low to be believed.
ReadQuota(c) ==
    /\ at[c] = "new"
    /\ IF redis /\ ~CacheHit
       THEN Go(c, "fetching") /\ UNCHANGED seen
       ELSE /\ seen' = [seen EXCEPT ![c] = IF redis THEN cache ELSE row["user"]]
            /\ Go(c, "deciding")
    /\ UNCHANGED <<sharedVars, moneyVars, cacheVars, taskVars, pre, cost, outcome, faultVars>>

\* fetchAndUpdateUserQuota: the row, which knows nothing of records not
\* written yet, and then Redis.
Fetch(c) ==
    /\ at[c] = "fetching"
    /\ seen' = [seen EXCEPT ![c] = row["user"]]
    /\ Go(c, "caching")
    /\ UNCHANGED <<sharedVars, moneyVars, cacheVars, taskVars, pre, cost, outcome, faultVars>>

CacheSeen(c) == cache' = seen[c] /\ timed' = TRUE

StoreFetched(c) ==
    /\ at[c] = "caching"
    /\ CacheSeen(c)
    /\ Go(c, "deciding")
    /\ UNCHANGED <<sharedVars, moneyVars, taskVars, seen, pre, cost, outcome, faultVars>>

Refuse(c) ==
    /\ at[c] = "deciding" /\ \E e \in Estimates : seen[c] < e
    /\ End(c, "refused")
    /\ Forget(c)
    /\ UNCHANGED <<sharedVars, moneyVars, cacheVars, taskVars, pre, cost, faultVars>>

\* CacheDecreaseUserQuota: DECRBY creates the key it does not find, without TTL.
CacheDecrease(n) ==
    IF redis
    THEN /\ cache' = (IF cache = NoKey THEN 0 ELSE cache) - n
         /\ UNCHANGED timed
    ELSE UNCHANGED cacheVars

\* The whole estimate leaves Redis; a trusted user holds nothing in the rows.
Admit(c) ==
    /\ at[c] = "deciding" /\ kind[c] # "native"
    /\ \E e \in Estimates :
         LET hold == IF seen[c] > Trust * e THEN 0 ELSE e IN
         /\ seen[c] >= e
         /\ CacheDecrease(e)
         /\ pre' = [pre EXCEPT ![c] = hold]
         /\ cost' = [cost EXCEPT ![c] = e]
         /\ Go(c, IF hold > 0 THEN "token" ELSE "upstream")
    /\ Forget(c)
    /\ UNCHANGED <<sharedVars, moneyVars, taskVars, outcome, faultVars>>

\* A call of a native protocol takes nothing, neither from Redis nor from the
\* rows.
AdmitUnheld(c) ==
    /\ at[c] = "deciding" /\ kind[c] = "native"
    /\ \E e \in Estimates : seen[c] >= e
    /\ Go(c, "upstream")
    /\ Forget(c)
    /\ UNCHANGED <<sharedVars, moneyVars, cacheVars, taskVars, pre, cost, outcome, faultVars>>

\* PreConsumeTokenQuota: both rows are checked before either is changed.
CheckToken(c) ==
    /\ at[c] = "token"
    /\ IF deleted \/ (~unlimited /\ row["token"] < pre[c])
       THEN End(c, "refused")
       ELSE Go(c, "user") /\ UNCHANGED outcome
    /\ UNCHANGED <<sharedVars, moneyVars, cacheVars, taskVars, seen, pre, cost, faultVars>>

CheckUser(c) ==
    /\ at[c] = "user"
    /\ IF row["user"] < pre[c]
       THEN End(c, "refused")
       ELSE Go(c, "takingToken") /\ UNCHANGED outcome
    /\ UNCHANGED <<sharedVars, moneyVars, cacheVars, taskVars, seen, pre, cost, faultVars>>

TakeToken(c) ==
    /\ at[c] = "takingToken"
    /\ Take(c, "token", pre[c])
    /\ Go(c, "takingUser")
    /\ UNCHANGED <<sharedVars, cacheVars, taskVars, seen, pre, cost, outcome, faultVars>>

TakeUser(c) ==
    /\ at[c] = "takingUser"
    /\ Take(c, "user", pre[c])
    /\ Go(c, "upstream")
    /\ UNCHANGED <<sharedVars, cacheVars, taskVars, seen, pre, cost, outcome, faultVars>>

\* A statement or a mail to the user fails: the call ends with its error, and
\* what it has taken stays taken.
PreConsumeFails(c) ==
    /\ \/ at[c] \in {"fetching", "token", "user"}
       \/ at[c] \in {"takingToken", "takingUser"} /\ ~batch
    /\ Fault({c})
    /\ End(c, "refused")
    /\ UNCHANGED <<sharedVars, moneyVars, cacheVars, taskVars, seen, pre, cost>>

-----------------------------------------------------------------------------
(* The upstream answers.                                                   *)

\* The handler ends, and may leave goroutines that charge the cost or return
\* the hold.
Finish(c, how) ==
    /\ at[c] = "upstream"
    /\ End(c, how)
    /\ UNCHANGED <<sharedVars, moneyVars, cacheVars, seen, pre, faultVars>>

Charge(c, q) == settle' = [settle EXCEPT ![c] = "find"] /\ cost' = [cost EXCEPT ![c] = q]

GiveBack(c) == back' = [back EXCEPT ![c] = IF pre[c] # 0 THEN "find" ELSE "done"]

\* A chat request that cannot be built or sent, or whose answer has no usage;
\* an image from Gemini whose request cannot be built, or asked for under a
\* name that is mapped to a Gemini model and does not start with "gemini": the
\* handler returns, and the hold is neither returned nor settled.
Cut(c) ==
    /\ kind[c] \in {"chat", "gemini"}
    /\ Finish(c, "cut")
    /\ UNCHANGED <<taskVars, cost>>

\* The upstream answers with an error: a goroutine returns the hold, if any.
Fail(c) ==
    /\ Finish(c, "failed")
    /\ GiveBack(c)
    /\ UNCHANGED <<settle, cost>>

\* What the answer shows the call to cost; a picture without usage, and speech,
\* cost the estimate.
Usage(c) == Costs \cup (IF kind[c] \in {"image", "audio", "stream"} THEN {cost[c]} ELSE {})

Succeed(c) ==
    /\ kind[c] # "stream"
    /\ Finish(c, "served")
    /\ \E q \in Usage(c) : Charge(c, q)
    /\ UNCHANGED back

\* handleTTSStreamResponse, handleAudioStreamResponse: the whole cost is charged
\* (nothing, for a transcription without usage), and since `succeed' is never
\* set the deferred function of RelayAudioHelper rolls the hold back.
StreamEnds(c) ==
    /\ kind[c] = "stream"
    /\ Finish(c, "served")
    /\ \E q \in Usage(c) : Charge(c, q)
    /\ GiveBack(c)

\* The answer is no picture (blocked, no candidate, not to be parsed): the call
\* answers with an error and is charged.
Spoil(c) ==
    /\ kind[c] \in {"image", "gemini"}
    /\ Finish(c, "spoiled")
    /\ \E q \in (IF kind[c] = "image" THEN {cost[c]} ELSE Costs) : Charge(c, q)
    /\ UNCHANGED back

\* The body of a good answer cannot be read to its end: the hold is returned,
\* and the deferred settlement charges the estimate all the same.
Misread(c) ==
    /\ kind[c] = "image"
    /\ Finish(c, "misread")
    /\ Charge(c, cost[c])
    /\ GiveBack(c)

-----------------------------------------------------------------------------
(* The goroutine, or deferred function, that charges the cost.             *)

\* Mutant: the hold is not taken off the cost.
DeltaWhole(c) == cost[c]

\* What PostConsumeTokenQuota is called with.
Delta(c) == IF kind[c] = "stream" THEN cost[c] ELSE cost[c] - pre[c]

\* After the rows Redis is refreshed, except for a stream.
AfterSettling(c) == IF redis /\ kind[c] # "stream" THEN "reading" ELSE "done"

Settling(c, from, to) == settle[c] = from /\ settle' = [settle EXCEPT ![c] = to]

\* PostConsumeTokenQuota: a token not found is not noticed, and the changes
\* that follow find neither its row nor its user's.
FindToken(c) ==
    /\ Settling(c, "find", IF deleted THEN AfterSettling(c) ELSE "user")
    /\ UNCHANGED <<sharedVars, moneyVars, cacheVars, at, back, seen, pre, cost, outcome, faultVars>>

SettleUser(c) ==
    /\ Settling(c, "user", "token")
    /\ Take(c, "user", Delta(c))
    /\ UNCHANGED <<sharedVars, cacheVars, at, back, seen, pre, cost, outcome, faultVars>>

SettleToken(c) ==
    /\ Settling(c, "token", AfterSettling(c))
    /\ Take(c, "token", Delta(c))
    /\ UNCHANGED <<sharedVars, cacheVars, at, back, seen, pre, cost, outcome, faultVars>>

\* One of the two statements fails; the error is only logged.
SettleFails(c) ==
    /\ ~batch /\ \E from \in {"user", "token"} : Settling(c, from, AfterSettling(c))
    /\ Fault({c})
    /\ UNCHANGED <<sharedVars, moneyVars, cacheVars, at, back, seen, pre, cost, outcome>>

\* CacheUpdateUserQuota: reads as every call does, and writes what it read.
Refresh(c) ==
    /\ Settling(c, "reading", "writing")
    /\ seen' = [seen EXCEPT ![c] = IF CacheHit THEN cache ELSE row["user"]]
    /\ UNCHANGED <<sharedVars, moneyVars, cacheVars, at, back, pre, cost, outcome, faultVars>>

StoreRefreshed(c) ==
    /\ Settling(c, "writing", "done")
    /\ CacheSeen(c)
    /\ Forget(c)
    /\ UNCHANGED <<sharedVars, moneyVars, at, back, pre, cost, outcome, faultVars>>

-----------------------------------------------------------------------------
(* The goroutine that returns the hold: ReturnPreConsumedQuota, and the     *)
(* roll-back of RelayAudioHelper, which increases the user's quota in      *)
(* PostConsumeTokenQuota and then once more.                               *)

AfterReturn(c) == IF kind[c] \in {"audio", "stream"} THEN "again" ELSE "done"

Returning(c, from, to) == back[c] = from /\ back' = [back EXCEPT ![c] = to]

ReturnFinds(c) ==
    /\ Returning(c, "find", IF deleted THEN AfterReturn(c) ELSE "user")
    /\ UNCHANGED <<sharedVars, moneyVars, cacheVars, at, settle, seen, pre, cost, outcome, faultVars>>

ReturnUser(c) ==
    /\ Returning(c, "user", "token")
    /\ Take(c, "user", -pre[c])
    /\ UNCHANGED <<sharedVars, cacheVars, at, settle, seen, pre, cost, outcome, faultVars>>

ReturnToken(c) ==
    /\ Returning(c, "token", AfterReturn(c))
    /\ Take(c, "token", -pre[c])
    /\ UNCHANGED <<sharedVars, cacheVars, at, settle, seen, pre, cost, outcome, faultVars>>

ReturnAgain(c) ==
    /\ Returning(c, "again", "done")
    /\ Take(c, "user", -pre[c])
    /\ UNCHANGED <<sharedVars, cacheVars, at, settle, seen, pre, cost, outcome, faultVars>>

ReturnFails(c) ==
    /\ ~batch
    /\ \/ \E from \in {"user", "token"} : Returning(c, from, AfterReturn(c))
       \/ Returning(c, "again", "done")
    /\ Fault({c})
    /\ UNCHANGED <<sharedVars, moneyVars, cacheVars, at, settle, seen, pre, cost, outcome>>

-----------------------------------------------------------------------------
(* The batch updater: the store of the users, then the store of the tokens. *)

\* Mutant: the store is not replaced by an empty one.
SwapOutOnly(a) == flushing' = [flushing EXCEPT ![a] = store[a]] /\ UNCHANGED store

\* The store is taken out and an empty one put in its place, under its lock.
SwapOut(a) ==
    /\ flushing' = [flushing EXCEPT ![a] = store[a]]
    /\ store' = [store EXCEPT ![a] = 0]

Before == [user |-> "asleep", token |-> "userDone"]

\* Mutant: the loop ends one type early.
AfterOneType == [user |-> "asleep", token |-> "asleep"]

After == [user |-> "userDone", token |-> "asleep"]

Swap(a) ==
    /\ batch /\ flush = Before[a]
    /\ a = "user" => \E b \in Accounts : store[b] # 0
    /\ SwapOut(a)
    /\ flush' = a
    /\ UNCHANGED <<configVars, row, taken, deleted, cacheVars, callVars, faultVars>>

\* The records reach the row, unless it is gone.
Write(a) ==
    /\ flush = a /\ flush' = After[a]
    /\ row' = IF a = "token" /\ deleted THEN row
                                        ELSE [row EXCEPT ![a] = @ + flushing[a]]
    /\ flushing' = [flushing EXCEPT ![a] = 0]
    /\ UNCHANGED <<configVars, store, taken, deleted, cacheVars, callVars, faultVars>>

\* The statement fails: the records are lost.
WriteFails(a) ==
    /\ flush = a /\ flush' = After[a]
    /\ Fault({})
    /\ flushing' = [flushing EXCEPT ![a] = 0]
    /\ UNCHANGED <<configVars, moneyVars, deleted, cacheVars, callVars>>

-----------------------------------------------------------------------------
(* Redis, the owner, the process.                                          *)

CacheExpires ==
    /\ cache # NoKey /\ timed
    /\ cache' = NoKey /\ timed' = FALSE
    /\ UNCHANGED <<configVars, moneyVars, deleted, flushVars, callVars, faultVars>>

DeleteToken ==
    /\ ~deleted
    /\ deleted' = TRUE
    /\ hit' = hit \cup {c \in Calls : ~Ended(c)}
    /\ UNCHANGED <<configVars, moneyVars, flushVars, cacheVars, callVars, faults>>

\* The process stops, with its calls and its unwritten records.
Crash ==
    /\ Fault({c \in Calls : at[c] # "new" /\ ~Ended(c)})
    /\ store' = [a \in Accounts |-> 0]
    /\ flushing' = [a \in Accounts |-> 0] /\ flush' = "asleep"
    /\ at' = [c \in Calls |-> IF at[c] = "new" THEN "new" ELSE "ended"]
    /\ outcome' = [c \in Calls |-> IF at[c] \in {"new", "ended"} THEN outcome[c] ELSE "cut"]
    /\ settle' = [c \in Calls |-> IF settle[c] = "done" THEN "done" ELSE "idle"]
    /\ back' = [c \in Calls |-> IF back[c] = "done" THEN "done" ELSE "idle"]
    /\ seen' = [c \in Calls |-> 0]
    /\ UNCHANGED <<configVars, row, taken, deleted, cacheVars, pre, cost>>

\* The steps of a call that do not wait for the upstream.
HandlerStep(c) ==
    \/ ReadQuota(c) \/ Fetch(c) \/ StoreFetched(c) \/ Refuse(c) \/ Admit(c) \/ AdmitUnheld(c)
    \/ CheckToken(c) \/ CheckUser(c) \/ TakeToken(c) \/ TakeUser(c)

SettleStep(c) ==
    FindToken(c) \/ SettleUser(c) \/ SettleToken(c) \/ Refresh(c) \/ StoreRefreshed(c)

ReturnStep(c) == ReturnFinds(c) \/ ReturnUser(c) \/ ReturnToken(c) \/ ReturnAgain(c)

UpstreamStep(c) == Cut(c) \/ Fail(c) \/ Succeed(c) \/ StreamEnds(c) \/ Spoil(c) \/ Misread(c)

CallFault(c) == PreConsumeFails(c) \/ SettleFails(c) \/ ReturnFails(c)

BatchStep == \E a \in Accounts : Swap(a) \/ Write(a)

Done == (\A c \in Calls : Ended(c)) /\ UNCHANGED vars

Next ==
    \/ \E c \in Calls : \/ HandlerStep(c) \/ UpstreamStep(c)
                        \/ SettleStep(c) \/ ReturnStep(c) \/ CallFault(c)
    \/ BatchStep \/ \E a \in Accounts : WriteFails(a)
    \/ CacheExpires \/ DeleteToken \/ Crash \/ Done

Spec == Init /\ [][Next]_vars

\* Handlers and goroutines run on, the updater wakes up every few seconds.
\* Nothing is assumed of the upstream.
FairSpec ==
    /\ Spec
    /\ WF_vars(BatchStep)
    /\ \A c \in Calls : WF_vars(HandlerStep(c)) /\ WF_vars(SettleStep(c)) /\ WF_vars(ReturnStep(c))

-----------------------------------------------------------------------------
TypeOK ==
    /\ batch \in BOOLEAN /\ redis \in BOOLEAN /\ unlimited \in BOOLEAN
    /\ kind \in [Calls -> Kinds]
    /\ row \in [Accounts -> Int]
    /\ store \in [Accounts -> IF batch THEN Int ELSE {0}]
    /\ flushing \in [Accounts -> Int]
    /\ flush \in {"asleep", "userDone"} \cup Accounts
    /\ cache \in (IF redis THEN Int ELSE {}) \cup {NoKey}
    /\ deleted \in BOOLEAN /\ timed \in BOOLEAN
    /\ at \in [Calls -> {"new", "fetching", "caching", "deciding", "token", "user",
                         "takingToken", "takingUser", "upstream", "ended"}]
    /\ settle \in [Calls -> {"idle", "find", "user", "token", "reading", "writing", "done"}]
    /\ back \in [Calls -> {"idle", "find", "user", "token", "again", "done"}]
    /\ pre \in [Calls -> Nat] /\ cost \in [Calls -> Nat]
    /\ seen \in [Calls -> Int]
    /\ outcome \in [Calls -> {"none", "refused", "cut", "failed", "served", "spoiled", "misread"}]
    /\ taken \in [Calls \X Accounts -> Int]
    /\ hit \subseteq Calls /\ faults \in 0..MaxFaults

TakenFrom(a) == SumFunction([c \in Calls |-> taken[<<c, a>>]])

\* No unit of quota is lost or made between the goroutines of the calls, the
\* records of the batch updater and the rows: what is missing in a row is what
\* the calls have taken (model/utils.go:41).
Balanced ==
    faults = 0 => \A a \in Accounts : (a = "token" => ~deleted) =>
        row[a] + store[a] + flushing[a] + TakenFrom(a) = Initial[a]

\* What a call may have to pay when it has ended.
Prices(c) ==
    CASE outcome[c] \in {"served", "spoiled"} -> {cost[c]}
      [] outcome[c] = "misread" -> {0, cost[c] - pre[c], cost[c]}
      [] outcome[c] = "cut" -> {0, pre[c]}
      [] OTHER -> {0}

\* The calls whose hold the deferred function of RelayAudioHelper rolls back.
RolledBack(c) == kind[c] = "stream" \/ (kind[c] = "audio" /\ outcome[c] = "failed")

\* When a call and its goroutines have ended it has taken the same from the user
\* and from the token: its cost when it was served, nothing when it was refused
\* or failed, also for a trusted user who held nothing, whatever befalls the
\* other calls, the records and Redis; unless its token was deleted, the process
\* stopped or one of its statements failed on its way.  A call cut off between
\* hold and answer pays no more than its hold, which it keeps (text.go:117,
\* image.go:3857); a picture that was blocked or cannot be parsed is paid for
\* (image.go:1585), and one that cannot be read may be (image.go:1423).  A
\* roll-back costs the user nothing more; that it gives too much is left to
\* RollbackRestores.
ChargedExactly ==
    \A c \in Calls : Ended(c) /\ c \notin hit =>
        /\ taken[<<c, "token">>] \in Prices(c)
        /\ IF RolledBack(c) THEN taken[<<c, "user">>] <= taken[<<c, "token">>]
                            ELSE taken[<<c, "user">>] = taken[<<c, "token">>]

\* In the end the rows show what the calls have taken, whoever wrote it.
RowsSettle ==
    <>[](faults > 0 \/ \A a \in Accounts : (a = "token" => ~deleted) =>
            row[a] = Initial[a] - TakenFrom(a))

-----------------------------------------------------------------------------
(* What a comment of the code says and the code does not do.               *)

\* "Roll back the pre-consumed quota" (audio.go:194): a failed audio call has
\* taken nothing from its user.  It has given: PostConsumeTokenQuota returns the
\* hold to user and token, and IncreaseUserQuota to the user again.
RollbackRestores ==
    \A c \in Calls :
        Ended(c) /\ c \notin hit /\ kind[c] = "audio" /\ outcome[c] = "failed" => taken[<<c, "user">>] = 0
=============================================================================
