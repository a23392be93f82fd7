---------------------------- MODULE CallQuotaProofs ----------------------------
(* Theorems about CallQuota, for any calls, amounts and configurations. *)
EXTENDS CallQuota, Sums

Places == {"new", "fetching", "caching", "deciding", "token", "user", "takingToken",
           "takingUser", "upstream", "ended"}
Settlings == {"idle", "find", "user", "token", "reading", "writing", "done"}
Returnings == {"idle", "find", "user", "token", "again", "done"}
Outcomes == {"none", "refused", "cut", "failed", "served", "spoiled", "misread"}

\* TypeOK in three parts: the flags, the amounts, the calls.
FlagsOK ==
    /\ batch \in BOOLEAN /\ redis \in BOOLEAN /\ unlimited \in BOOLEAN
    /\ kind \in [Calls -> Kinds]
    /\ deleted \in BOOLEAN /\ timed \in BOOLEAN

AmountsOK ==
    /\ row \in [Accounts -> Int]
    /\ store \in [Accounts -> IF batch THEN Int ELSE {0}]
    /\ flushing \in [Accounts -> Int]
    /\ flush \in {"asleep", "userDone"} \cup Accounts
    /\ cache \in (IF redis THEN Int ELSE {}) \cup {NoKey}
    /\ taken \in [Calls \X Accounts -> Int]
    /\ hit \subseteq Calls /\ faults \in 0..MaxFaults

CallsOK ==
    /\ at \in [Calls -> Places]
    /\ settle \in [Calls -> Settlings] /\ back \in [Calls -> Returnings]
    /\ pre \in [Calls -> Nat] /\ cost \in [Calls -> Nat]
    /\ seen \in [Calls -> Int]
    /\ outcome \in [Calls -> Outcomes]

\* Which goroutines a call leaves behind, by how it ends.
Shape(c) ==
    /\ at[c] # "ended" => outcome[c] = "none" /\ settle[c] = "idle" /\ back[c] = "idle"
    /\ at[c] \in {"new", "fetching", "caching", "deciding"} => pre[c] = 0
    /\ at[c] = "ended" => outcome[c] # "none"
    /\ outcome[c] \in {"refused", "cut"} => settle[c] = "idle" /\ back[c] = "idle"
    /\ outcome[c] = "failed" => settle[c] = "idle" /\ back[c] # "idle"
    /\ outcome[c] = "served" => settle[c] # "idle" /\ (back[c] = "idle" <=> kind[c] # "stream")
    /\ outcome[c] = "spoiled" =>
         settle[c] # "idle" /\ back[c] = "idle" /\ kind[c] \in {"image", "gemini"}
    /\ outcome[c] = "misread" => settle[c] # "idle" /\ back[c] # "idle" /\ kind[c] = "image"
    /\ back[c] = "again" => kind[c] \in {"audio", "stream"}

\* What a call has taken at every point of its way: its hold, first from the
\* token and then from the user, and what its goroutines have charged and
\* returned, first for the user and then for the token.
HeldUser(c) ==
    IF at[c] = "upstream" \/ (at[c] = "ended" /\ outcome[c] # "refused") THEN pre[c] ELSE 0

HeldToken(c) == IF at[c] = "takingUser" THEN pre[c] ELSE HeldUser(c)

PaidUser(c) == IF settle[c] \in {"token", "reading", "writing", "done"} THEN Delta(c) ELSE 0

PaidToken(c) == IF settle[c] \in {"reading", "writing", "done"} THEN Delta(c) ELSE 0

BackUser(c) ==
    IF back[c] \in {"token", "again"} THEN pre[c]
    ELSE IF back[c] # "done" THEN 0
    ELSE IF kind[c] \in {"audio", "stream"} THEN pre[c] + pre[c] ELSE pre[c]

BackToken(c) == IF back[c] \in {"again", "done"} THEN pre[c] ELSE 0

TakenSoFar(c) ==
    /\ taken[<<c, "user">>] = HeldUser(c) + PaidUser(c) - BackUser(c)
    /\ taken[<<c, "token">>] = HeldToken(c) + PaidToken(c) - BackToken(c)

\* What is known of a call that no fault has hit: among other things that it had
\* ended before the token was deleted.
Sound(c) == Shape(c) /\ TakenSoFar(c) /\ (deleted => Ended(c))

MoneyInv == \A c \in Calls : c \notin hit => Sound(c)

IInv == FlagsOK /\ AmountsOK /\ CallsOK /\ MoneyInv

\* The parts make up TypeOK.
LEMMA Parts == TypeOK <=> FlagsOK /\ AmountsOK /\ CallsOK
<1>1. TypeOK => FlagsOK  BY Zenon DEF TypeOK, FlagsOK
<1>2. TypeOK => AmountsOK  BY Zenon DEF TypeOK, AmountsOK
<1>3. TypeOK => CallsOK  BY Zenon DEF TypeOK, CallsOK, Places, Settlings, Returnings, Outcomes
<1>4. FlagsOK /\ AmountsOK /\ CallsOK => TypeOK
  BY Zenon DEF TypeOK, FlagsOK, AmountsOK, CallsOK, Places, Settlings, Returnings, Outcomes
<1> QED  BY <1>1, <1>2, <1>3, <1>4

LEMMA IInvInit == Init => IInv
<1> SUFFICES ASSUME Init PROVE IInv
  OBVIOUS
<1>0. PICK s \in Setups : /\ batch = s.batch /\ redis = s.redis
                          /\ unlimited = s.unlimited /\ kind = s.kind
  BY DEF Init
<1>1. FlagsOK
  <2>1. s \in [batch : BOOLEAN, redis : BOOLEAN, unlimited : BOOLEAN, kind : [Calls -> Kinds]]
    BY CallQuotaAssumption
  <2>2. /\ s.batch \in BOOLEAN /\ s.redis \in BOOLEAN /\ s.unlimited \in BOOLEAN
        /\ s.kind \in [Calls -> Kinds]
    BY <2>1
  <2> QED  BY <1>0, <2>2, Zenon DEF Init, FlagsOK
<1>2. AmountsOK  BY <1>1, CallQuotaAssumption DEF Init, AmountsOK, Accounts, Initial, FlagsOK
<1>3. CallsOK  BY DEF Init, CallsOK, Places, Settlings, Returnings, Outcomes
<1>4. MoneyInv
  BY DEF Init, MoneyInv, Sound, Shape, TakenSoFar, HeldUser, HeldToken, PaidUser, PaidToken, BackUser,
     BackToken, Accounts
<1> QED  BY <1>1, <1>2, <1>3, <1>4 DEF IInv

-----------------------------------------------------------------------------
(* Types. *)

\* The configuration never changes, and the other flags are set to values.
LEMMA FlagsNext == FlagsOK /\ [Next]_vars => FlagsOK'
<1> SUFFICES ASSUME FlagsOK, [Next]_vars PROVE FlagsOK'
  OBVIOUS
<1> USE DEF FlagsOK, configVars, cacheVars, sharedVars
<1>1. ASSUME NEW c \in Calls, HandlerStep(c) PROVE FlagsOK'
  BY <1>1, Zenon DEF HandlerStep, ReadQuota, Fetch, StoreFetched, CacheSeen, Refuse, Admit,
     AdmitUnheld, CacheDecrease, CheckToken, CheckUser, TakeToken, TakeUser
<1>2. ASSUME NEW c \in Calls, UpstreamStep(c) PROVE FlagsOK'
  BY <1>2, Zenon DEF UpstreamStep, Finish, Cut, Fail, Succeed, StreamEnds, Spoil, Misread
<1>3. ASSUME NEW c \in Calls, SettleStep(c) PROVE FlagsOK'
  BY <1>3, Zenon DEF SettleStep, FindToken, SettleUser, SettleToken, Refresh, StoreRefreshed,
     CacheSeen
<1>4. ASSUME NEW c \in Calls, ReturnStep(c) PROVE FlagsOK'
  BY <1>4, Zenon DEF ReturnStep, ReturnFinds, ReturnUser, ReturnToken, ReturnAgain
<1>5. ASSUME NEW c \in Calls, CallFault(c) PROVE FlagsOK'
  BY <1>5, Zenon DEF CallFault, PreConsumeFails, SettleFails, ReturnFails
<1>6. ASSUME NEW a \in Accounts, Swap(a) \/ Write(a) \/ WriteFails(a) PROVE FlagsOK'
  BY <1>6, Zenon DEF Swap, Write, WriteFails
<1>7. CASE CacheExpires \/ DeleteToken \/ Crash
  BY <1>7, Zenon DEF CacheExpires, DeleteToken, Crash
<1>8. CASE Done \/ UNCHANGED vars
  BY <1>8, Zenon DEF Done, vars
<1> QED
  BY <1>1, <1>2, <1>3, <1>4, <1>5, <1>6, <1>7, <1>8 DEF Next, BatchStep

\* Taking quota changes a row or a record, and the history, by integers.
LEMMA TakeTyped ==
    ASSUME FlagsOK, AmountsOK, UNCHANGED batch, NEW c \in Calls, NEW a \in Accounts,
           NEW n \in Int, Take(c, a, n)
    PROVE  /\ row' \in [Accounts -> Int]
           /\ store' \in [Accounts -> IF batch' THEN Int ELSE {0}]
           /\ taken' \in [Calls \X Accounts -> Int]
<1>1. CASE a = "token" /\ deleted
  BY <1>1 DEF Take, AmountsOK, moneyVars
<1>2. CASE ~(a = "token" /\ deleted)
  <2>1. taken' = [taken EXCEPT ![<<c, a>>] = @ + n]  BY <1>2 DEF Take
  <2>2. taken' \in [Calls \X Accounts -> Int]  BY <2>1 DEF AmountsOK
  <2>3. CASE batch
    BY <1>2, <2>2, <2>3 DEF Take, AmountsOK
  <2>4. CASE ~batch
    BY <1>2, <2>2, <2>4 DEF Take, AmountsOK
  <2> QED  BY <2>3, <2>4
<1> QED  BY <1>1, <1>2

\* The steps that take quota, and how much.
LEMMA TakingTyped ==
    ASSUME FlagsOK, AmountsOK, UNCHANGED <<batch, redis>>,
           UNCHANGED <<flushing, flush, cache, faults, hit>>, NEW c \in Calls, NEW a \in Accounts, NEW n \in Int, Take(c, a, n)
    PROVE  AmountsOK'
<1>1. /\ row' \in [Accounts -> Int]
      /\ store' \in [Accounts -> IF batch' THEN Int ELSE {0}]
      /\ taken' \in [Calls \X Accounts -> Int]
  BY TakeTyped
<1>2. /\ flushing' \in [Accounts -> Int]
      /\ flush' \in {"asleep", "userDone"} \cup Accounts
      /\ hit' \subseteq Calls /\ faults' \in 0..MaxFaults
  BY DEF AmountsOK
<1>3. cache' \in (IF redis THEN Int ELSE {}) \cup {NoKey}  BY DEF AmountsOK
<1> QED  BY <1>1, <1>2, <1>3 DEF AmountsOK

LEMMA AmountsNext == FlagsOK /\ AmountsOK /\ CallsOK /\ [Next]_vars => AmountsOK'
<1> SUFFICES ASSUME FlagsOK, AmountsOK, CallsOK, [Next]_vars PROVE AmountsOK'
  OBVIOUS
<1> USE CallQuotaAssumption DEF configVars, cacheVars, flushVars, faultVars, sharedVars
<1>0. "user" \in Accounts /\ "token" \in Accounts  BY DEF Accounts
<1>1. ASSUME NEW c \in Calls, ReadQuota(c) \/ Fetch(c) \/ Refuse(c) \/ AdmitUnheld(c)
             \/ CheckToken(c) \/ CheckUser(c) \/ FindToken(c) \/ Refresh(c) \/ ReturnFinds(c)
      PROVE AmountsOK'
  BY <1>1 DEF AmountsOK, moneyVars, ReadQuota, Fetch, Refuse, AdmitUnheld, CheckToken, CheckUser,
     FindToken, Refresh, ReturnFinds
<1>2. ASSUME NEW c \in Calls, StoreFetched(c) \/ StoreRefreshed(c) PROVE AmountsOK'
  BY <1>2 DEF AmountsOK, CallsOK, moneyVars, StoreFetched, StoreRefreshed, CacheSeen
<1>3. ASSUME NEW c \in Calls, Admit(c) PROVE AmountsOK'
  BY <1>3 DEF AmountsOK, moneyVars, Admit, CacheDecrease
<1>4. ASSUME NEW c \in Calls, TakeToken(c) \/ TakeUser(c) PROVE AmountsOK'
  <2>1. pre[c] \in Int  BY DEF CallsOK
  <2>2. UNCHANGED <<batch, redis>> /\ UNCHANGED <<flushing, flush, cache, faults, hit>>
    BY <1>4 DEF TakeToken, TakeUser
  <2>3. \E a \in Accounts : Take(c, a, pre[c])  BY <1>0, <1>4 DEF TakeToken, TakeUser
  <2> QED  BY <2>1, <2>2, <2>3, TakingTyped
<1>5. ASSUME NEW c \in Calls, SettleUser(c) \/ SettleToken(c) PROVE AmountsOK'
  <2>1. Delta(c) \in Int  BY DEF CallsOK, Delta
  <2>2. UNCHANGED <<batch, redis>> /\ UNCHANGED <<flushing, flush, cache, faults, hit>>
    BY <1>5 DEF SettleUser, SettleToken
  <2>3. \E a \in Accounts : Take(c, a, Delta(c))  BY <1>0, <1>5 DEF SettleUser, SettleToken
  <2> QED  BY <2>1, <2>2, <2>3, TakingTyped
<1>6. ASSUME NEW c \in Calls, ReturnUser(c) \/ ReturnToken(c) \/ ReturnAgain(c) PROVE AmountsOK'
  <2>1. -pre[c] \in Int  BY DEF CallsOK
  <2>2. UNCHANGED <<batch, redis>> /\ UNCHANGED <<flushing, flush, cache, faults, hit>>
    BY <1>6 DEF ReturnUser, ReturnToken, ReturnAgain
  <2>3. \E a \in Accounts : Take(c, a, -pre[c])
    BY <1>0, <1>6 DEF ReturnUser, ReturnToken, ReturnAgain
  <2> QED  BY <2>1, <2>2, <2>3, TakingTyped
<1>7. ASSUME NEW c \in Calls, UpstreamStep(c) PROVE AmountsOK'
  <2>1. UNCHANGED <<batch, redis, row, store, taken, flushing, flush, cache, faults, hit>>
    BY <1>7 DEF moneyVars, UpstreamStep, Finish, Cut, Fail, Succeed, StreamEnds, Spoil, Misread
  <2> QED  BY <2>1 DEF AmountsOK
<1>8. ASSUME NEW c \in Calls, CallFault(c) PROVE AmountsOK'
  BY <1>8 DEF AmountsOK, moneyVars, CallFault, PreConsumeFails, SettleFails, ReturnFails, Fault
<1>9. ASSUME NEW a \in Accounts, Swap(a) PROVE AmountsOK'
  BY <1>9 DEF AmountsOK, Accounts, Swap, SwapOut
<1>10. ASSUME NEW a \in Accounts, Write(a) PROVE AmountsOK'
  <2>1. row' \in [Accounts -> Int]  BY <1>10 DEF AmountsOK, Write
  <2> QED  BY <1>10, <2>1 DEF AmountsOK, Accounts, Write, After
<1>11. ASSUME NEW a \in Accounts, WriteFails(a) PROVE AmountsOK'
  BY <1>11 DEF AmountsOK, Accounts, moneyVars, WriteFails, Fault, After
<1>12. CASE CacheExpires
  BY <1>12 DEF AmountsOK, moneyVars, CacheExpires
<1>13. CASE DeleteToken
  BY <1>13 DEF AmountsOK, moneyVars, DeleteToken
<1>14. CASE Crash
  BY <1>14 DEF AmountsOK, Accounts, Crash, Fault
<1>15. CASE Done \/ UNCHANGED vars
  BY <1>15 DEF AmountsOK, moneyVars, Done, vars
<1> QED
  BY <1>1, <1>2, <1>3, <1>4, <1>5, <1>6, <1>7, <1>8, <1>9, <1>10, <1>11, <1>12, <1>13, <1>14, <1>15
  DEF Next, HandlerStep, SettleStep, ReturnStep, BatchStep

LEMMA CallsNext == AmountsOK /\ CallsOK /\ FlagsOK /\ [Next]_vars => CallsOK'
<1> SUFFICES ASSUME AmountsOK, CallsOK, FlagsOK, [Next]_vars PROVE CallsOK'
  OBVIOUS
<1> USE CallQuotaAssumption
    DEF CallsOK, Places, Settlings, Returnings, Outcomes, Go, End, Forget, taskVars
<1>0. row["user"] \in Int  BY DEF AmountsOK, Accounts
<1>1. ASSUME NEW c \in Calls, ReadQuota(c) PROVE CallsOK'
  <2>1. redis /\ CacheHit => cache \in Int  BY DEF AmountsOK, CacheHit
  <2> QED  BY <1>0, <1>1, <2>1 DEF ReadQuota
<1>2. ASSUME NEW c \in Calls, Fetch(c) \/ StoreFetched(c) \/ Refuse(c) \/ AdmitUnheld(c)
      PROVE CallsOK'
  BY <1>0, <1>2 DEF Fetch, StoreFetched, Refuse, AdmitUnheld
<1>3. ASSUME NEW c \in Calls, Admit(c) PROVE CallsOK'
  BY <1>3 DEF Admit
<1>4. ASSUME NEW c \in Calls, CheckToken(c) \/ CheckUser(c) \/ TakeToken(c) \/ TakeUser(c)
      PROVE CallsOK'
  BY <1>4 DEF CheckToken, CheckUser, TakeToken, TakeUser
<1>5. ASSUME NEW c \in Calls, Cut(c) \/ Fail(c) PROVE CallsOK'
  BY <1>5 DEF Cut, Fail, Finish, GiveBack
<1>6. ASSUME NEW c \in Calls, Succeed(c) \/ StreamEnds(c) \/ Spoil(c) \/ Misread(c)
      PROVE CallsOK'
  <2>1. Usage(c) \subseteq Nat /\ cost[c] \in Nat  BY DEF Usage
  <2>2. PICK q \in Nat : Charge(c, q)
    BY <1>6, <2>1 DEF Succeed, StreamEnds, Spoil, Misread
  <2>3. settle' \in [Calls -> Settlings] /\ cost' \in [Calls -> Nat]  BY <2>2 DEF Charge
  <2>4. back' \in [Calls -> Returnings]
    BY <1>6 DEF Succeed, StreamEnds, Spoil, Misread, GiveBack
  <2>5. \E how \in Outcomes : Finish(c, how)
    BY <1>6 DEF Succeed, StreamEnds, Spoil, Misread
  <2> QED  BY <2>3, <2>4, <2>5 DEF Finish
<1>7. ASSUME NEW c \in Calls, FindToken(c) \/ SettleUser(c) \/ SettleToken(c)
      PROVE CallsOK'
  BY <1>7 DEF FindToken, SettleUser, SettleToken, Settling, AfterSettling
<1>8. ASSUME NEW c \in Calls, Refresh(c) \/ StoreRefreshed(c) PROVE CallsOK'
  <2>1. CacheHit => cache \in Int  BY DEF AmountsOK, CacheHit
  <2> QED  BY <1>0, <1>8, <2>1 DEF Refresh, StoreRefreshed, Settling
<1>9. ASSUME NEW c \in Calls, ReturnStep(c) PROVE CallsOK'
  BY <1>9 DEF ReturnStep, ReturnFinds, ReturnUser, ReturnToken, ReturnAgain, Returning, AfterReturn
<1>10. ASSUME NEW c \in Calls, CallFault(c) PROVE CallsOK'
  BY <1>10 DEF CallFault, PreConsumeFails, SettleFails, ReturnFails, Settling, Returning,
     AfterSettling, AfterReturn
<1>11. CASE Crash
  BY <1>11 DEF Crash
<1>12. CASE (\E a \in Accounts : Swap(a) \/ Write(a) \/ WriteFails(a)) \/ CacheExpires
            \/ DeleteToken \/ Done \/ UNCHANGED vars
  BY <1>12 DEF callVars, Swap, Write, WriteFails, CacheExpires, DeleteToken, Done, vars
<1> QED
  BY <1>1, <1>2, <1>3, <1>4, <1>5, <1>6, <1>7, <1>8, <1>9, <1>10, <1>11, <1>12
  DEF Next, HandlerStep, UpstreamStep, SettleStep, BatchStep

-----------------------------------------------------------------------------
(* Money. *)

Same(d) ==
    /\ at'[d] = at[d] /\ outcome'[d] = outcome[d]
    /\ settle'[d] = settle[d] /\ back'[d] = back[d] /\ kind'[d] = kind[d]
    /\ pre'[d] = pre[d] /\ cost'[d] = cost[d]
    /\ taken'[<<d, "user">>] = taken[<<d, "user">>]
    /\ taken'[<<d, "token">>] = taken[<<d, "token">>]

\* A call that a step leaves alone keeps what is known of it.
LEMMA SameKeeps ==
    ASSUME NEW d \in Calls, Same(d), Shape(d) /\ TakenSoFar(d)
    PROVE  Shape(d)' /\ TakenSoFar(d)'
<1>1. Shape(d)'  BY DEF Same, Shape
<1>2. TakenSoFar(d)'
  BY DEF Same, TakenSoFar, HeldUser, HeldToken, PaidUser, PaidToken, BackUser, BackToken, Delta
<1> QED  BY <1>1, <1>2

\* While no token is deleted, taking adds to what was taken from one account.
LEMMA TakeAdds ==
    ASSUME AmountsOK, ~deleted, NEW c \in Calls, NEW a \in Accounts, NEW n \in Int,
           Take(c, a, n)
    PROVE  /\ taken'[<<c, a>>] = taken[<<c, a>>] + n
           /\ \A d \in Calls, b \in Accounts :
                <<d, b>> # <<c, a>> => taken'[<<d, b>>] = taken[<<d, b>>]
<1>1. taken' = [taken EXCEPT ![<<c, a>>] = @ + n]  BY DEF Take
<1> QED  BY <1>1 DEF AmountsOK

\* What holds of a call after one of its steps, and of the others.
Kept(c) == Shape(c)' /\ TakenSoFar(c)' /\ \A d \in Calls \ {c} : Same(d)

\* A call that no fault has hit, while there is a token to charge.
Untroubled(c) == IInv /\ c \notin hit /\ ~deleted

\* The handler holds the estimate, or ends before it does.
LEMMA HandlerKeeps ==
    ASSUME NEW c \in Calls, Untroubled(c), HandlerStep(c) PROVE Kept(c)
<1>t. /\ AmountsOK /\ CallsOK /\ FlagsOK /\ "user" \in Accounts /\ "token" \in Accounts
      /\ Shape(c) /\ TakenSoFar(c) /\ ~deleted
  BY DEF IInv, Accounts, Untroubled, MoneyInv, Sound
<1> USE DEF Go, End, Kept, Shape, TakenSoFar, HeldUser, HeldToken, PaidUser, PaidToken, BackUser,
        BackToken, Same, sharedVars, configVars, taskVars, moneyVars
<1>1. CASE ReadQuota(c) \/ Fetch(c) \/ StoreFetched(c)
  BY <1>t, <1>1 DEF ReadQuota, Fetch, StoreFetched, CallsOK
<1>2. CASE Refuse(c) \/ CheckToken(c) \/ CheckUser(c) \/ AdmitUnheld(c)
  BY <1>t, <1>2 DEF Refuse, CheckToken, CheckUser, AdmitUnheld, CallsOK
<1>3. CASE Admit(c)
  <2>1. PICK e \in Estimates :
          LET hold == IF seen[c] > Trust * e THEN 0 ELSE e IN
          /\ pre' = [pre EXCEPT ![c] = hold]
          /\ cost' = [cost EXCEPT ![c] = e]
          /\ at' = [at EXCEPT ![c] = IF hold > 0 THEN "token" ELSE "upstream"]
    BY <1>3 DEF Admit
  <2>2. e \in Nat  BY CallQuotaAssumption
  <2>3. UNCHANGED <<taken, outcome, settle, back, kind>> /\ at[c] = "deciding"
    BY <1>3 DEF Admit
  <2>4. PICK hold \in Nat : /\ pre' = [pre EXCEPT ![c] = hold]
                            /\ at' = [at EXCEPT ![c] = IF hold > 0 THEN "token" ELSE "upstream"]
    <3>1. CASE seen[c] > Trust * e
      BY <2>1, <3>1
    <3>2. CASE ~(seen[c] > Trust * e)
      BY <2>1, <2>2, <3>2
    <3> QED  BY <3>1, <3>2
  <2>5. cost' = [cost EXCEPT ![c] = e]  BY <2>1
  <2> QED  BY <1>t, <2>3, <2>4, <2>5 DEF CallsOK
<1>4. CASE TakeToken(c)
  <2>1. Take(c, "token", pre[c]) /\ pre[c] \in Int  BY <1>t, <1>4 DEF TakeToken, CallsOK
  <2>2. /\ taken'[<<c, "token">>] = taken[<<c, "token">>] + pre[c]
        /\ \A d \in Calls, b \in Accounts :
             <<d, b>> # <<c, "token">> => taken'[<<d, b>>] = taken[<<d, b>>]
    BY <1>t, <2>1, TakeAdds
  <2>3. taken'[<<c, "user">>] = taken[<<c, "user">>]  BY <1>t, <2>2
  <2>4. Shape(c)' /\ TakenSoFar(c)'  BY <1>t, <1>4, <2>1, <2>2, <2>3 DEF TakeToken, CallsOK
  <2>5. \A d \in Calls \ {c} : Same(d)  BY <1>t, <1>4, <2>2 DEF TakeToken, CallsOK
  <2> QED  BY <2>4, <2>5
<1>5. CASE TakeUser(c)
  <2>1. Take(c, "user", pre[c]) /\ pre[c] \in Int  BY <1>t, <1>5 DEF TakeUser, CallsOK
  <2>2. /\ taken'[<<c, "user">>] = taken[<<c, "user">>] + pre[c]
        /\ \A d \in Calls, b \in Accounts :
             <<d, b>> # <<c, "user">> => taken'[<<d, b>>] = taken[<<d, b>>]
    BY <1>t, <2>1, TakeAdds
  <2>3. taken'[<<c, "token">>] = taken[<<c, "token">>]  BY <1>t, <2>2
  <2>4. Shape(c)' /\ TakenSoFar(c)'  BY <1>t, <1>5, <2>1, <2>2, <2>3 DEF TakeUser, CallsOK
  <2>5. \A d \in Calls \ {c} : Same(d)  BY <1>t, <1>5, <2>2 DEF TakeUser, CallsOK
  <2> QED  BY <2>4, <2>5
<1> QED  BY <1>1, <1>2, <1>3, <1>4, <1>5 DEF HandlerStep

\* The handler ends and leaves the goroutines that fit its end.
LEMMA UpstreamKeeps ==
    ASSUME NEW c \in Calls, Untroubled(c), UpstreamStep(c) PROVE Kept(c)
<1>t. CallsOK /\ FlagsOK /\ Shape(c) /\ TakenSoFar(c)
  BY DEF IInv, Untroubled, MoneyInv, Sound
<1>0. /\ at[c] = "upstream" /\ UNCHANGED <<taken, pre, kind>>
      /\ at' = [at EXCEPT ![c] = "ended"]
  BY DEF UpstreamStep, Cut, Fail, Succeed, StreamEnds, Spoil, Misread, Finish, End, moneyVars,
     sharedVars, configVars
<1>1. /\ settle[c] = "idle" /\ back[c] = "idle"
      /\ taken[<<c, "user">>] = pre[c] /\ taken[<<c, "token">>] = pre[c] /\ pre[c] \in Nat
  BY <1>t, <1>0 DEF Shape, TakenSoFar, HeldUser, HeldToken, PaidUser, PaidToken, BackUser,
     BackToken, CallsOK
<1> USE DEF Finish, End, taskVars
<1>2. \A d \in Calls \ {c} : Same(d)
  BY <1>t, <1>0 DEF UpstreamStep, Cut, Fail, Succeed, StreamEnds, Spoil, Misread, Charge, GiveBack,
     Same, CallsOK
<1>3. Shape(c)'
  <2>1. CASE Cut(c)
    BY <1>t, <1>0, <1>1, <2>1 DEF Cut, Shape, CallsOK
  <2>2. CASE Fail(c)
    BY <1>t, <1>0, <1>1, <2>2 DEF Fail, GiveBack, Shape, CallsOK
  <2>3. CASE Succeed(c)
    BY <1>t, <1>0, <1>1, <2>3 DEF Succeed, Charge, Shape, CallsOK
  <2>4. CASE StreamEnds(c)
    BY <1>t, <1>0, <1>1, <2>4 DEF StreamEnds, Charge, GiveBack, Shape, CallsOK
  <2>5. CASE Spoil(c)
    BY <1>t, <1>0, <1>1, <2>5 DEF Spoil, Charge, Shape, CallsOK
  <2>6. CASE Misread(c)
    BY <1>t, <1>0, <1>1, <2>6 DEF Misread, Charge, GiveBack, Shape, CallsOK
  <2> QED  BY <2>1, <2>2, <2>3, <2>4, <2>5, <2>6 DEF UpstreamStep
<1>4. TakenSoFar(c)'
  <2>1. outcome'[c] # "refused"
    BY <1>t DEF UpstreamStep, Cut, Fail, Succeed, StreamEnds, Spoil, Misread, CallsOK
  <2>2. settle'[c] \in {"idle", "find"}
    BY <1>t, <1>1 DEF UpstreamStep, Cut, Fail, Succeed, StreamEnds, Spoil, Misread, Charge, CallsOK
  <2>3. back'[c] \in {"idle", "find"} \/ (back'[c] = "done" /\ pre[c] = 0)
    BY <1>t, <1>1 DEF UpstreamStep, Cut, Fail, Succeed, StreamEnds, Spoil, Misread, GiveBack,
       CallsOK
  <2> QED
    BY <1>t, <1>0, <1>1, <2>1, <2>2, <2>3 DEF TakenSoFar, HeldUser, HeldToken, PaidUser, PaidToken,
       BackUser, BackToken, CallsOK
<1> QED  BY <1>2, <1>3, <1>4 DEF Kept

\* The charge of the cost.
LEMMA SettleKeeps ==
    ASSUME NEW c \in Calls, Untroubled(c), SettleStep(c) PROVE Kept(c)
<1>t. /\ AmountsOK /\ CallsOK /\ FlagsOK /\ "user" \in Accounts /\ "token" \in Accounts
      /\ Shape(c) /\ TakenSoFar(c) /\ ~deleted
  BY DEF IInv, Accounts, Untroubled, MoneyInv, Sound
<1>0. UNCHANGED <<at, back, pre, cost, outcome, kind>> /\ settle[c] # "idle"
  BY DEF SettleStep, FindToken, SettleUser, SettleToken, Refresh, StoreRefreshed, Settling,
     sharedVars, configVars
<1>1. settle'[c] # "idle" /\ \A d \in Calls \ {c} : settle'[d] = settle[d]
  BY <1>t DEF SettleStep, FindToken, SettleUser, SettleToken, Refresh, StoreRefreshed, Settling,
     AfterSettling, CallsOK
<1>2. Shape(c)'  BY <1>t, <1>0, <1>1 DEF Shape
<1>d. Delta(c)' = Delta(c) /\ Delta(c) \in Int  BY <1>t, <1>0 DEF Delta, CallsOK
<1>h. /\ HeldUser(c)' = HeldUser(c) /\ HeldToken(c)' = HeldToken(c)
      /\ BackUser(c)' = BackUser(c) /\ BackToken(c)' = BackToken(c)
  BY <1>0 DEF HeldUser, HeldToken, BackUser, BackToken
<1>i. /\ HeldUser(c) \in Int /\ HeldToken(c) \in Int /\ BackUser(c) \in Int /\ BackToken(c) \in Int
  BY <1>t DEF HeldUser, HeldToken, BackUser, BackToken, CallsOK
<1>3. CASE FindToken(c) \/ Refresh(c) \/ StoreRefreshed(c)
  <2>1. UNCHANGED taken
    BY <1>3 DEF FindToken, Refresh, StoreRefreshed, moneyVars
  <2>2. PaidUser(c)' = PaidUser(c) /\ PaidToken(c)' = PaidToken(c)
    BY <1>t, <1>3, <1>d DEF FindToken, Refresh, StoreRefreshed, Settling, CallsOK, PaidUser, PaidToken
  <2>3. TakenSoFar(c)'  BY <1>t, <1>h, <2>1, <2>2 DEF TakenSoFar
  <2> QED  BY <1>0, <1>1, <1>2, <2>1, <2>3 DEF Kept, Same
<1>4. CASE SettleUser(c)
  <2>1. Take(c, "user", Delta(c))  BY <1>4 DEF SettleUser
  <2>2. /\ taken'[<<c, "user">>] = taken[<<c, "user">>] + Delta(c)
        /\ \A d \in Calls, b \in Accounts :
             <<d, b>> # <<c, "user">> => taken'[<<d, b>>] = taken[<<d, b>>]
    BY <1>t, <1>d, <2>1, TakeAdds
  <2>3. taken'[<<c, "token">>] = taken[<<c, "token">>]  BY <1>t, <2>2
  <2>4. /\ PaidUser(c) = 0 /\ PaidUser(c)' = Delta(c)
        /\ PaidToken(c) = 0 /\ PaidToken(c)' = 0
    BY <1>t, <1>4, <1>d DEF SettleUser, Settling, CallsOK, PaidUser, PaidToken
  <2>5. TakenSoFar(c)'  BY <1>t, <1>h, <1>i, <1>d, <2>2, <2>3, <2>4 DEF TakenSoFar
  <2>6. \A d \in Calls \ {c} : Same(d)  BY <1>t, <1>0, <1>1, <2>2 DEF Same
  <2> QED  BY <1>2, <2>5, <2>6 DEF Kept
<1>5. CASE SettleToken(c)
  <2>1. Take(c, "token", Delta(c))  BY <1>5 DEF SettleToken
  <2>2. /\ taken'[<<c, "token">>] = taken[<<c, "token">>] + Delta(c)
        /\ \A d \in Calls, b \in Accounts :
             <<d, b>> # <<c, "token">> => taken'[<<d, b>>] = taken[<<d, b>>]
    BY <1>t, <1>d, <2>1, TakeAdds
  <2>3. taken'[<<c, "user">>] = taken[<<c, "user">>]  BY <1>t, <2>2
  <2>4. /\ PaidUser(c) = Delta(c) /\ PaidUser(c)' = Delta(c)
        /\ PaidToken(c) = 0 /\ PaidToken(c)' = Delta(c)
    BY <1>t, <1>5, <1>d DEF SettleToken, Settling, AfterSettling, CallsOK, PaidUser, PaidToken
  <2>5. TakenSoFar(c)'  BY <1>t, <1>h, <1>i, <1>d, <2>2, <2>3, <2>4 DEF TakenSoFar
  <2>6. \A d \in Calls \ {c} : Same(d)  BY <1>t, <1>0, <1>1, <2>2 DEF Same
  <2> QED  BY <1>2, <2>5, <2>6 DEF Kept
<1> QED  BY <1>3, <1>4, <1>5 DEF SettleStep

\* The return of the hold, for audio calls twice for the user.
LEMMA ReturnKeeps ==
    ASSUME NEW c \in Calls, Untroubled(c), ReturnStep(c) PROVE Kept(c)
<1>t. /\ AmountsOK /\ CallsOK /\ FlagsOK /\ "user" \in Accounts /\ "token" \in Accounts
      /\ Shape(c) /\ TakenSoFar(c) /\ ~deleted
  BY DEF IInv, Accounts, Untroubled, MoneyInv, Sound
<1>0. UNCHANGED <<at, settle, pre, cost, outcome, kind>> /\ back[c] # "idle"
  BY DEF ReturnStep, ReturnFinds, ReturnUser, ReturnToken, ReturnAgain, Returning, sharedVars,
     configVars
<1>1. back'[c] # "idle" /\ \A d \in Calls \ {c} : back'[d] = back[d]
  BY <1>t DEF ReturnStep, ReturnFinds, ReturnUser, ReturnToken, ReturnAgain, Returning, AfterReturn,
     CallsOK
<1>2. back'[c] = "again" => kind[c] \in {"audio", "stream"}
  BY <1>t DEF ReturnStep, ReturnFinds, ReturnUser, ReturnToken, ReturnAgain, Returning, AfterReturn,
     CallsOK
<1>3. Shape(c)'  BY <1>t, <1>0, <1>1, <1>2 DEF Shape
<1>p. pre[c] \in Int /\ -pre[c] \in Int  BY <1>t DEF CallsOK
<1>h. /\ HeldUser(c)' = HeldUser(c) /\ HeldToken(c)' = HeldToken(c)
      /\ PaidUser(c)' = PaidUser(c) /\ PaidToken(c)' = PaidToken(c)
  BY <1>0 DEF HeldUser, HeldToken, PaidUser, PaidToken, Delta
<1>i. /\ HeldUser(c) \in Int /\ HeldToken(c) \in Int /\ PaidUser(c) \in Int /\ PaidToken(c) \in Int
  BY <1>t DEF HeldUser, HeldToken, PaidUser, PaidToken, Delta, CallsOK
<1>4. CASE ReturnFinds(c)
  <2>1. UNCHANGED taken /\ back[c] = "find" /\ back'[c] = "user"
    BY <1>t, <1>4 DEF ReturnFinds, Returning, moneyVars, CallsOK
  <2>2. BackUser(c)' = BackUser(c) /\ BackToken(c)' = BackToken(c)
    BY <2>1 DEF BackUser, BackToken
  <2>3. TakenSoFar(c)'  BY <1>t, <1>h, <2>1, <2>2 DEF TakenSoFar
  <2> QED  BY <1>0, <1>1, <1>3, <2>1, <2>3 DEF Kept, Same
<1>5. CASE ReturnUser(c)
  <2>1. Take(c, "user", -pre[c])  BY <1>5 DEF ReturnUser
  <2>2. /\ taken'[<<c, "user">>] = taken[<<c, "user">>] + (-pre[c])
        /\ \A d \in Calls, b \in Accounts :
             <<d, b>> # <<c, "user">> => taken'[<<d, b>>] = taken[<<d, b>>]
    BY <1>t, <1>p, <2>1, TakeAdds
  <2>3. taken'[<<c, "token">>] = taken[<<c, "token">>]  BY <1>t, <2>2
  <2>4. /\ BackUser(c) = 0 /\ BackUser(c)' = pre[c]
        /\ BackToken(c) = 0 /\ BackToken(c)' = 0
    BY <1>t, <1>0, <1>5 DEF ReturnUser, Returning, CallsOK, BackUser, BackToken
  <2>5. TakenSoFar(c)'  BY <1>t, <1>h, <1>i, <1>p, <2>2, <2>3, <2>4 DEF TakenSoFar
  <2>6. \A d \in Calls \ {c} : Same(d)  BY <1>t, <1>0, <1>1, <2>2 DEF Same
  <2> QED  BY <1>3, <2>5, <2>6 DEF Kept
<1>6. CASE ReturnToken(c)
  <2>1. Take(c, "token", -pre[c])  BY <1>6 DEF ReturnToken
  <2>2. /\ taken'[<<c, "token">>] = taken[<<c, "token">>] + (-pre[c])
        /\ \A d \in Calls, b \in Accounts :
             <<d, b>> # <<c, "token">> => taken'[<<d, b>>] = taken[<<d, b>>]
    BY <1>t, <1>p, <2>1, TakeAdds
  <2>3. taken'[<<c, "user">>] = taken[<<c, "user">>]  BY <1>t, <2>2
  <2>4. /\ BackUser(c) = pre[c] /\ BackUser(c)' = pre[c]
        /\ BackToken(c) = 0 /\ BackToken(c)' = pre[c]
    BY <1>t, <1>0, <1>6 DEF ReturnToken, Returning, AfterReturn, CallsOK, BackUser, BackToken
  <2>5. TakenSoFar(c)'  BY <1>t, <1>h, <1>i, <1>p, <2>2, <2>3, <2>4 DEF TakenSoFar
  <2>6. \A d \in Calls \ {c} : Same(d)  BY <1>t, <1>0, <1>1, <2>2 DEF Same
  <2> QED  BY <1>3, <2>5, <2>6 DEF Kept
<1>7. CASE ReturnAgain(c)
  <2>1. Take(c, "user", -pre[c])  BY <1>7 DEF ReturnAgain
  <2>2. /\ taken'[<<c, "user">>] = taken[<<c, "user">>] + (-pre[c])
        /\ \A d \in Calls, b \in Accounts :
             <<d, b>> # <<c, "user">> => taken'[<<d, b>>] = taken[<<d, b>>]
    BY <1>t, <1>p, <2>1, TakeAdds
  <2>3. taken'[<<c, "token">>] = taken[<<c, "token">>]  BY <1>t, <2>2
  <2>4. back[c] = "again" /\ back'[c] = "done" /\ kind[c] \in {"audio", "stream"}
    BY <1>t, <1>7 DEF ReturnAgain, Returning, CallsOK, Shape
  <2>5. /\ BackUser(c) = pre[c] /\ BackUser(c)' = pre[c] + pre[c]
        /\ BackToken(c) = pre[c] /\ BackToken(c)' = pre[c]
    BY <1>0, <2>4 DEF BackUser, BackToken
  <2>6. TakenSoFar(c)'  BY <1>t, <1>h, <1>i, <1>p, <2>2, <2>3, <2>5 DEF TakenSoFar
  <2>7. \A d \in Calls \ {c} : Same(d)  BY <1>t, <1>0, <1>1, <2>2 DEF Same
  <2> QED  BY <1>3, <2>6, <2>7 DEF Kept
<1> QED  BY <1>4, <1>5, <1>6, <1>7 DEF ReturnStep

\* Whatever a call takes, it takes for itself.
LEMMA TakeIsOwn ==
    ASSUME AmountsOK, NEW c \in Calls, NEW a \in Accounts, NEW n, Take(c, a, n),
           NEW d \in Calls \ {c}, NEW b \in Accounts
    PROVE  taken'[<<d, b>>] = taken[<<d, b>>]
<1>1. taken' = taken \/ taken' = [taken EXCEPT ![<<c, a>>] = @ + n]
  BY DEF Take, moneyVars
<1>2. <<d, b>> # <<c, a>> /\ <<d, b>> \in Calls \X Accounts
  OBVIOUS
<1> QED  BY <1>1, <1>2 DEF AmountsOK

\* The steps of a call leave every other call alone.
LEMMA OthersSame ==
    ASSUME AmountsOK, CallsOK, NEW c \in Calls, NEW d \in Calls \ {c},
           HandlerStep(c) \/ UpstreamStep(c) \/ SettleStep(c) \/ ReturnStep(c) \/ CallFault(c)
    PROVE  Same(d)
<1> DEFINE Still == /\ at'[d] = at[d] /\ outcome'[d] = outcome[d]
                    /\ settle'[d] = settle[d] /\ back'[d] = back[d] /\ kind'[d] = kind[d]
                    /\ pre'[d] = pre[d] /\ cost'[d] = cost[d]
<1>0. "user" \in Accounts /\ "token" \in Accounts
  BY DEF Accounts
<1> USE DEF sharedVars, configVars, taskVars, Go, End
<1>1. CASE HandlerStep(c)
  <2>1. Still
    BY <1>1 DEF CallsOK, HandlerStep, ReadQuota, Fetch, StoreFetched, Refuse, Admit, AdmitUnheld,
       CheckToken, CheckUser, TakeToken, TakeUser
  <2>2. UNCHANGED taken \/ \E a \in Accounts : \E n : Take(c, a, n)
    BY <1>0, <1>1, Zenon DEF HandlerStep, ReadQuota, Fetch, StoreFetched, Refuse, Admit, AdmitUnheld,
       CheckToken, CheckUser, TakeToken, TakeUser, moneyVars
  <2> QED  BY <1>0, <2>1, <2>2, TakeIsOwn DEF Same
<1>2. CASE UpstreamStep(c)
  BY <1>2 DEF CallsOK, UpstreamStep, Cut, Fail, Succeed, StreamEnds, Spoil, Misread, Finish,
     Charge, GiveBack, Same, moneyVars
<1>3. CASE SettleStep(c)
  <2>1. Still
    BY <1>3 DEF CallsOK, SettleStep, FindToken, SettleUser, SettleToken, Refresh, StoreRefreshed,
       Settling
  <2>2. UNCHANGED taken \/ \E a \in Accounts : \E n : Take(c, a, n)
    BY <1>0, <1>3, Zenon DEF SettleStep, FindToken, SettleUser, SettleToken, Refresh,
       StoreRefreshed, moneyVars
  <2> QED  BY <1>0, <2>1, <2>2, TakeIsOwn DEF Same
<1>4. CASE ReturnStep(c)
  <2>1. Still
    BY <1>4 DEF CallsOK, ReturnStep, ReturnFinds, ReturnUser, ReturnToken, ReturnAgain, Returning
  <2>2. UNCHANGED taken \/ \E a \in Accounts : \E n : Take(c, a, n)
    BY <1>0, <1>4, Zenon DEF ReturnStep, ReturnFinds, ReturnUser, ReturnToken, ReturnAgain, moneyVars
  <2> QED  BY <1>0, <2>1, <2>2, TakeIsOwn DEF Same
<1>5. CASE CallFault(c)
  BY <1>5 DEF CallsOK, CallFault, PreConsumeFails, SettleFails, ReturnFails, Settling, Returning,
     Same, moneyVars
<1> QED  BY <1>1, <1>2, <1>3, <1>4, <1>5

\* A call that has ended with its goroutines takes no step of its own.
LEMMA EndedRests ==
    ASSUME NEW c, Ended(c)
    PROVE  ~(HandlerStep(c) \/ UpstreamStep(c) \/ SettleStep(c) \/ ReturnStep(c))
<1>1. ~HandlerStep(c)
  BY DEF Ended, HandlerStep, ReadQuota, Fetch, StoreFetched, Refuse, Admit, AdmitUnheld,
     CheckToken, CheckUser, TakeToken, TakeUser
<1>2. ~UpstreamStep(c)
  BY DEF Ended, UpstreamStep, Cut, Fail, Succeed, StreamEnds, Spoil, Misread, Finish
<1>3. ~SettleStep(c)
  BY DEF Ended, SettleStep, FindToken, SettleUser, SettleToken, Refresh, StoreRefreshed, Settling
<1>4. ~ReturnStep(c)
  BY DEF Ended, ReturnStep, ReturnFinds, ReturnUser, ReturnToken, ReturnAgain, Returning
<1> QED  BY <1>1, <1>2, <1>3, <1>4

LEMMA SoundRests ==
    ASSUME NEW d \in Calls, Same(d), deleted' => deleted \/ Ended(d), Sound(d)
    PROVE  Sound(d)'
<1>1. Shape(d)' /\ TakenSoFar(d)'
  BY SameKeeps DEF Sound
<1>2. Ended(d)' <=> Ended(d)
  BY DEF Same, Ended
<1> QED  BY <1>1, <1>2 DEF Sound

\* Only the steps of a call change what is known of it, and of no other; a fault
\* changes it for the calls it hits.
LEMMA MoneyNext == IInv /\ [Next]_vars => MoneyInv'
<1> SUFFICES ASSUME IInv, [Next]_vars, NEW d \in Calls, d \notin hit' PROVE Sound(d)'
  BY DEF MoneyInv
<1>1. ASSUME NEW c \in Calls,
             HandlerStep(c) \/ UpstreamStep(c) \/ SettleStep(c) \/ ReturnStep(c)
      PROVE  Sound(d)'
  <2>1. UNCHANGED <<hit, deleted>>
    <3> USE DEF sharedVars, faultVars
    <3>1. CASE HandlerStep(c)
      BY <3>1, Zenon DEF HandlerStep, ReadQuota, Fetch, StoreFetched, Refuse, Admit, AdmitUnheld,
         CheckToken, CheckUser, TakeToken, TakeUser
    <3>2. CASE UpstreamStep(c)
      BY <3>2, Zenon DEF UpstreamStep, Cut, Fail, Succeed, StreamEnds, Spoil, Misread, Finish
    <3>3. CASE SettleStep(c)
      BY <3>3, Zenon DEF SettleStep, FindToken, SettleUser, SettleToken, Refresh, StoreRefreshed
    <3>4. CASE ReturnStep(c)
      BY <3>4, Zenon DEF ReturnStep, ReturnFinds, ReturnUser, ReturnToken, ReturnAgain
    <3> QED  BY <1>1, <3>1, <3>2, <3>3, <3>4
  <2>2. Sound(d)
    BY <2>1 DEF IInv, MoneyInv
  <2>3. CASE c = d
    <3>1. ~deleted
      BY <1>1, <2>2, <2>3, EndedRests DEF Sound
    <3>2. Untroubled(d)
      BY <2>1, <3>1 DEF Untroubled
    <3>3. Kept(d)
      BY <1>1, <2>3, <3>2, HandlerKeeps, UpstreamKeeps, SettleKeeps, ReturnKeeps
    <3> QED  BY <2>1, <3>1, <3>3 DEF Kept, Sound
  <2>4. CASE c # d
    <3>1. Same(d)
      BY <1>1, <2>4, OthersSame DEF IInv
    <3> QED  BY <2>1, <2>2, <3>1, SoundRests
  <2> QED  BY <2>3, <2>4
<1>2. ASSUME NEW c \in Calls, CallFault(c) PROVE Sound(d)'
  <2>1. hit' = hit \cup {c} /\ UNCHANGED deleted
    BY <1>2, Zenon DEF CallFault, PreConsumeFails, SettleFails, ReturnFails, Fault, sharedVars
  <2>2. Sound(d) /\ d # c
    BY <2>1 DEF IInv, MoneyInv
  <2>3. Same(d)
    BY <1>2, <2>2, OthersSame DEF IInv
  <2> QED  BY <2>1, <2>2, <2>3, SoundRests
<1>3. CASE Crash
  <2>1. /\ hit' = hit \cup {c \in Calls : at[c] # "new" /\ ~Ended(c)}
        /\ UNCHANGED <<taken, deleted, kind, pre, cost>>
    BY <1>3, Zenon DEF Crash, Fault, configVars
  <2>2. Sound(d) /\ (at[d] = "new" \/ Ended(d))
    BY <2>1 DEF IInv, MoneyInv
  <2>3. /\ settle[d] \in {"idle", "done"} /\ back[d] \in {"idle", "done"}
        /\ at[d] \in {"new", "ended"}
    BY <2>2 DEF Ended, Sound, Shape
  <2>4. Same(d)
    BY <1>3, <2>1, <2>3 DEF Crash, Same
  <2> QED  BY <2>1, <2>2, <2>4, SoundRests
<1>4. CASE DeleteToken
  <2>1. /\ hit' = hit \cup {c \in Calls : ~Ended(c)}
        /\ UNCHANGED <<taken, callVars, kind>>
    BY <1>4, Zenon DEF DeleteToken, moneyVars, configVars
  <2>2. Sound(d) /\ Ended(d)
    BY <2>1 DEF IInv, MoneyInv
  <2>3. Same(d)
    BY <2>1 DEF callVars, taskVars, Same
  <2> QED  BY <2>2, <2>3, SoundRests
<1>5. CASE (\E a \in Accounts : WriteFails(a)) \/ BatchStep \/ CacheExpires \/ Done
           \/ UNCHANGED vars
  <2>1. /\ UNCHANGED <<taken, callVars, deleted, kind>> /\ hit' = hit
    BY <1>5 DEF BatchStep, Swap, Write, WriteFails, Fault, CacheExpires, Done, vars, moneyVars,
       configVars, faultVars
  <2>2. Same(d)
    BY <2>1 DEF callVars, taskVars, Same
  <2>3. Sound(d)
    BY <2>1 DEF IInv, MoneyInv
  <2> QED  BY <2>1, <2>2, <2>3, SoundRests
<1> QED  BY <1>1, <1>2, <1>3, <1>4, <1>5 DEF Next

LEMMA IInvNext == IInv /\ [Next]_vars => IInv'
BY FlagsNext, AmountsNext, CallsNext, MoneyNext DEF IInv

LEMMA IInvHolds == Spec => []IInv
BY IInvInit, IInvNext, PTL DEF Spec

\* Every reachable state is well typed: above all, amounts are integers and
\* the records are empty unless batch updates are on (model/utils.go).
THEOREM TypeCorrect == Spec => []TypeOK
<1>1. IInv => TypeOK  BY Parts DEF IInv
<1> QED  BY <1>1, IInvHolds, PTL

\* A call ends with the right charge on the user and on the token, however the
\* goroutines of any number of calls, the batch updater and Redis take turns and
\* whatever befalls other calls; the user of a call that is rolled back pays no
\* more than that (preConsumeQuota, PostConsumeTokenQuota, RelayAudioHelper).
THEOREM ChargedExactlyCorrect == Spec => []ChargedExactly
<1>1. IInv => ChargedExactly
  <2> SUFFICES ASSUME IInv, NEW c \in Calls, Ended(c), c \notin hit
               PROVE  /\ taken[<<c, "token">>] \in Prices(c)
                      /\ IF RolledBack(c) THEN taken[<<c, "user">>] <= taken[<<c, "token">>]
                                          ELSE taken[<<c, "user">>] = taken[<<c, "token">>]
    BY DEF ChargedExactly
  <2>1. Shape(c) /\ TakenSoFar(c) /\ CallsOK  BY DEF IInv, MoneyInv, Sound
  <2>2. /\ at[c] = "ended" /\ settle[c] \in {"idle", "done"} /\ back[c] \in {"idle", "done"}
        /\ pre[c] \in Nat /\ cost[c] \in Nat
    BY <2>1 DEF Ended, CallsOK
  <2> USE <2>1, <2>2 DEF Shape, TakenSoFar, HeldUser, HeldToken, PaidUser, PaidToken, BackUser,
          BackToken, Delta, Prices, RolledBack
  <2>3. CASE outcome[c] \in {"refused", "cut"}
    BY <2>3
  <2>4. CASE outcome[c] = "failed"
    BY <2>4
  <2>5. CASE outcome[c] = "served"
    BY <2>5
  <2>6. CASE outcome[c] \in {"spoiled", "misread"}
    BY <2>6
  <2> QED  BY <2>3, <2>4, <2>5, <2>6 DEF CallsOK, Outcomes
<1> QED  BY <1>1, IInvHolds, PTL
-----------------------------------------------------------------------------
(* No unit of quota is lost or made.                                       *)

\* The batch updater writes one store at a time: what it has taken out of one
\* it has written before it takes out the other's.
FlushInv == \A a \in Accounts : flush # a => flushing[a] = 0

\* What a row will hold when everything in the records is written.
Coming(a) == row[a] + store[a] + flushing[a]

TakenRow(a) == [c \in Calls |-> taken[<<c, a>>]]

Present(a) == a = "token" => ~deleted

BInv == FlushInv /\ Balanced

\* What is taken from an account is missing in its row or in its record.
LEMMA TakeBalances ==
    ASSUME AmountsOK, NEW c \in Calls, NEW b \in Accounts, NEW n \in Int,
           Take(c, b, n), UNCHANGED flushing, NEW a \in Accounts, Present(a)
    PROVE  Coming(a)' + TakenFrom(a)' = Coming(a) + TakenFrom(a)
<1>0. /\ row \in [Accounts -> Int] /\ flushing \in [Accounts -> Int]
      /\ store \in [Accounts -> Int] /\ taken \in [Calls \X Accounts -> Int]
  BY DEF AmountsOK
<1>1. TakenRow(a) \in [Calls -> Int] /\ IsFiniteSet(Calls)
  BY <1>0, CallQuotaAssumption DEF TakenRow
<1>2. TakenFrom(a) = SumFunction(TakenRow(a)) /\ TakenFrom(a)' = SumFunction(TakenRow(a)')
  BY DEF TakenFrom, TakenRow
<1>3. SumFunction(TakenRow(a)) \in Int
  BY <1>1, SumType
<1>4. CASE b = "token" /\ deleted
  BY <1>4 DEF Take, moneyVars, Coming, TakenFrom
<1>5. CASE ~(b = "token" /\ deleted) /\ a # b
  <2>1. row'[a] = row[a] /\ store'[a] = store[a] /\ TakenRow(a)' = TakenRow(a)
    BY <1>0, <1>5 DEF Take, TakenRow
  <2> QED  BY <1>2, <2>1 DEF Coming
<1>6. CASE ~(b = "token" /\ deleted) /\ a = b
  <2>1. row'[a] + store'[a] = row[a] + store[a] - n
    BY <1>0, <1>6 DEF Take
  <2>2. TakenRow(a)' = [TakenRow(a) EXCEPT ![c] = @ + n]
    BY <1>0, <1>6 DEF Take, TakenRow
  <2>3. SumFunction([TakenRow(a) EXCEPT ![c] = @ + n]) = SumFunction(TakenRow(a)) + n
    BY <1>1, SumChanges
  <2>4. TakenFrom(a)' = TakenFrom(a) + n
    BY <1>2, <2>2, <2>3
  <2>5. row'[a] \in Int /\ store'[a] \in Int
    BY <1>0, <1>6 DEF Take
  <2> QED  BY <1>0, <1>2, <1>3, <2>1, <2>4, <2>5 DEF Coming
<1> QED  BY <1>4, <1>5, <1>6

\* Quota moves by the taking of a call, through the batch updater, or not at all.
LEMMA MoneyFrame ==
    ASSUME CallsOK, [Next]_vars, faults' = 0, faults \in Nat
    PROVE  /\ deleted => deleted'
           /\ faults' = faults
           /\ \/ UNCHANGED <<moneyVars, flushVars>>
              \/ /\ UNCHANGED <<flushVars, deleted>>
                 /\ \E c \in Calls, a \in Accounts, n \in Int : Take(c, a, n)
              \/ \E a \in Accounts : Swap(a) \/ Write(a)
<1> DEFINE Taking == /\ UNCHANGED <<flushVars, deleted>>
                     /\ \E c \in Calls, a \in Accounts, n \in Int : Take(c, a, n)
<1> USE DEF sharedVars, faultVars
<1>1. ASSUME NEW c \in Calls, HandlerStep(c)
      PROVE  UNCHANGED <<deleted, faults>> /\ (UNCHANGED <<moneyVars, flushVars>> \/ Taking)
  <2>1. CASE TakeToken(c) \/ TakeUser(c)
    <3>1. pre[c] \in Int /\ "token" \in Accounts /\ "user" \in Accounts
      BY DEF CallsOK, Accounts
    <3>2. \E a \in Accounts : Take(c, a, pre[c])
      BY <2>1, <3>1, Zenon DEF TakeToken, TakeUser
    <3>3. UNCHANGED <<flushVars, deleted, faults>>
      BY <2>1, Zenon DEF TakeToken, TakeUser
    <3> QED  BY <3>1, <3>2, <3>3
  <2>2. CASE ~(TakeToken(c) \/ TakeUser(c))
    BY <1>1, <2>2, Zenon DEF HandlerStep, ReadQuota, Fetch, StoreFetched, Refuse, Admit,
       AdmitUnheld, CheckToken, CheckUser
  <2>3. UNCHANGED <<deleted, faults>>
    BY <1>1, Zenon DEF HandlerStep, ReadQuota, Fetch, StoreFetched, Refuse, Admit,
       AdmitUnheld, CheckToken, CheckUser, TakeToken, TakeUser
  <2> QED  BY <2>1, <2>2, <2>3
<1>2. ASSUME NEW c \in Calls, UpstreamStep(c)
      PROVE  UNCHANGED <<deleted, faults>> /\ UNCHANGED <<moneyVars, flushVars>>
  BY <1>2, Zenon DEF UpstreamStep, Cut, Fail, Succeed, StreamEnds, Spoil, Misread, Finish
<1>3. ASSUME NEW c \in Calls, SettleStep(c)
      PROVE  UNCHANGED <<deleted, faults>> /\ (UNCHANGED <<moneyVars, flushVars>> \/ Taking)
  <2>1. CASE SettleUser(c) \/ SettleToken(c)
    <3>1. Delta(c) \in Int /\ "token" \in Accounts /\ "user" \in Accounts
      BY DEF CallsOK, Accounts, Delta
    <3>2. \E a \in Accounts : Take(c, a, Delta(c))
      BY <2>1, <3>1, Zenon DEF SettleUser, SettleToken
    <3>3. UNCHANGED <<flushVars, deleted, faults>>
      BY <2>1, Zenon DEF SettleUser, SettleToken
    <3> QED  BY <3>1, <3>2, <3>3
  <2>2. CASE ~(SettleUser(c) \/ SettleToken(c))
    BY <1>3, <2>2, Zenon DEF SettleStep, FindToken, Refresh, StoreRefreshed
  <2>3. UNCHANGED <<deleted, faults>>
    BY <1>3, Zenon DEF SettleStep, FindToken, SettleUser, SettleToken, Refresh, StoreRefreshed
  <2> QED  BY <2>1, <2>2, <2>3
<1>4. ASSUME NEW c \in Calls, ReturnStep(c)
      PROVE  UNCHANGED <<deleted, faults>> /\ (UNCHANGED <<moneyVars, flushVars>> \/ Taking)
  <2>1. CASE ReturnUser(c) \/ ReturnToken(c) \/ ReturnAgain(c)
    <3>1. -pre[c] \in Int /\ "token" \in Accounts /\ "user" \in Accounts
      BY DEF CallsOK, Accounts
    <3>2. \E a \in Accounts : Take(c, a, -pre[c])
      BY <2>1, <3>1, Zenon DEF ReturnUser, ReturnToken, ReturnAgain
    <3>3. UNCHANGED <<flushVars, deleted, faults>>
      BY <2>1, Zenon DEF ReturnUser, ReturnToken, ReturnAgain
    <3> QED  BY <3>1, <3>2, <3>3
  <2>2. CASE ~(ReturnUser(c) \/ ReturnToken(c) \/ ReturnAgain(c))
    BY <1>4, <2>2, Zenon DEF ReturnStep, ReturnFinds
  <2>3. UNCHANGED <<deleted, faults>>
    BY <1>4, Zenon DEF ReturnStep, ReturnFinds, ReturnUser, ReturnToken, ReturnAgain
  <2> QED  BY <2>1, <2>2, <2>3
<1>5. ASSUME (\E c \in Calls : CallFault(c)) \/ (\E a \in Accounts : WriteFails(a)) \/ Crash
      PROVE  FALSE
  BY <1>5 DEF CallFault, PreConsumeFails, SettleFails, ReturnFails, WriteFails, Crash, Fault
<1>6. ASSUME NEW a \in Accounts, Swap(a) \/ Write(a) PROVE UNCHANGED <<deleted, faults>>
  BY <1>6, Zenon DEF Swap, Write
<1>7. CASE CacheExpires \/ DeleteToken \/ Done \/ UNCHANGED vars
  <2>1. UNCHANGED <<moneyVars, flushVars>>
    BY <1>7, Zenon DEF CacheExpires, DeleteToken, Done, vars
  <2>2. (deleted => deleted') /\ faults' = faults
    BY <1>7 DEF CacheExpires, DeleteToken, Done, vars
  <2> QED  BY <2>1, <2>2
<1> HIDE DEF Taking
<1>8. CASE UNCHANGED vars
  BY <1>7, <1>8
<1>9. CASE Next
  BY <1>1, <1>2, <1>3, <1>4, <1>5, <1>6, <1>7, <1>9, Zenon DEF Next, BatchStep, Taking
<1> QED  BY <1>8, <1>9 DEF Taking

LEMMA FlushNext == AmountsOK /\ FlushInv /\ [Next]_vars => FlushInv'
<1> SUFFICES ASSUME AmountsOK, FlushInv, [Next]_vars PROVE FlushInv'
  OBVIOUS
<1>1. ASSUME NEW c \in Calls,
             HandlerStep(c) \/ UpstreamStep(c) \/ SettleStep(c) \/ ReturnStep(c) \/ CallFault(c)
      PROVE  UNCHANGED flushVars
  <2> USE DEF sharedVars
  <2>1. CASE HandlerStep(c)
    BY <2>1, Zenon DEF HandlerStep, ReadQuota, Fetch, StoreFetched, Refuse, Admit, AdmitUnheld,
       CheckToken, CheckUser, TakeToken, TakeUser
  <2>2. CASE UpstreamStep(c)
    BY <2>2, Zenon DEF UpstreamStep, Cut, Fail, Succeed, StreamEnds, Spoil, Misread, Finish
  <2>3. CASE SettleStep(c)
    BY <2>3, Zenon DEF SettleStep, FindToken, SettleUser, SettleToken, Refresh, StoreRefreshed
  <2>4. CASE ReturnStep(c)
    BY <2>4, Zenon DEF ReturnStep, ReturnFinds, ReturnUser, ReturnToken, ReturnAgain
  <2>5. CASE CallFault(c)
    BY <2>5, Zenon DEF CallFault, PreConsumeFails, SettleFails, ReturnFails
  <2> QED  BY <1>1, <2>1, <2>2, <2>3, <2>4, <2>5
<1>2. CASE CacheExpires \/ DeleteToken \/ Done \/ UNCHANGED vars
  BY <1>2, Zenon DEF CacheExpires, DeleteToken, Done, vars, FlushInv, flushVars
<1>3. ASSUME UNCHANGED flushVars PROVE FlushInv'
  BY <1>3 DEF FlushInv, flushVars
<1>4. ASSUME NEW a \in Accounts, Swap(a) PROVE FlushInv'
  BY <1>4 DEF Swap, SwapOut, AmountsOK, FlushInv, Before, Accounts
<1>5. ASSUME NEW a \in Accounts, Write(a) \/ WriteFails(a) PROVE FlushInv'
  BY <1>5 DEF Write, WriteFails, AmountsOK, FlushInv, After, Accounts
<1>6. CASE Crash
  BY <1>6 DEF Crash, FlushInv
<1> QED  BY <1>1, <1>2, <1>3, <1>4, <1>5, <1>6 DEF Next, BatchStep

LEMMA BalancedNext ==
    ASSUME FlagsOK, AmountsOK, CallsOK, FlushInv, Balanced, [Next]_vars, faults' = 0,
           NEW a \in Accounts, Present(a)'
    PROVE  Coming(a)' + TakenFrom(a)' = Initial[a]
<1>0. faults \in Nat /\ faults = 0
  <2>1. faults \in Nat
    BY CallQuotaAssumption DEF AmountsOK
  <2> QED  BY <2>1, MoneyFrame
<1>1. Present(a)
  BY <1>0, MoneyFrame DEF Present
<1>2. Coming(a) + TakenFrom(a) = Initial[a]
  BY <1>0, <1>1 DEF Balanced, Present, Coming
<1>3. CASE UNCHANGED <<moneyVars, flushVars>>
  BY <1>2, <1>3 DEF Coming, TakenFrom, moneyVars, flushVars
<1>4. ASSUME UNCHANGED <<flushVars, deleted>>,
             NEW c \in Calls, NEW b \in Accounts, NEW n \in Int, Take(c, b, n)
      PROVE  Coming(a)' + TakenFrom(a)' = Initial[a]
  BY <1>1, <1>2, <1>4, TakeBalances DEF flushVars
<1>5. ASSUME NEW b \in Accounts, Swap(b) PROVE Coming(a)' + TakenFrom(a)' = Initial[a]
  <2>1. TakenFrom(a)' = TakenFrom(a)
    BY <1>5 DEF Swap, TakenFrom
  <2>2. flushing[b] = 0
    BY <1>5 DEF Swap, Before, FlushInv, Accounts
  <2>3. Coming(a)' = Coming(a)
    BY <1>5, <2>2 DEF Swap, SwapOut, Coming, AmountsOK
  <2> QED  BY <1>2, <2>1, <2>3
<1>6. ASSUME NEW b \in Accounts, Write(b) PROVE Coming(a)' + TakenFrom(a)' = Initial[a]
  <2>1. TakenFrom(a)' = TakenFrom(a)
    BY <1>6 DEF Write, TakenFrom
  <2>2. Coming(a)' = Coming(a)
    BY <1>1, <1>6 DEF Write, Coming, AmountsOK, Present
  <2> QED  BY <1>2, <2>1, <2>2
<1> QED  BY <1>0, <1>3, <1>4, <1>5, <1>6, MoneyFrame

\* While no statement fails and the process does not stop, the rows, the
\* records of the batch updater and what the calls have taken add up to what
\* there was at the start, whatever the goroutines of the calls and the updater
\* interleave (model/utils.go:41).
THEOREM BalancedCorrect == Spec => []Balanced
<1>1. Init => BInv
  <2> SUFFICES ASSUME Init PROVE BInv
    OBVIOUS
  <2>1. FlushInv
    BY DEF Init, FlushInv
  <2>2. ASSUME NEW a \in Accounts PROVE TakenFrom(a) = 0
    <3>1. TakenRow(a) \in [Calls -> Int] /\ \A c \in Calls : TakenRow(a)[c] = 0
      BY DEF Init, TakenRow
    <3>2. SumFunction(TakenRow(a)) = 0
      BY <3>1, CallQuotaAssumption, SumZero
    <3> QED  BY <3>2 DEF TakenFrom, TakenRow
  <2>3. \A a \in Accounts : Initial[a] \in Int
    BY CallQuotaAssumption DEF Initial
  <2> QED  BY <2>1, <2>2, <2>3 DEF Init, BInv, Balanced
<1>2. IInv /\ BInv /\ [Next]_vars => BInv'
  <2> SUFFICES ASSUME IInv, BInv, [Next]_vars PROVE BInv'
    OBVIOUS
  <2>1. FlushInv'
    BY FlushNext DEF IInv, BInv
  <2>2. ASSUME faults' = 0, NEW a \in Accounts, Present(a)'
        PROVE  Coming(a)' + TakenFrom(a)' = Initial[a]
    BY <2>2, BalancedNext DEF IInv, BInv
  <2>3. Balanced'
    BY <2>2 DEF Balanced, Present, Coming
  <2> QED  BY <2>1, <2>3 DEF BInv
<1> QED
  BY <1>1, <1>2, IInvHolds, PTL DEF Spec, BInv

=============================================================================
