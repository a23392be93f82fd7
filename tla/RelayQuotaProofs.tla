-------------------------- MODULE RelayQuotaProofs ---------------------------
(* Theorems about RelayQuota, for every set of calls, tokens and amounts. *)
EXTENDS RelayQuota, Sums

\* What the two balances become keeps their type.
LEMMA ChargedType ==
    ASSUME NEW row \in TokenRow, NEW d \in Int
    PROVE  Charged(row, d) \in TokenRow
<1> DEFINE a == [row EXCEPT !.remain = @ - d]
           b == [a EXCEPT !.used = @ + d]
<1>1. a \in TokenRow  BY DEF TokenRow
<1> HIDE DEF a
<1>2. b \in TokenRow  BY <1>1 DEF TokenRow
<1>3. b = [row EXCEPT !.remain = @ - d, !.used = @ + d]  BY DEF a
<1> HIDE DEF b
<1>4. [b EXCEPT !.status = "enabled"] \in TokenRow  BY <1>2 DEF TokenRow, Status
<1> QED  BY <1>2, <1>3, <1>4 DEF Charged

\* What a return of the other billing makes of a row.
LEMMA ReturnedFields ==
    ASSUME NEW row \in TokenRow, NEW n \in Int
    PROVE  LET new == Returned(row, n) IN
           /\ new \in TokenRow
           /\ new.remain = row.remain + n /\ new.used = row.used - n
           /\ new.unlimited = row.unlimited /\ new.live = row.live
           /\ new.status = row.status
<1> DEFINE a == [row EXCEPT !.remain = @ + n]
           b == [a EXCEPT !.used = @ - n]
<1>1. /\ a \in TokenRow /\ a.remain = row.remain + n /\ a.used = row.used
      /\ a.unlimited = row.unlimited /\ a.live = row.live /\ a.status = row.status
  BY DEF TokenRow
<1> HIDE DEF a
<1>2. /\ b \in TokenRow /\ b.remain = row.remain + n /\ b.used = row.used - n
      /\ b.unlimited = row.unlimited /\ b.live = row.live /\ b.status = row.status
  BY <1>1 DEF TokenRow
<1> QED  BY <1>2 DEF a, b, Returned

\* A movement of both balances keeps their types.
LEMMA AdjustType ==
    ASSUME TypeOK, NEW t \in Tokens, NEW d \in Int, Adjust(t, d)
    PROVE  /\ token' \in [Tokens -> TokenRow]
           /\ userQuota' \in Int
  BY ChargedType DEF Adjust, TypeOK

\* Marking a row keeps its type.
LEMMA MarkedType ==
    ASSUME NEW row \in TokenRow, NEW now \in TokenRow
    PROVE  Marked(row, now) \in TokenRow
  BY DEF Marked, TokenRow, Status

LEMMA TokenInitType == TokenInit \in TokenRow
  BY RelayQuotaAssumption DEF TokenInit, TokenRow, Status

LEMMA NoEditType == NoEdit \in [phase : {"none", "read"}, tok : Tokens, row : TokenRow]
  BY TokenInitType, RelayQuotaAssumption DEF NoEdit

\* What the two forms of an edit make of the row read.
LEMMA StatusEditRow ==
    ASSUME NEW row \in TokenRow, NEW st \in Status, NEW x \in BOOLEAN
    PROVE  LET new == [row EXCEPT !.status = st, !.expired = x] IN
           new \in TokenRow /\ new.status = st /\ new.live = row.live
<1> DEFINE v1 == [row EXCEPT !.status = st]
           v2 == [v1 EXCEPT !.expired = x]
<1>1. v1 \in TokenRow /\ v1.status = st /\ v1.live = row.live  BY DEF TokenRow
<1> HIDE DEF v1
<1>2. v2 \in TokenRow /\ v2.status = st /\ v2.live = row.live  BY <1>1 DEF TokenRow
<1> QED  BY <1>2 DEF v1, v2

\* The row the full form writes.
FieldsRow(row, r, u, x, st) ==
    [row EXCEPT !.remain = r, !.unlimited = u, !.expired = x, !.status = st]

LEMMA FieldsEditRow ==
    ASSUME NEW row \in TokenRow, NEW r \in Int, NEW u \in BOOLEAN,
           NEW x \in BOOLEAN, NEW st \in Status
    PROVE  LET new == FieldsRow(row, r, u, x, st)
           IN  /\ new \in TokenRow /\ new.live = row.live /\ new.status = st
               /\ new.remain = r /\ new.unlimited = u
<1> DEFINE v1 == [row EXCEPT !.remain = r]
           v2 == [v1 EXCEPT !.unlimited = u]
           v3 == [v2 EXCEPT !.expired = x]
           v4 == [v3 EXCEPT !.status = st]
<1>1. v1 \in TokenRow /\ v1.live = row.live /\ v1.remain = r  BY DEF TokenRow
<1> HIDE DEF v1
<1>2. /\ v2 \in TokenRow /\ v2.live = row.live /\ v2.remain = r
      /\ v2.unlimited = u
  BY <1>1 DEF TokenRow
<1> HIDE DEF v2
<1>3. /\ v3 \in TokenRow /\ v3.live = row.live /\ v3.remain = r
      /\ v3.unlimited = u
  BY <1>2 DEF TokenRow
<1> HIDE DEF v3
<1>4. /\ v4 \in TokenRow /\ v4.live = row.live /\ v4.remain = r
      /\ v4.unlimited = u /\ v4.status = st
  BY <1>3 DEF TokenRow
<1> QED  BY <1>4 DEF v1, v2, v3, v4, FieldsRow

\* The full form saves some row, and one it saves as exhausted has no quota.
LEMMA FieldsSaveRow ==
    ASSUME TypeOK, EditFields
    PROVE  \E row \in TokenRow :
             /\ SaveEdit(edit.tok, row)
             /\ row.status = "exhausted" => row.remain <= 0 /\ ~row.unlimited
             /\ row.live = edit.row.live
<1>0. edit.tok \in Tokens /\ edit.row \in TokenRow /\ token[edit.tok].expired \in BOOLEAN
  BY DEF TypeOK, TokenRow
<1>1. PICK r \in EditRemain, u \in BOOLEAN, x \in BOOLEAN :
        SaveEdit(edit.tok,
          [edit.row EXCEPT !.remain = r, !.unlimited = u, !.expired = x,
             !.status = IF \/ edit.row.status = "exhausted" /\ (u \/ r > 0)
                           \/ edit.row.status = "expired" /\ ~x
                        THEN "enabled" ELSE @])
  BY DEF EditFields
<1> DEFINE st == IF \/ edit.row.status = "exhausted" /\ (u \/ r > 0)
                    \/ edit.row.status = "expired" /\ ~x
                 THEN "enabled" ELSE edit.row.status
           new == FieldsRow(edit.row, r, u, x, st)
<1>2. st \in Status
  BY <1>0 DEF TokenRow, Status
<1>3. r \in Int /\ u \in BOOLEAN /\ x \in BOOLEAN
  BY <1>1, RelayQuotaAssumption
<1>4. st = "exhausted" => r <= 0 /\ ~u
  BY <1>3
<1>5. SaveEdit(edit.tok, new)
  BY <1>1, Zenon DEF FieldsRow
<1> HIDE DEF st
<1>6. /\ new \in TokenRow /\ new.live = edit.row.live /\ new.status = st
      /\ new.remain = r /\ new.unlimited = u
  BY <1>0, <1>2, <1>3, FieldsEditRow
<1> HIDE DEF new
<1> QED
  BY <1>4, <1>5, <1>6

\* The status switch saves the row read with the status of the request.
LEMMA StatusSavesRow ==
    ASSUME TypeOK, EditStatus
    PROVE  \E row \in TokenRow :
             SaveEdit(edit.tok, row) /\ row.live = edit.row.live
<1>1. edit.tok \in Tokens /\ edit.row \in TokenRow /\ token[edit.tok].expired \in BOOLEAN
  BY DEF TypeOK, TokenRow
<1>2. PICK st \in Status :
        SaveEdit(edit.tok, [edit.row EXCEPT !.status = st, !.expired = token[edit.tok].expired])
  BY Zenon DEF EditStatus
<1> DEFINE new == [edit.row EXCEPT !.status = st, !.expired = token[edit.tok].expired]
<1>3. new \in TokenRow /\ new.status = st /\ new.live = edit.row.live
  <2>1. PICK was \in TokenRow, x \in BOOLEAN : was = edit.row /\ x = token[edit.tok].expired
    BY <1>1
  <2>2. LET now == [was EXCEPT !.status = st, !.expired = x] IN
        now \in TokenRow /\ now.status = st /\ now.live = was.live
    BY StatusEditRow, Zenon
  <2> QED  BY <2>1, <2>2
<1>4. SaveEdit(edit.tok, new)
  BY <1>2
<1> HIDE DEF new
<1> QED  BY <1>3, <1>4

\* Every edit saves some row.
LEMMA EditSavesRow ==
    ASSUME TypeOK, EditStatus \/ EditFields
    PROVE  \E row \in TokenRow : SaveEdit(edit.tok, row) /\ row.live = edit.row.live
  BY FieldsSaveRow, StatusSavesRow, Zenon

\* The row saved keeps the used_quota that is there.
LEMMA SavedType ==
    ASSUME TypeOK, NEW row \in TokenRow, SaveEdit(edit.tok, row)
    PROVE  token' \in [Tokens -> TokenRow]
<1>1. edit.tok \in Tokens
  BY DEF TypeOK
<1>2. ASSUME NEW n \in Int PROVE [row EXCEPT !.used = n] \in TokenRow
  BY DEF TokenRow
<1>3. token[edit.tok].used \in Int
  BY <1>1 DEF TypeOK, TokenRow
<1> QED
  BY <1>1, <1>2, <1>3 DEF SaveEdit, Saved, TypeOK

LEMMA TypeInit == Init => TypeOK
  BY RelayQuotaAssumption, TokenInitType, NoEditType DEF Init, TypeOK, Before

\* Every action keeps the types of the whole state.
LEMMA TypeStep == TypeOK /\ [Next]_vars => TypeOK'
<1> SUFFICES ASSUME TypeOK PROVE [Next]_vars => TypeOK'
    OBVIOUS
<1> USE RelayQuotaAssumption
<1> USE DEF callVars, rowVars, statVars, envVars, Goto, Before, InFlight, Final
<1>1. ASSUME NEW c \in Calls, AuthRead(c) PROVE TypeOK'
  BY <1>1 DEF TypeOK, AuthRead
<1>2. ASSUME NEW c \in Calls, AuthDecide(c) PROVE TypeOK'
  BY <1>2, MarkedType DEF TypeOK, AuthDecide
<1>3. ASSUME NEW c \in Calls, ReserveRead(c) PROVE TypeOK'
  BY <1>3 DEF TypeOK, ReserveRead
<1>4. ASSUME NEW c \in Calls, ReserveCommit(c) PROVE TypeOK'
  <2>1. TokenOf[c] \in Tokens /\ reserved[c] \in Int
    BY DEF TypeOK
  <2>2. token' \in [Tokens -> TokenRow] /\ userQuota' \in Int
    BY <1>4, <2>1, AdjustType DEF ReserveCommit, TypeOK
  <2> QED
    BY <1>4, <2>2 DEF TypeOK, ReserveCommit
<1>5. ASSUME NEW c \in Calls, ReserveRefused(c) PROVE TypeOK'
  BY <1>5 DEF TypeOK, ReserveRefused
<1>6. ASSUME NEW c \in Calls, UpstreamAnswers(c) PROVE TypeOK'
  BY <1>6 DEF TypeOK, UpstreamAnswers
<1>7. ASSUME NEW c \in Calls, UpstreamFails(c) PROVE TypeOK'
  BY <1>7 DEF TypeOK, UpstreamFails
<1>8. ASSUME NEW c \in Calls, Settle(c) PROVE TypeOK'
  <2>1. TokenOf[c] \in Tokens /\ cost[c] - reserved[c] \in Int
    BY DEF TypeOK
  <2>2. token' \in [Tokens -> TokenRow] /\ userQuota' \in Int
    BY <1>8, <2>1, AdjustType DEF Settle
  <2> QED
    BY <1>8, <2>2 DEF TypeOK, Settle, Usage, MaxOf
<1>9. ASSUME NEW c \in Calls, SettleRollsBack(c) PROVE TypeOK'
  BY <1>9 DEF TypeOK, SettleRollsBack
<1>10. ASSUME NEW c \in Calls, Refund(c) PROVE TypeOK'
  <2>1. TokenOf[c] \in Tokens /\ -reserved[c] \in Int
    BY DEF TypeOK
  <2>2. token' \in [Tokens -> TokenRow] /\ userQuota' \in Int
    BY <1>10, <2>1, AdjustType DEF Refund, TypeOK
  <2> QED
    BY <1>10, <2>2 DEF TypeOK, Refund
<1>11. ASSUME NEW c \in Calls, RefundFindsNoToken(c) PROVE TypeOK'
  BY <1>11 DEF TypeOK, RefundFindsNoToken
<1>12. ASSUME NEW c \in Calls, Retry(c) PROVE TypeOK'
  BY <1>12 DEF TypeOK, Retry
<1>13. ASSUME NEW c \in Calls, DatabaseFault(c) PROVE TypeOK'
  <2>1. /\ pc' \in [Calls -> Before \cup InFlight \cup Final]
        /\ retryable' \in [Calls -> BOOLEAN]
    BY <1>13 DEF TypeOK, DatabaseFault
  <2> QED
    BY <1>13, <2>1 DEF TypeOK, DatabaseFault
<1>14. ASSUME NEW t \in Tokens, Expire(t) PROVE TypeOK'
  BY <1>14 DEF TypeOK, Expire, TokenRow
<1>15. ASSUME NEW t \in Tokens, EditRead(t) PROVE TypeOK'
  BY <1>15 DEF TypeOK, EditRead
<1>16. ASSUME NEW t \in Tokens, DeleteToken(t) PROVE TypeOK'
  <2>0. token \in [Tokens -> TokenRow] /\ token' = [token EXCEPT ![t].live = FALSE]
    BY <1>16 DEF TypeOK, DeleteToken
  <2>1. token' \in [Tokens -> TokenRow]
    BY <2>0 DEF TokenRow
  <2> QED
    BY <1>16, <2>1 DEF TypeOK, DeleteToken
<1>18. ASSUME NEW t \in Tokens, OtherReturns(t) PROVE TypeOK'
  <2>1. PICK a \in Returns :
          /\ userQuota' = userQuota + a /\ returned' = returned + a
          /\ token' = [token EXCEPT ![t] = Returned(token[t], a)]
    BY <1>18 DEF OtherReturns
  <2>2. token \in [Tokens -> TokenRow] /\ Returned(token[t], a) \in TokenRow
    BY ReturnedFields DEF TypeOK
  <2>3. /\ token' \in [Tokens -> TokenRow] /\ userQuota' \in Int
        /\ returned' \in Nat
    BY <2>1, <2>2 DEF TypeOK
  <2> QED
    BY <1>18, <2>3 DEF TypeOK, OtherReturns
<1>17. CASE EditStatus \/ EditFields
  <2>1. PICK row \in TokenRow : SaveEdit(edit.tok, row)
    BY <1>17, EditSavesRow
  <2>2. token' \in [Tokens -> TokenRow]
    BY <2>1, SavedType
  <2>3. manualOff' \subseteq Tokens /\ edited' \subseteq Tokens
    BY <1>17, <2>1 DEF TypeOK, EditStatus, EditFields, SaveEdit
  <2> QED
    BY <2>1, <2>2, <2>3, NoEditType DEF TypeOK, SaveEdit
<1>19. CASE DeleteChannel
  <2>1. channelLive' \in BOOLEAN
    BY <1>19, Zenon DEF DeleteChannel
  <2> QED
    BY <1>19, <2>1 DEF TypeOK, DeleteChannel
<1>20. CASE TopUp
  BY <1>20 DEF TypeOK, TopUp
<1>21. CASE Crash
  BY <1>21, NoEditType DEF TypeOK, Crash
<1>22. CASE Done \/ UNCHANGED vars
  BY <1>22 DEF TypeOK, Done, vars
<1> QED
  BY <1>1, <1>2, <1>3, <1>4, <1>5, <1>6, <1>7, <1>8, <1>9, <1>10, <1>11, <1>12,
     <1>13, <1>14, <1>15, <1>16, <1>17, <1>18, <1>19, <1>20, <1>21, <1>22
     DEF Next, CallStep

\* Type correctness, for every value of the constants.
THEOREM TypeCorrect == Spec => []TypeOK
  BY TypeInit, TypeStep, PTL DEF Spec

-----------------------------------------------------------------------------
(* Which actions touch what.                                               *)

LEMMA QuotaFrame ==
    ASSUME [Next]_vars
    PROVE  \/ UNCHANGED userQuota /\ overrun' = overrun
           \/ \E c \in Calls : ReserveCommit(c) \/ Settle(c) \/ Refund(c)
           \/ TopUp
           \/ \E t \in Tokens : OtherReturns(t)
  BY DEF Next, CallStep, vars, callVars, statVars, rowVars, envVars, AuthRead,
         AuthDecide, ReserveRead, ReserveRefused, UpstreamAnswers, UpstreamFails,
         SettleRollsBack, RefundFindsNoToken, Retry, DatabaseFault, Crash, Expire,
         EditRead, EditStatus, EditFields, SaveEdit, DeleteToken, DeleteChannel, Done

LEMMA TokenFrame ==
    ASSUME [Next]_vars
    PROVE  \/ UNCHANGED token
           \/ \E c \in Calls :
                AuthDecide(c) \/ ReserveCommit(c) \/ Settle(c) \/ Refund(c)
           \/ \E t \in Tokens : Expire(t) \/ DeleteToken(t) \/ OtherReturns(t)
           \/ EditStatus \/ EditFields
  BY DEF Next, CallStep, vars, callVars, statVars, rowVars, envVars, AuthRead,
         ReserveRead, ReserveRefused, UpstreamAnswers, UpstreamFails,
         SettleRollsBack, RefundFindsNoToken, Retry, DatabaseFault, Crash,
         EditRead, DeleteChannel, TopUp, Done

-----------------------------------------------------------------------------
(* No overdraft.                                                           *)

LEMMA NoOverdraftStep ==
    ASSUME TypeOK, NoOverdraft, [Next]_vars
    PROVE  NoOverdraft'
<1> USE DEF NoOverdraft
<1>0. userQuota \in Int /\ overrun \in Nat
  BY DEF TypeOK
<1>1. CASE UNCHANGED userQuota /\ overrun' = overrun
  BY <1>1
<1>2. ASSUME NEW c \in Calls, ReserveCommit(c) PROVE NoOverdraft'
  <2>1. reserved[c] \in Nat /\ overrun' = overrun
    BY <1>2 DEF TypeOK, ReserveCommit
  <2> QED
    BY <1>0, <1>2, <2>1 DEF ReserveCommit, UserCovers, Adjust
<1>3. ASSUME NEW c \in Calls, Settle(c) PROVE NoOverdraft'
  <2>1. reserved[c] \in Nat /\ cost[c] \in Nat
    BY DEF TypeOK
  <2>2. /\ userQuota' = userQuota - (cost[c] - reserved[c])
        /\ overrun' = overrun + MaxOf(cost[c] - reserved[c], 0)
    BY <1>3 DEF Settle, Adjust
  <2> QED
    BY <1>0, <2>1, <2>2 DEF MaxOf
<1>4. ASSUME NEW c \in Calls, Refund(c) PROVE NoOverdraft'
  <2>1. reserved[c] \in Nat /\ overrun' = overrun
    BY <1>4 DEF TypeOK, Refund
  <2> QED
    BY <1>0, <1>4, <2>1 DEF Refund, Adjust
<1>5. CASE TopUp
  BY <1>0, <1>5, RelayQuotaAssumption DEF TopUp
<1>6. ASSUME NEW t \in Tokens, OtherReturns(t) PROVE NoOverdraft'
  BY <1>0, <1>6, RelayQuotaAssumption DEF OtherReturns
<1> QED
  BY <1>1, <1>2, <1>3, <1>4, <1>5, <1>6, QuotaFrame

\* However many calls, tokens and retries compete, the user's quota goes
\* below zero only by what settled calls cost beyond their reservation.
THEOREM NoOverdraftCorrect == Spec => []NoOverdraft
<1>1. Init => NoOverdraft
  BY RelayQuotaAssumption DEF Init, NoOverdraft
<1>2. TypeOK /\ NoOverdraft /\ [Next]_vars => NoOverdraft'
  BY NoOverdraftStep
<1> QED
  BY <1>1, <1>2, TypeCorrect, PTL DEF Spec

-----------------------------------------------------------------------------
(* What each way to change a token row leaves of it.                       *)

LEMMA ChargedFields ==
    ASSUME NEW row \in TokenRow, NEW d \in Int
    PROVE  LET new == Charged(row, d) IN
           /\ new.remain = row.remain - d
           /\ new.used = row.used + d
           /\ new.unlimited = row.unlimited
           /\ new.expired = row.expired
           /\ new.live = row.live
           /\ \/ new.status = row.status /\ ~(d < 0 /\ row.status = "exhausted" /\ row.remain - d > 0)
              \/ /\ d < 0 /\ row.status = "exhausted" /\ row.remain - d > 0
                 /\ new.status = "enabled"
<1> DEFINE a == [row EXCEPT !.remain = @ - d]
           b == [a EXCEPT !.used = @ + d]
           e == [b EXCEPT !.status = "enabled"]
<1>1. /\ a \in TokenRow /\ a.remain = row.remain - d /\ a.used = row.used
      /\ a.unlimited = row.unlimited /\ a.expired = row.expired
      /\ a.live = row.live /\ a.status = row.status
  BY DEF TokenRow
<1> HIDE DEF a
<1>2. /\ b \in TokenRow /\ b.remain = row.remain - d /\ b.used = row.used + d
      /\ b.unlimited = row.unlimited /\ b.expired = row.expired
      /\ b.live = row.live /\ b.status = row.status
  BY <1>1 DEF TokenRow
<1>3. b = [row EXCEPT !.remain = @ - d, !.used = @ + d]
  BY DEF a
<1> HIDE DEF b
<1>4. /\ e.remain = row.remain - d /\ e.used = row.used + d
      /\ e.unlimited = row.unlimited /\ e.expired = row.expired
      /\ e.live = row.live /\ e.status = "enabled"
  BY <1>2 DEF TokenRow
<1> HIDE DEF e
<1>5. Charged(row, d) =
        IF d < 0 /\ b.status = "exhausted" /\ b.remain > 0 THEN e ELSE b
  BY <1>3 DEF Charged, e
<1> QED
  BY <1>2, <1>4, <1>5

LEMMA MarkedFields ==
    ASSUME NEW row \in TokenRow, NEW now \in TokenRow
    PROVE  LET new == Marked(row, now) IN
           /\ new.remain = now.remain /\ new.used = now.used
           /\ new.unlimited = now.unlimited /\ new.expired = now.expired
           /\ new.live = now.live
           /\ \/ new.status = now.status
              \/ new.status = "expired"
              \/ new.status = "exhausted" /\ now.remain <= 0 /\ ~now.unlimited
  BY DEF Marked, TokenRow

-----------------------------------------------------------------------------
(* A token row after each kind of step, seen from the row of one token t.  *)

\* Row t is as it was, or it was marked by a validation, charged by a call,
\* aged, deleted, or rewritten by an edit.
LEMMA RowStep ==
    ASSUME TypeOK, [Next]_vars, NEW t \in Tokens
    PROVE  \/ token'[t] = token[t]
           \/ \E c \in Calls : TokenOf[c] = t /\ token'[t] = Marked(snap[c], token[t])
                                /\ UNCHANGED overrun
           \/ \E c \in Calls :
                /\ TokenOf[c] = t
                /\ \/ /\ ReserveCommit(c) /\ reserved[c] > 0
                      /\ token'[t] = Charged(token[t], reserved[c])
                   \/ Settle(c) /\ token'[t] = Charged(token[t], cost[c] - reserved[c])
                   \/ Refund(c) /\ token'[t] = Charged(token[t], -reserved[c])
           \/ token'[t] = [token[t] EXCEPT !.expired = TRUE] /\ UNCHANGED overrun
           \/ token'[t] = [token[t] EXCEPT !.live = FALSE] /\ UNCHANGED overrun
           \/ /\ OtherReturns(t) /\ UNCHANGED overrun
              /\ \E a \in Returns : token'[t] = Returned(token[t], a)
           \/ EditStatus /\ edit.tok = t
           \/ EditFields /\ edit.tok = t
<1>0. token \in [Tokens -> TokenRow] /\ TokenOf \in [Calls -> Tokens]
  BY RelayQuotaAssumption DEF TypeOK
<1>1. CASE UNCHANGED token
  BY <1>1
<1>2. ASSUME NEW c \in Calls, AuthDecide(c)
      PROVE  \/ token'[t] = token[t]
             \/ /\ TokenOf[c] = t /\ token'[t] = Marked(snap[c], token[t])
                /\ UNCHANGED overrun
  BY <1>0, <1>2 DEF AuthDecide
<1>3. ASSUME NEW c \in Calls, ReserveCommit(c)
      PROVE  \/ token'[t] = token[t]
             \/ TokenOf[c] = t /\ reserved[c] > 0 /\ token'[t] = Charged(token[t], reserved[c])
  BY <1>0, <1>3 DEF ReserveCommit, Adjust
<1>4. ASSUME NEW c \in Calls, Settle(c)
      PROVE  \/ token'[t] = token[t]
             \/ TokenOf[c] = t /\ token'[t] = Charged(token[t], cost[c] - reserved[c])
  BY <1>0, <1>4 DEF Settle, Adjust
<1>5. ASSUME NEW c \in Calls, Refund(c)
      PROVE  \/ token'[t] = token[t]
             \/ TokenOf[c] = t /\ token'[t] = Charged(token[t], -reserved[c])
  BY <1>0, <1>5 DEF Refund, Adjust
<1>6. ASSUME NEW u \in Tokens, Expire(u)
      PROVE  \/ token'[t] = token[t]
             \/ token'[t] = [token[t] EXCEPT !.expired = TRUE] /\ UNCHANGED overrun
  BY <1>0, <1>6 DEF Expire
<1>7. ASSUME NEW u \in Tokens, DeleteToken(u)
      PROVE  \/ token'[t] = token[t]
             \/ token'[t] = [token[t] EXCEPT !.live = FALSE] /\ UNCHANGED overrun
  BY <1>0, <1>7 DEF DeleteToken
<1>8. CASE EditStatus
  BY <1>0, <1>8 DEF EditStatus, SaveEdit
<1>9. CASE EditFields
  BY <1>0, <1>9 DEF EditFields, SaveEdit
<1>10. ASSUME NEW u \in Tokens, OtherReturns(u)
       PROVE  \/ token'[t] = token[t]
              \/ /\ OtherReturns(t) /\ UNCHANGED overrun
                 /\ \E a \in Returns : token'[t] = Returned(token[t], a)
  <2>1. PICK a \in Returns : token' = [token EXCEPT ![u] = Returned(token[u], a)]
    BY <1>0, <1>10 DEF OtherReturns
  <2>2. UNCHANGED overrun
    BY <1>10 DEF OtherReturns
  <2>3. CASE u = t
    BY <1>0, <1>10, <2>1, <2>2, <2>3
  <2>4. CASE u # t
    BY <1>0, <2>1, <2>4
  <2> QED  BY <2>3, <2>4
<1> QED
  BY <1>1, <1>2, <1>3, <1>4, <1>5, <1>6, <1>7, <1>8, <1>9, <1>10, TokenFrame

-----------------------------------------------------------------------------
(* The two tables tell the same story.                                     *)

\* What every token's row says was used.
Used == [t \in Tokens |-> token[t].used]

LEMMA UsedType == TypeOK => Used \in [Tokens -> Int]
  BY DEF TypeOK, TokenRow, Used

\* A transaction of a call moves the sum of used_quota as it moves the balance.
LEMMA AdjustMovesBoth ==
    ASSUME TypeOK, NEW t \in Tokens, NEW d \in Int, Adjust(t, d)
    PROVE  userQuota' = userQuota - d /\ SumFunction(Used') = SumFunction(Used) + d
<1>1. token[t] \in TokenRow /\ token \in [Tokens -> TokenRow]
  BY DEF TypeOK
<1>2. Charged(token[t], d).used = token[t].used + d
  BY <1>1, ChargedFields
<1>3. token' = [token EXCEPT ![t] = Charged(token[t], d)]
  BY <1>1 DEF Adjust
<1>4. Used' = [Used EXCEPT ![t] = @ + d]
  <2> DEFINE row == Charged(token[t], d)
  <2>1. row.used = token[t].used + d /\ token' = [token EXCEPT ![t] = row]
    BY <1>2, <1>3
  <2> HIDE DEF row
  <2> QED  BY <1>1, <2>1 DEF Used
<1>5. IsFiniteSet(Tokens)
  BY RelayQuotaAssumption
<1>6. SumFunction([Used EXCEPT ![t] = @ + d]) = SumFunction(Used) + d
  BY <1>5, UsedType, SumChanges
<1> QED  BY <1>4, <1>6 DEF Adjust

\* A return of the other billing moves both the other way.
LEMMA ReturnMovesBoth ==
    ASSUME TypeOK, NEW t \in Tokens, OtherReturns(t)
    PROVE  \E a \in Returns : /\ userQuota' = userQuota + a
                              /\ returned' = returned + a
                              /\ SumFunction(Used') = SumFunction(Used) - a
<1>0. token[t] \in TokenRow /\ token \in [Tokens -> TokenRow] /\ Returns \subseteq Nat
  BY RelayQuotaAssumption DEF TypeOK
<1>1. PICK a \in Returns : /\ userQuota' = userQuota + a /\ returned' = returned + a
                           /\ token' = [token EXCEPT ![t] = Returned(token[t], a)]
  BY <1>0 DEF OtherReturns
<1>2. Returned(token[t], a).used = token[t].used - a
  BY <1>0, ReturnedFields
<1>3. Used' = [Used EXCEPT ![t] = @ + (-a)]
  <2> DEFINE row == Returned(token[t], a)
  <2>1. row.used = token[t].used + (-a) /\ token' = [token EXCEPT ![t] = row]
    <3>1. token[t].used \in Int /\ a \in Int
      BY <1>0 DEF TokenRow
    <3> QED  BY <1>1, <1>2, <3>1
  <2> HIDE DEF row
  <2> QED  BY <1>0, <2>1 DEF Used
<1>4. IsFiniteSet(Tokens) /\ -a \in Int /\ a \in Int
  BY <1>0, RelayQuotaAssumption
<1>5. SumFunction([Used EXCEPT ![t] = @ + (-a)]) = SumFunction(Used) + (-a)
  BY <1>4, UsedType, SumChanges
<1>6. SumFunction(Used) \in Int
  BY <1>4, UsedType, SumType
<1> QED  BY <1>1, <1>3, <1>4, <1>5, <1>6

\* Every other step leaves used_quota alone: an edit writes it back as it is.
LEMMA UsedFrame ==
    ASSUME TypeOK, [Next]_vars,
           ~\E c \in Calls : ReserveCommit(c) \/ Settle(c) \/ Refund(c),
           ~\E t \in Tokens : OtherReturns(t)
    PROVE  Used' = Used
<1>0. token \in [Tokens -> TokenRow]
  BY DEF TypeOK
<1>1. CASE UNCHANGED token
  BY <1>1 DEF Used
<1>2. ASSUME NEW c \in Calls, AuthDecide(c) PROVE Used' = Used
  <2> DEFINE t == TokenOf[c]
  <2>1. t \in Tokens /\ snap[c] \in TokenRow /\ token[t] \in TokenRow
    BY RelayQuotaAssumption DEF TypeOK
  <2> DEFINE row == Marked(snap[c], token[t])
  <2>2. row.used = token[t].used
    BY <2>1, MarkedFields
  <2>3. token' = token \/ token' = [token EXCEPT ![t] = row]
    BY <1>2 DEF AuthDecide
  <2> HIDE DEF t, row
  <2> QED  BY <1>0, <2>1, <2>2, <2>3 DEF Used
<1>3. ASSUME NEW t \in Tokens, Expire(t) \/ DeleteToken(t) PROVE Used' = Used
  <2>1. \/ token' = [token EXCEPT ![t] = [token[t] EXCEPT !.expired = TRUE]]
        \/ token' = [token EXCEPT ![t] = [token[t] EXCEPT !.live = FALSE]]
    BY <1>0, <1>3 DEF Expire, DeleteToken
  <2>2. /\ [token[t] EXCEPT !.expired = TRUE].used = token[t].used
        /\ [token[t] EXCEPT !.live = FALSE].used = token[t].used
    BY <1>0 DEF TokenRow
  <2>3. PICK row : token' = [token EXCEPT ![t] = row] /\ row.used = token[t].used
    BY <2>1, <2>2
  <2> QED  BY <1>0, <2>3 DEF Used
<1>4. CASE EditStatus \/ EditFields
  <2>1. PICK row \in TokenRow : SaveEdit(edit.tok, row)
    BY <1>4, EditSavesRow
  <2>2. edit.tok \in Tokens
    BY DEF TypeOK
  <2>3. \/ token' = token
        \/ token' = [token EXCEPT ![edit.tok] = [row EXCEPT !.used = token[edit.tok].used]]
    BY <1>0, <2>1, <2>2 DEF SaveEdit, Saved
  <2>4. [row EXCEPT !.used = token[edit.tok].used].used = token[edit.tok].used
    BY DEF TokenRow
  <2> QED  BY <1>0, <2>2, <2>3, <2>4 DEF Used
<1> QED  BY <1>1, <1>2, <1>3, <1>4, TokenFrame

LEMMA TablesAgreeStep ==
    ASSUME TypeOK, TypeOK', TablesAgree, [Next]_vars
    PROVE  TablesAgree'
<1> DEFINE total == SumFunction(Used)
<1>0. /\ total \in Int /\ userQuota \in Int /\ funded \in Int
      /\ userQuota + total = funded /\ IsFiniteSet(Tokens)
  <2>1. IsFiniteSet(Tokens)
    BY RelayQuotaAssumption
  <2>2. SumFunction(Used) \in Int
    BY <2>1, UsedType, SumType
  <2> QED  BY <2>1, <2>2 DEF TypeOK, TablesAgree, Used
<1>s. SUFFICES userQuota' + total' = funded'
  BY DEF TablesAgree, Used
<1>1. ASSUME NEW c \in Calls, ReserveCommit(c) \/ Settle(c) \/ Refund(c)
      PROVE  userQuota' + total' = funded'
  <2>1. TokenOf[c] \in Tokens /\ reserved[c] \in Nat /\ cost[c] \in Nat
    BY RelayQuotaAssumption DEF TypeOK
  <2>2. funded' = funded
    BY <1>1 DEF ReserveCommit, Settle, Refund, envVars
  <2>3. \/ UNCHANGED <<userQuota, token>>
        \/ \E d \in Int : Adjust(TokenOf[c], d)
    <3>1. CASE ReserveCommit(c)
      BY <2>1, <3>1 DEF ReserveCommit
    <3>2. CASE Settle(c)
      <4>1. cost[c] - reserved[c] \in Int /\ Adjust(TokenOf[c], cost[c] - reserved[c])
        BY <2>1, <3>2 DEF Settle
      <4> QED  BY <4>1
    <3>3. CASE Refund(c)
      <4>1. -reserved[c] \in Int
        BY <2>1
      <4> QED  BY <3>3, <4>1 DEF Refund
    <3> QED  BY <1>1, <3>1, <3>2, <3>3
  <2>4. CASE UNCHANGED <<userQuota, token>>
    BY <1>0, <2>2, <2>4 DEF Used
  <2>5. ASSUME NEW d \in Int, Adjust(TokenOf[c], d)
        PROVE  userQuota' + total' = funded'
    <3>1. userQuota' = userQuota - d /\ total' = total + d
      BY <2>1, <2>5, AdjustMovesBoth
    <3> HIDE DEF total
    <3> QED  BY <1>0, <2>2, <3>1
  <2> QED  BY <2>3, <2>4, <2>5
<1>3. ASSUME NEW t \in Tokens, OtherReturns(t)
      PROVE  userQuota' + total' = funded'
  <2>1. PICK a \in Returns : userQuota' = userQuota + a /\ total' = total - a
    BY <1>3, ReturnMovesBoth
  <2>2. a \in Int /\ funded' = funded
    BY <1>3, RelayQuotaAssumption DEF OtherReturns
  <2> HIDE DEF total
  <2> QED  BY <1>0, <2>1, <2>2
<1>2. ASSUME ~\E c \in Calls : ReserveCommit(c) \/ Settle(c) \/ Refund(c),
             ~\E t \in Tokens : OtherReturns(t)
      PROVE  userQuota' + total' = funded'
  <2>1. total' = total
    BY <1>2, UsedFrame
  <2>2. \E a \in Int : userQuota' = userQuota + a /\ funded' = funded + a
    <3>1. CASE TopUp
      BY <3>1, RelayQuotaAssumption DEF TopUp
    <3>2. CASE ~TopUp
      <4>1. userQuota' = userQuota
        BY <1>2, <3>2, QuotaFrame
      <4>2. funded' = funded
        BY <1>2, <3>2 DEF Next, CallStep, vars, envVars, AuthRead,
           AuthDecide, ReserveRead, ReserveRefused, UpstreamAnswers, UpstreamFails,
           SettleRollsBack, RefundFindsNoToken, Retry, DatabaseFault, Crash, Expire,
           EditRead, EditStatus, EditFields, SaveEdit, DeleteToken, DeleteChannel, Done
      <4> QED  BY <1>0, <4>1, <4>2
    <3> QED  BY <3>1, <3>2
  <2> HIDE DEF total
  <2> QED  BY <1>0, <2>1, <2>2
<1> QED  BY <1>1, <1>2, <1>3

\* The users and tokens tables agree after every transaction, whatever was
\* rolled back, edited or deleted in between: what was ever added to the user's
\* quota and is no longer there, the tokens say was used.
THEOREM TablesAgreeCorrect == Spec => []TablesAgree
<1>1. Init => TablesAgree
  <2> SUFFICES ASSUME Init PROVE TablesAgree
    OBVIOUS
  <2>1. Used \in [Tokens -> Int] /\ \A t \in Tokens : Used[t] = 0
    BY DEF Init, TokenInit, Used
  <2>2. SumFunction(Used) = 0
    BY <2>1, RelayQuotaAssumption, SumZero
  <2> QED  BY <2>2, RelayQuotaAssumption DEF Init, TablesAgree, Used
<1>2. TypeOK /\ TypeOK' /\ TablesAgree /\ [Next]_vars => TablesAgree'
  BY TablesAgreeStep
<1> QED
  BY <1>1, <1>2, TypeCorrect, PTL DEF Spec

-----------------------------------------------------------------------------
(* Billing strands no token.                                               *)

LEMMA StrandsStep ==
    ASSUME TypeOK, [Next]_vars, NEW t \in Tokens,
           ~Stranded(token[t]), Stranded(token'[t])
    PROVE  (EditStatus /\ edit.tok = t) \/ OtherReturns(t)
<1> USE DEF Stranded
<1>0. token[t] \in TokenRow /\ token[t].remain \in Int
  BY DEF TypeOK, TokenRow
<1>1. token'[t] # token[t]
  OBVIOUS
<1>2. ASSUME NEW c \in Calls PROVE token'[t] # Marked(snap[c], token[t])
  <2>1. snap[c] \in TokenRow
    BY DEF TypeOK
  <2> DEFINE new == Marked(snap[c], token[t])
  <2>2. /\ new.remain = token[t].remain /\ new.unlimited = token[t].unlimited
        /\ \/ new.status = token[t].status
           \/ new.status = "expired"
           \/ new.status = "exhausted" /\ token[t].remain <= 0 /\ ~token[t].unlimited
    BY <1>0, <2>1, MarkedFields
  <2> HIDE DEF new
  <2>3. ~Stranded(new)
    BY <1>0, <2>2
  <2> QED  BY <2>3 DEF new
<1>3. ASSUME NEW d \in Int PROVE token'[t] # Charged(token[t], d)
  <2> DEFINE new == Charged(token[t], d)
  <2>1. /\ new.remain = token[t].remain - d
        /\ new.unlimited = token[t].unlimited
        /\ \/ /\ new.status = token[t].status
              /\ ~(d < 0 /\ token[t].status = "exhausted" /\ token[t].remain - d > 0)
           \/ new.status = "enabled"
    BY <1>0, ChargedFields
  <2> HIDE DEF new
  <2>2. ~Stranded(new)
    BY <1>0, <2>1
  <2> QED  BY <2>2 DEF new
<1>4. token'[t] # [token[t] EXCEPT !.expired = TRUE]
  BY <1>0 DEF TokenRow
<1>5. token'[t] # [token[t] EXCEPT !.live = FALSE]
  BY <1>0 DEF TokenRow
<1>6. ~(EditFields /\ edit.tok = t)
  <2> SUFFICES ASSUME EditFields, edit.tok = t PROVE FALSE
    OBVIOUS
  <2>1. PICK row \in TokenRow :
          /\ SaveEdit(t, row)
          /\ row.status = "exhausted" => row.remain <= 0 /\ ~row.unlimited
    BY FieldsSaveRow
  <2>2. \/ token'[t] = token[t]
        \/ token'[t] = [row EXCEPT !.used = token[t].used]
    BY <2>1 DEF SaveEdit, Saved, TypeOK
  <2> DEFINE new == [row EXCEPT !.used = token[t].used]
  <2>3. /\ new.status = row.status /\ new.remain = row.remain
        /\ new.unlimited = row.unlimited
    BY DEF TokenRow
  <2>4. row.remain \in Int
    BY DEF TokenRow
  <2>5. token'[t] = new
    BY <1>1, <2>2
  <2> HIDE DEF new
  <2> QED  BY <2>1, <2>3, <2>4, <2>5
<1>7. \A c \in Calls : reserved[c] \in Int /\ -reserved[c] \in Int /\ cost[c] - reserved[c] \in Int
  BY DEF TypeOK
<1> HIDE DEF Stranded
<1> QED  BY <1>1, <1>2, <1>3, <1>4, <1>5, <1>6, <1>7, RowStep

\* Whatever validations, charges, refunds and edits overlap, only a status
\* switch of the owner or a return of the other billing makes a token
\* exhausted while it has quota.
THEOREM OnlyOwnerStrandsCorrect == Spec => OnlyOwnerStrands
<1>1. TypeOK /\ [Next]_vars =>
        [\A t \in Tokens : Stranded(token[t])' /\ ~Stranded(token[t]) =>
           (EditStatus /\ edit.tok = t) \/ OtherReturns(t)]_vars
  <2> SUFFICES ASSUME TypeOK, [Next]_vars, NEW t \in Tokens,
                      Stranded(token[t])', ~Stranded(token[t])
               PROVE  (EditStatus /\ edit.tok = t) \/ OtherReturns(t)
    OBVIOUS
  <2>1. Stranded(token'[t])
    BY DEF Stranded
  <2> QED  BY <2>1, StrandsStep
<1> QED
  BY <1>1, TypeCorrect, PTL DEF Spec, OnlyOwnerStrands

-----------------------------------------------------------------------------
(* No overdraft of a token.                                                *)

\* The inductive form: a token no edit has touched is limited, and so was it
\* when a call that is about to reserve read it.
TokenIInv ==
    /\ \A t \in Tokens : t \notin edited =>
         ~token[t].unlimited /\ token[t].remain >= -overrun
    /\ \A c \in Calls : pc[c] = "reserving" /\ TokenOf[c] \notin edited =>
         ~snap[c].unlimited

LEMMA EditedFrame ==
    ASSUME TypeOK, [Next]_vars
    PROVE  edited \subseteq edited' /\ overrun' >= overrun /\ overrun' \in Nat
<1>1. overrun \in Nat
  BY DEF TypeOK
<1>2. overrun' >= overrun /\ overrun' \in Nat
  <2>1. CASE UNCHANGED userQuota /\ overrun' = overrun
    BY <1>1, <2>1
  <2>2. ASSUME NEW c \in Calls, ReserveCommit(c) \/ Refund(c) PROVE overrun' = overrun
    BY <2>2 DEF ReserveCommit, Refund
  <2>3. ASSUME NEW c \in Calls, Settle(c) PROVE overrun' >= overrun /\ overrun' \in Nat
    <3>1. cost[c] \in Nat /\ reserved[c] \in Nat
      BY DEF TypeOK
    <3> QED
      BY <1>1, <2>3, <3>1 DEF Settle, MaxOf
  <2>4. CASE TopUp \/ \E t \in Tokens : OtherReturns(t)
    BY <1>1, <2>4 DEF TopUp, OtherReturns
  <2> QED
    BY <1>1, <2>1, <2>2, <2>3, <2>4, QuotaFrame
<1>3. edited \subseteq edited'
  BY DEF Next, CallStep, vars, callVars, statVars, rowVars, envVars, AuthRead,
         AuthDecide, ReserveRead, ReserveCommit, ReserveRefused, UpstreamAnswers,
         UpstreamFails, Settle, SettleRollsBack, Refund, RefundFindsNoToken, Retry,
         DatabaseFault, Crash, Expire, EditRead, EditStatus, EditFields, SaveEdit,
         OtherReturns, DeleteToken, DeleteChannel, TopUp, Done
<1> QED
  BY <1>2, <1>3

\* An edit counts its token as edited.
LEMMA EditMarks ==
    ASSUME EditStatus \/ EditFields
    PROVE  edit.tok \in edited'
  BY DEF EditStatus, EditFields, SaveEdit

LEMMA TokenIInvRows ==
    ASSUME TypeOK, TokenIInv, [Next]_vars, NEW t \in Tokens, t \notin edited'
    PROVE  ~token'[t].unlimited /\ token'[t].remain >= -overrun'
<1>0. token[t] \in TokenRow /\ overrun \in Nat
  BY DEF TypeOK
<1>1. /\ ~token[t].unlimited /\ token[t].remain >= -overrun
      /\ overrun' >= overrun /\ overrun' \in Nat
  BY EditedFrame DEF TokenIInv
<1>2. token[t].remain \in Int
  BY <1>0 DEF TokenRow
<1>3. CASE token'[t] = token[t]
  BY <1>0, <1>1, <1>2, <1>3
<1>4. ASSUME NEW c \in Calls, token'[t] = Marked(snap[c], token[t])
      PROVE  ~token'[t].unlimited /\ token'[t].remain >= -overrun'
  <2>1. snap[c] \in TokenRow
    BY DEF TypeOK
  <2>2. token'[t].remain = token[t].remain /\ token'[t].unlimited = token[t].unlimited
    BY <1>0, <1>4, <2>1, MarkedFields
  <2> QED
    BY <1>0, <1>1, <1>2, <2>2
<1>5. ASSUME NEW c \in Calls, TokenOf[c] = t, reserved[c] > 0, ReserveCommit(c),
             token'[t] = Charged(token[t], reserved[c])
      PROVE  ~token'[t].unlimited /\ token'[t].remain >= -overrun'
  <2>1. reserved[c] \in Nat
    BY DEF TypeOK
  <2>2. pc[c] = "reserving" /\ TokenCovers(snap[c], t, reserved[c])
    BY <1>5 DEF ReserveCommit, Goto
  <2>3. ~snap[c].unlimited
    BY <1>5, <2>2, EditedFrame DEF TokenIInv
  <2>4. token[t].remain >= reserved[c]
    BY <2>2, <2>3 DEF TokenCovers
  <2>5. /\ token'[t].remain = token[t].remain - reserved[c]
        /\ token'[t].unlimited = token[t].unlimited
    BY <1>0, <1>5, <2>1, ChargedFields
  <2> QED
    BY <1>0, <1>1, <1>2, <2>1, <2>4, <2>5
<1>6. ASSUME NEW c \in Calls, Settle(c), token'[t] = Charged(token[t], cost[c] - reserved[c])
      PROVE  ~token'[t].unlimited /\ token'[t].remain >= -overrun'
  <2>1. cost[c] \in Nat /\ reserved[c] \in Nat
    BY DEF TypeOK
  <2>2. overrun' = overrun + MaxOf(cost[c] - reserved[c], 0)
    BY <1>6 DEF Settle
  <2>3. /\ token'[t].remain = token[t].remain - (cost[c] - reserved[c])
        /\ token'[t].unlimited = token[t].unlimited
    BY <1>0, <1>6, <2>1, ChargedFields
  <2> QED
    BY <1>0, <1>1, <1>2, <2>1, <2>2, <2>3 DEF MaxOf
<1>7. ASSUME NEW c \in Calls, token'[t] = Charged(token[t], -reserved[c])
      PROVE  ~token'[t].unlimited /\ token'[t].remain >= -overrun'
  <2>1. reserved[c] \in Nat /\ -reserved[c] \in Int
    BY DEF TypeOK
  <2>2. /\ token'[t].remain = token[t].remain - (-reserved[c])
        /\ token'[t].unlimited = token[t].unlimited
    BY <1>0, <1>7, <2>1, ChargedFields
  <2> QED
    BY <1>0, <1>1, <1>2, <2>1, <2>2
<1>8. CASE token'[t] = [token[t] EXCEPT !.expired = TRUE]
  <2>1. token'[t].remain = token[t].remain /\ token'[t].unlimited = token[t].unlimited
    BY <1>0, <1>8 DEF TokenRow
  <2> QED
    BY <1>0, <1>1, <1>2, <2>1
<1>9. CASE token'[t] = [token[t] EXCEPT !.live = FALSE]
  <2>1. token'[t].remain = token[t].remain /\ token'[t].unlimited = token[t].unlimited
    BY <1>0, <1>9 DEF TokenRow
  <2> QED
    BY <1>0, <1>1, <1>2, <2>1
<1>10. ~((EditStatus \/ EditFields) /\ edit.tok = t)
  BY EditMarks
<1>11. ASSUME NEW a \in Returns, token'[t] = Returned(token[t], a)
       PROVE  ~token'[t].unlimited /\ token'[t].remain >= -overrun'
  <2>1. a \in Nat /\ a \in Int
    BY RelayQuotaAssumption
  <2>2. token'[t].remain = token[t].remain + a /\ token'[t].unlimited = token[t].unlimited
    BY <1>0, <1>11, <2>1, ReturnedFields
  <2> QED
    BY <1>0, <1>1, <1>2, <2>1, <2>2
<1> QED
  BY <1>3, <1>4, <1>5, <1>6, <1>7, <1>8, <1>9, <1>10, <1>11, RowStep

LEMMA TokenIInvSnaps ==
    ASSUME TypeOK, TokenIInv, [Next]_vars, NEW c \in Calls,
           pc'[c] = "reserving", TokenOf[c] \notin edited'
    PROVE  ~snap'[c].unlimited
<1>0. /\ TokenOf[c] \notin edited /\ TokenOf[c] \in Tokens
      /\ pc \in [Calls -> Before \cup InFlight \cup Final]
      /\ snap \in [Calls -> TokenRow]
  BY EditedFrame, RelayQuotaAssumption DEF TypeOK
<1>1. CASE pc'[c] = pc[c] /\ snap'[c] = snap[c]
  BY <1>0, <1>1 DEF TokenIInv
<1>2. CASE ReserveRead(c)
  <2>1. snap'[c] = token[TokenOf[c]]
    BY <1>0, <1>2 DEF ReserveRead
  <2> QED
    BY <1>0, <2>1 DEF TokenIInv
<1>3. (pc'[c] = pc[c] /\ snap'[c] = snap[c]) \/ ReserveRead(c)
  <2> USE DEF callVars, Goto
  <2>1. ASSUME NEW d \in Calls, AuthRead(d) PROVE pc'[c] = pc[c] /\ snap'[c] = snap[c]
    BY <1>0, <2>1 DEF AuthRead
  <2>2. ASSUME NEW d \in Calls, ReserveRead(d), d # c
        PROVE  pc'[c] = pc[c] /\ snap'[c] = snap[c]
    BY <1>0, <2>2 DEF ReserveRead
  <2>3. ASSUME NEW d \in Calls, \/ AuthDecide(d) \/ ReserveCommit(d) \/ ReserveRefused(d)
                                \/ UpstreamAnswers(d) \/ UpstreamFails(d)
        PROVE  pc'[c] = pc[c] /\ snap'[c] = snap[c]
    BY <1>0, <2>3 DEF AuthDecide, ReserveCommit, ReserveRefused, UpstreamAnswers,
                      UpstreamFails
  <2>4. ASSUME NEW d \in Calls, \/ Settle(d) \/ SettleRollsBack(d) \/ Refund(d)
                                \/ RefundFindsNoToken(d) \/ Retry(d)
        PROVE  pc'[c] = pc[c] /\ snap'[c] = snap[c]
    BY <1>0, <2>4 DEF Settle, SettleRollsBack, Refund, RefundFindsNoToken, Retry
  <2>5. ASSUME NEW d \in Calls, DatabaseFault(d) PROVE pc'[c] = pc[c] /\ snap'[c] = snap[c]
    BY <1>0, <2>5 DEF DatabaseFault
  <2>6. ~Crash
    BY <1>0 DEF Crash, Before, InFlight
  <2>7. CASE \/ \E t \in Tokens : Expire(t) \/ EditRead(t) \/ OtherReturns(t) \/ DeleteToken(t)
             \/ EditStatus \/ EditFields \/ DeleteChannel \/ TopUp \/ Done
             \/ UNCHANGED vars
    BY <2>7 DEF Expire, EditRead, OtherReturns, DeleteToken, EditStatus, EditFields, SaveEdit,
                DeleteChannel, TopUp, Done, vars
  <2> QED
    BY <2>1, <2>2, <2>3, <2>4, <2>5, <2>6, <2>7 DEF Next, CallStep
<1> QED
  BY <1>1, <1>2, <1>3

\* A limited token nobody edited goes below zero only by what settled calls
\* cost beyond their reservation, whoever else spends on it.
THEOREM TokenNoOverdraftCorrect == Spec => []TokenNoOverdraft
<1>1. Init => TokenIInv
  <2> SUFFICES ASSUME Init PROVE TokenIInv
    OBVIOUS
  <2>1. /\ TokenInit.unlimited = FALSE /\ TokenInit.remain = InitRemain
        /\ overrun = 0 /\ \A t \in Tokens : token[t] = TokenInit
        /\ \A c \in Calls : pc[c] = "idle"
    BY DEF Init, TokenInit
  <2> QED
    BY <2>1, RelayQuotaAssumption DEF TokenIInv
<1>2. TypeOK /\ TokenIInv /\ [Next]_vars => TokenIInv'
  BY TokenIInvRows, TokenIInvSnaps DEF TokenIInv
<1>3. TokenIInv => TokenNoOverdraft
  BY DEF TokenIInv, TokenNoOverdraft
<1> QED
  BY <1>1, <1>2, <1>3, TypeCorrect, PTL DEF Spec

-----------------------------------------------------------------------------
(* Only an edit enables a token that was disabled or had expired.          *)

LEMMA RevivalStep ==
    ASSUME TypeOK, [Next]_vars, NEW t \in Tokens,
           token[t].status \in {"disabled", "expired"}, token'[t].status = "enabled"
    PROVE  edit.phase = "read" /\ edit.tok = t
<1>0. token[t] \in TokenRow
  BY DEF TypeOK
<1>1. token'[t] # token[t]
  OBVIOUS
<1>2. ASSUME NEW c \in Calls PROVE token'[t] # Marked(snap[c], token[t])
  <2>1. snap[c] \in TokenRow
    BY DEF TypeOK
  <2> QED
    BY <1>0, <2>1, MarkedFields
<1>3. ASSUME NEW d \in Int PROVE token'[t] # Charged(token[t], d)
  BY <1>0, ChargedFields
<1>4. token'[t] # [token[t] EXCEPT !.expired = TRUE]
  BY <1>0 DEF TokenRow
<1>5. token'[t] # [token[t] EXCEPT !.live = FALSE]
  BY <1>0 DEF TokenRow
<1>6. \A c \in Calls : reserved[c] \in Int /\ -reserved[c] \in Int /\ cost[c] - reserved[c] \in Int
  BY DEF TypeOK
<1>8. ASSUME NEW a \in Returns PROVE token'[t] # Returned(token[t], a)
  <2>1. a \in Int
    BY RelayQuotaAssumption
  <2> QED  BY <1>0, <2>1, ReturnedFields
<1>7. (EditStatus \/ EditFields) /\ edit.tok = t
  BY <1>1, <1>2, <1>3, <1>4, <1>5, <1>6, <1>8, RowStep
<1> QED
  BY <1>7 DEF EditStatus, EditFields

\* No refund, settlement or validation takes a disabled or expired token back
\* into service, in any interleaving.
THEOREM OnlyOwnerRevivesCorrect == Spec => OnlyOwnerRevives
<1>1. TypeOK /\ [Next]_vars =>
        [\A t \in Tokens :
           token[t].status \in {"disabled", "expired"} /\ token'[t].status = "enabled"
             => edit.phase = "read" /\ edit.tok = t]_vars
  BY RevivalStep
<1> QED
  BY <1>1, TypeCorrect, PTL DEF Spec, OnlyOwnerRevives

-----------------------------------------------------------------------------
(* Every used quota is explained.                                          *)

\* What a step of one call may change of the others' billing state: nothing.
LEMMA OthersFrame ==
    ASSUME TypeOK, NEW d \in Calls, CallStep(d) \/ Retry(d) \/ DatabaseFault(d)
    PROVE  \A c \in Calls \ {d} : /\ pc'[c] = pc[c] /\ reserved'[c] = reserved[c]
                                  /\ cost'[c] = cost[c]
<1> USE DEF Goto, callVars
<1>0. /\ pc \in [Calls -> Before \cup InFlight \cup Final]
      /\ reserved \in [Calls -> Nat] /\ cost \in [Calls -> Nat]
  BY DEF TypeOK
<1>1. CASE AuthRead(d) \/ AuthDecide(d) \/ ReserveRead(d) \/ ReserveCommit(d)
  BY <1>0, <1>1 DEF AuthRead, AuthDecide, ReserveRead, ReserveCommit
<1>2. CASE ReserveRefused(d) \/ UpstreamAnswers(d) \/ UpstreamFails(d) \/ Settle(d)
  BY <1>0, <1>2 DEF ReserveRefused, UpstreamAnswers, UpstreamFails, Settle
<1>3. CASE SettleRollsBack(d) \/ Refund(d) \/ RefundFindsNoToken(d) \/ Retry(d)
  BY <1>0, <1>3 DEF SettleRollsBack, Refund, RefundFindsNoToken, Retry
<1>4. CASE DatabaseFault(d)
  BY <1>0, <1>4 DEF DatabaseFault
<1> QED
  BY <1>1, <1>2, <1>3, <1>4 DEF CallStep

\* What every call has taken and neither settled nor given back.
Out == [c \in Calls |-> Outstanding(c)]

LEMMA OutType == TypeOK => Out \in [Calls -> Int]
  BY DEF TypeOK, Out, Outstanding

\* A step of one call changes the total by what the call's own part changes.
LEMMA OutStep ==
    ASSUME TypeOK, TypeOK', NEW d \in Calls,
           CallStep(d) \/ Retry(d) \/ DatabaseFault(d)
    PROVE  /\ Outstanding(d) \in Int /\ Outstanding(d)' \in Int
           /\ SumFunction(Out') = SumFunction(Out) + (Outstanding(d)' - Outstanding(d))
<1>1. \A c \in Calls \ {d} : Outstanding(c)' = Outstanding(c)
  BY OthersFrame DEF Outstanding
<1>2. Out \in [Calls -> Int] /\ Out' \in [Calls -> Int] /\ IsFiniteSet(Calls)
  BY OutType, RelayQuotaAssumption DEF TypeOK, Out, Outstanding
<1>3. Out[d] = Outstanding(d) /\ Out'[d] = Outstanding(d)'
  BY DEF Out
<1> DEFINE n == Outstanding(d)' - Outstanding(d)
<1>4. Outstanding(d) \in Int /\ Outstanding(d)' \in Int
  BY <1>2, <1>3
<1>5. \A c \in Calls \ {d} : Out'[c] = Out[c]
  BY <1>1 DEF Out
<1>6. Out' = [Out EXCEPT ![d] = @ + n]
  <2>1. Out'[d] = Out[d] + n
    BY <1>3, <1>4
  <2> HIDE DEF n
  <2> QED  BY <1>2, <1>5, <2>1
<1>7. n \in Int
  BY <1>4
<1> HIDE DEF n
<1>8. SumFunction([Out EXCEPT ![d] = @ + n]) = SumFunction(Out) + n
  BY <1>2, <1>7, SumChanges
<1> QED  BY <1>4, <1>6, <1>8 DEF n

\* The four numbers of the invariant are integers.
LEMMA UsageTypes ==
    ASSUME TypeOK
    PROVE  /\ SumFunction(Used) \in Int /\ SumFunction(Out) \in Int
           /\ returned \in Int /\ userUsed \in Int /\ channelUsed \in Int
<1>1. IsFiniteSet(Tokens) /\ IsFiniteSet(Calls)
  BY RelayQuotaAssumption
<1>2. SumFunction(Used) \in Int /\ SumFunction(Out) \in Int
  BY <1>1, UsedType, OutType, SumType
<1> QED  BY <1>2 DEF TypeOK

\* The three steps of a call that move money.
LEMMA UsageMoves ==
    ASSUME TypeOK, TypeOK', UsageExplained, NEW d \in Calls,
           ReserveCommit(d) \/ Settle(d) \/ Refund(d)
    PROVE  UsageExplained'
<1> DEFINE used == SumFunction(Used)
           out  == SumFunction(Out)
<1>0. /\ used \in Int /\ out \in Int /\ used' \in Int
      /\ returned \in Int /\ userUsed \in Int /\ channelUsed \in Int
      /\ used + returned = userUsed + out /\ channelUsed = userUsed
      /\ TokenOf[d] \in Tokens /\ reserved[d] \in Nat /\ cost[d] \in Nat
  <2>1. used' \in Int
    <3>1. SumFunction(Used') \in Int
      <4>1. Used' \in [Tokens -> Int]
        BY DEF TypeOK, TokenRow, Used
      <4> QED  BY <4>1, RelayQuotaAssumption, SumType
    <3> QED  BY <3>1
  <2> QED
    BY <2>1, UsageTypes, RelayQuotaAssumption DEF UsageExplained, Used, Out, TypeOK
<1>1. out' = out + (Outstanding(d)' - Outstanding(d))
  BY OutStep DEF CallStep
<1>2. SUFFICES used' + returned' = userUsed' + out' /\ channelUsed' = userUsed'
  BY DEF UsageExplained, Used, Out
<1> USE DEF Goto
<1>p. pc \in [Calls -> Before \cup InFlight \cup Final]
  BY DEF TypeOK
<1>3. CASE ReserveCommit(d)
  <2>1. Outstanding(d) = 0 /\ Outstanding(d)' = reserved[d]
    BY <1>3, <1>p DEF ReserveCommit, Outstanding, callVars, InFlight
  <2>2. returned' = returned /\ userUsed' = userUsed /\ channelUsed' = channelUsed
    BY <1>3 DEF ReserveCommit, statVars, envVars
  <2>3. used' = used + reserved[d]
    <3>1. CASE reserved[d] = 0 /\ UNCHANGED token
      BY <1>0, <3>1 DEF Used
    <3>2. CASE Adjust(TokenOf[d], reserved[d])
      <4>1. reserved[d] \in Int
        BY <1>0
      <4> QED  BY <1>0, <3>2, <4>1, AdjustMovesBoth
    <3> QED  BY <1>3, <3>1, <3>2 DEF ReserveCommit
  <2> HIDE DEF used, out
  <2> QED  BY <1>0, <1>1, <2>1, <2>2, <2>3
<1>4. CASE Settle(d)
  <2>1. Outstanding(d) = reserved[d] /\ Outstanding(d)' = 0
    BY <1>4, <1>p DEF Settle, Outstanding, InFlight
  <2>2. /\ returned' = returned /\ userUsed' = userUsed + cost[d]
        /\ channelUsed' = channelUsed + cost[d]
    BY <1>4 DEF Settle, Usage, envVars
  <2>3. used' = used + (cost[d] - reserved[d])
    <3>1. cost[d] - reserved[d] \in Int /\ Adjust(TokenOf[d], cost[d] - reserved[d])
      BY <1>0, <1>4 DEF Settle
    <3> QED  BY <1>0, <3>1, AdjustMovesBoth
  <2> HIDE DEF used, out
  <2> QED  BY <1>0, <1>1, <2>1, <2>2, <2>3
<1>5. CASE Refund(d)
  <2>1. Outstanding(d) = reserved[d] /\ Outstanding(d)' = 0
    BY <1>5, <1>p DEF Refund, Outstanding, InFlight
  <2>2. returned' = returned /\ userUsed' = userUsed /\ channelUsed' = channelUsed
    BY <1>5 DEF Refund, statVars, envVars
  <2>3. used' = used + (-reserved[d])
    <3>1. CASE reserved[d] = 0 /\ UNCHANGED token
      BY <1>0, <3>1 DEF Used
    <3>2. CASE Adjust(TokenOf[d], -reserved[d])
      <4>1. -reserved[d] \in Int
        BY <1>0
      <4> QED  BY <1>0, <3>2, <4>1, AdjustMovesBoth
    <3> QED  BY <1>5, <3>1, <3>2 DEF Refund
  <2> HIDE DEF used, out
  <2> QED  BY <1>0, <1>1, <2>1, <2>2, <2>3
<1> QED  BY <1>3, <1>4, <1>5

\* Every other step of a call leaves what it has taken as it is.
LEMMA OutFrame ==
    ASSUME TypeOK, TypeOK', [Next]_vars,
           ~\E c \in Calls : ReserveCommit(c) \/ Settle(c) \/ Refund(c)
    PROVE  Out' = Out
<1> USE DEF Goto, callVars
<1>p. pc \in [Calls -> Before \cup InFlight \cup Final]
      /\ reserved \in [Calls -> Nat]
  BY DEF TypeOK
<1>1. SUFFICES ASSUME NEW c \in Calls PROVE Outstanding(c)' = Outstanding(c)
  BY DEF Out
<1>2. ASSUME NEW d \in Calls, d # c, CallStep(d) \/ Retry(d) \/ DatabaseFault(d)
      PROVE  Outstanding(c)' = Outstanding(c)
  BY <1>2, OthersFrame DEF Outstanding
<1>3. CASE AuthRead(c) \/ AuthDecide(c) \/ ReserveRead(c) \/ ReserveRefused(c)
  BY <1>3, <1>p DEF AuthRead, AuthDecide, ReserveRead, ReserveRefused, Outstanding, InFlight
<1>4. CASE UpstreamAnswers(c) \/ UpstreamFails(c) \/ SettleRollsBack(c)
  BY <1>4, <1>p DEF UpstreamAnswers, UpstreamFails, SettleRollsBack, Outstanding, InFlight
<1>5. CASE RefundFindsNoToken(c) \/ Retry(c)
  BY <1>5, <1>p DEF RefundFindsNoToken, Retry, Outstanding, InFlight
<1>6. CASE DatabaseFault(c)
  BY <1>6, <1>p DEF DatabaseFault, Outstanding, InFlight
<1>7. CASE Crash
  BY <1>7, <1>p DEF Crash, Outstanding, InFlight, Before, Final
<1>8. CASE \/ \E t \in Tokens : Expire(t) \/ EditRead(t) \/ OtherReturns(t) \/ DeleteToken(t)
           \/ EditStatus \/ EditFields \/ DeleteChannel \/ TopUp \/ Done
           \/ UNCHANGED vars
  <2>1. UNCHANGED <<pc, reserved>>
    BY <1>8 DEF Expire, EditRead, OtherReturns, DeleteToken, EditStatus, EditFields,
                SaveEdit, DeleteChannel, TopUp, Done, vars
  <2> QED  BY <2>1 DEF Outstanding
<1> QED
  BY <1>2, <1>3, <1>4, <1>5, <1>6, <1>7, <1>8 DEF Next, CallStep

\* Nor does it, or anything but a return, touch the other columns.
LEMMA StatsFrame ==
    ASSUME [Next]_vars,
           ~\E c \in Calls : ReserveCommit(c) \/ Settle(c) \/ Refund(c)
    PROVE  /\ userUsed' = userUsed /\ channelUsed' = channelUsed
           /\ (~\E t \in Tokens : OtherReturns(t)) => returned' = returned
  BY DEF Next, CallStep, vars, callVars, statVars, rowVars, envVars, AuthRead,
         AuthDecide, ReserveRead, ReserveRefused, UpstreamAnswers, UpstreamFails,
         SettleRollsBack, RefundFindsNoToken, Retry, DatabaseFault, Crash, Expire,
         EditRead, EditStatus, EditFields, SaveEdit, OtherReturns, DeleteToken,
         DeleteChannel, TopUp, Done

LEMMA UsageStep ==
    ASSUME TypeOK, TypeOK', UsageExplained, [Next]_vars
    PROVE  UsageExplained'
<1> DEFINE used == SumFunction(Used)
           out  == SumFunction(Out)
<1>1. ASSUME NEW d \in Calls, ReserveCommit(d) \/ Settle(d) \/ Refund(d)
      PROVE  UsageExplained'
  BY <1>1, UsageMoves
<1>2. CASE ~\E c \in Calls : ReserveCommit(c) \/ Settle(c) \/ Refund(c)
  <2>0. /\ used \in Int /\ out \in Int
        /\ returned \in Int /\ userUsed \in Int /\ channelUsed \in Int
        /\ used + returned = userUsed + out /\ channelUsed = userUsed
    BY UsageTypes DEF UsageExplained, Used, Out
  <2>1. out' = out /\ userUsed' = userUsed /\ channelUsed' = channelUsed
    BY <1>2, OutFrame, StatsFrame
  <2>2. used' + returned' = used + returned
    <3>1. ASSUME NEW t \in Tokens, OtherReturns(t)
          PROVE  used' + returned' = used + returned
      <4>1. PICK a \in Returns : returned' = returned + a /\ used' = used - a
        BY <3>1, ReturnMovesBoth
      <4>2. a \in Int
        BY RelayQuotaAssumption
      <4> HIDE DEF used, out
      <4> QED  BY <2>0, <4>1, <4>2
    <3>2. CASE ~\E t \in Tokens : OtherReturns(t)
      BY <1>2, <3>2, UsedFrame, StatsFrame
    <3> QED  BY <3>1, <3>2
  <2> SUFFICES used' + returned' = userUsed' + out' /\ channelUsed' = userUsed'
    BY DEF UsageExplained, Used, Out
  <2> HIDE DEF used, out
  <2> QED  BY <2>0, <2>1, <2>2
<1> QED  BY <1>1, <1>2

\* What the tokens say was used is what calls were charged, with what is held
\* or was lost, whatever was edited, deleted, returned or left by a crash.
THEOREM UsageExplainedCorrect == Spec => []UsageExplained
<1>1. Init => UsageExplained
  <2> SUFFICES ASSUME Init PROVE UsageExplained
    OBVIOUS
  <2>1. Used \in [Tokens -> Int] /\ \A t \in Tokens : Used[t] = 0
    BY DEF Init, TokenInit, Used
  <2>2. Out \in [Calls -> Int] /\ \A c \in Calls : Out[c] = 0
    BY DEF Init, Out, Outstanding, InFlight
  <2>3. SumFunction(Used) = 0 /\ SumFunction(Out) = 0
    BY <2>1, <2>2, RelayQuotaAssumption, SumZero
  <2> QED  BY <2>3 DEF Init, UsageExplained, Used, Out
<1>2. TypeOK /\ TypeOK' /\ UsageExplained /\ [Next]_vars => UsageExplained'
  BY UsageStep
<1> QED
  BY <1>1, <1>2, TypeCorrect, PTL DEF Spec

-----------------------------------------------------------------------------
(* RelayQuota implements QuotaLedger.                                      *)

\* What a call holds is an estimate, what it will be charged is a cost.
AmountsOK ==
    \A c \in Calls :
        /\ pc[c] \in InFlight \cup {"reserving"} => reserved[c] \in Reservations
        /\ pc[c] = "settling" => cost[c] \in Costs

LEMMA AmountsStep ==
    ASSUME TypeOK, AmountsOK, [Next]_vars
    PROVE  AmountsOK'
<1> SUFFICES ASSUME NEW c \in Calls
             PROVE  /\ pc'[c] \in InFlight \cup {"reserving"} => reserved'[c] \in Reservations
                    /\ pc'[c] = "settling" => cost'[c] \in Costs
  BY DEF AmountsOK
<1> USE DEF callVars, Goto, InFlight
<1>0. /\ pc \in [Calls -> Before \cup InFlight \cup Final]
      /\ reserved \in [Calls -> Nat] /\ cost \in [Calls -> Nat]
      /\ pc[c] \in InFlight \cup {"reserving"} => reserved[c] \in Reservations
      /\ pc[c] = "settling" => cost[c] \in Costs
  BY DEF TypeOK, AmountsOK
<1> DEFINE Good == /\ pc'[c] \in InFlight \cup {"reserving"} => reserved'[c] \in Reservations
                   /\ pc'[c] = "settling" => cost'[c] \in Costs
<1>1. ASSUME NEW d \in Calls, AuthRead(d) \/ AuthDecide(d) PROVE Good
  BY <1>0, <1>1 DEF AuthRead, AuthDecide
<1>2. ASSUME NEW d \in Calls, ReserveRead(d) PROVE Good
  BY <1>0, <1>2 DEF ReserveRead
<1>3. ASSUME NEW d \in Calls, ReserveCommit(d) \/ ReserveRefused(d) PROVE Good
  BY <1>0, <1>3 DEF ReserveCommit, ReserveRefused
<1>4. ASSUME NEW d \in Calls, UpstreamAnswers(d) PROVE Good
  BY <1>0, <1>4 DEF UpstreamAnswers
<1>5. ASSUME NEW d \in Calls, UpstreamFails(d) \/ Settle(d) \/ SettleRollsBack(d) PROVE Good
  BY <1>0, <1>5 DEF UpstreamFails, Settle, SettleRollsBack
<1>6. ASSUME NEW d \in Calls, Refund(d) \/ RefundFindsNoToken(d) PROVE Good
  BY <1>0, <1>6 DEF Refund, RefundFindsNoToken
<1>7. ASSUME NEW d \in Calls, Retry(d) PROVE Good
  BY <1>0, <1>7 DEF Retry
<1>8. ASSUME NEW d \in Calls, DatabaseFault(d) PROVE Good
  BY <1>0, <1>8 DEF DatabaseFault
<1>9. CASE Crash
  BY <1>0, <1>9 DEF Crash, Before
<1>10. CASE \/ \E t \in Tokens : Expire(t) \/ EditRead(t) \/ OtherReturns(t) \/ DeleteToken(t)
            \/ EditStatus \/ EditFields \/ DeleteChannel \/ TopUp \/ Done
            \/ UNCHANGED vars
  BY <1>0, <1>10 DEF Expire, EditRead, OtherReturns, DeleteToken, EditStatus, EditFields, SaveEdit,
              DeleteChannel, TopUp, Done, vars
<1> QED
  BY <1>1, <1>2, <1>3, <1>4, <1>5, <1>6, <1>7, <1>8, <1>9, <1>10 DEF Next, CallStep

Accounts == [c \in Calls |-> AccountOf(c)]

LEMMA AccountsValue ==
    ASSUME NEW c \in Calls
    PROVE  Accounts[c] = AccountOf(c) /\ Accounts'[c] = AccountOf(c)'
  BY DEF Accounts

\* The account of a call at each point of its life, before and after a step.
LEMMA AccountBefore ==
    ASSUME NEW c \in Calls
    PROVE  /\ pc[c] \in InFlight => AccountOf(c) = [state |-> "held", amount |-> reserved[c]]
           /\ pc[c] = "refunded" => AccountOf(c) = [state |-> "released", amount |-> 0]
           /\ pc[c] \in Before \cup {"rejected"} => AccountOf(c) = [state |-> "none", amount |-> 0]
  BY DEF AccountOf, InFlight, Before

LEMMA AccountAfter ==
    ASSUME NEW c \in Calls
    PROVE  /\ pc'[c] \in InFlight => AccountOf(c)' = [state |-> "held", amount |-> reserved'[c]]
           /\ pc'[c] = "settled" => AccountOf(c)' = [state |-> "charged", amount |-> cost'[c]]
           /\ pc'[c] = "refunded" => AccountOf(c)' = [state |-> "released", amount |-> 0]
           /\ pc'[c] = "leaked" => AccountOf(c)' = [state |-> "lost", amount |-> reserved'[c]]
           /\ pc'[c] \in Before \cup {"rejected"} =>
                AccountOf(c)' = [state |-> "none", amount |-> 0]
  BY DEF AccountOf, InFlight, Before

\* A step of one call d changes at most the account of d.
LEMMA AccountStep ==
    ASSUME TypeOK, NEW d \in Calls,
           \A c \in Calls \ {d} : /\ pc'[c] = pc[c] /\ reserved'[c] = reserved[c]
                                  /\ cost'[c] = cost[c]
    PROVE  Accounts' = [Accounts EXCEPT ![d] = AccountOf(d)']
<1>1. \A c \in Calls \ {d} : AccountOf(c)' = AccountOf(c)
  BY DEF AccountOf
<1> QED
  BY <1>1 DEF Accounts

LedgerStep == Ledger!LedgerNext \/ UNCHANGED <<userQuota, Accounts>>

LEMMA SimulateCall ==
    ASSUME TypeOK, AmountsOK, NEW d \in Calls,
           CallStep(d) \/ Retry(d) \/ DatabaseFault(d)
    PROVE  LedgerStep
<1> USE DEF Goto, callVars
<1>0. /\ pc \in [Calls -> Before \cup InFlight \cup Final]
      /\ reserved \in [Calls -> Nat] /\ cost \in [Calls -> Nat] /\ userQuota \in Int
      /\ pc[d] \in InFlight \cup {"reserving"} => reserved[d] \in Reservations
      /\ pc[d] = "settling" => cost[d] \in Costs
  BY DEF TypeOK, AmountsOK
<1>a. Accounts' = [Accounts EXCEPT ![d] = AccountOf(d)']
  BY OthersFrame, AccountStep
<1>b. Accounts[d] = AccountOf(d)
  BY DEF Accounts
<1>c. ASSUME AccountOf(d)' = AccountOf(d), UNCHANGED userQuota PROVE LedgerStep
  BY <1>a, <1>b, <1>c DEF LedgerStep, Accounts
<1>1. CASE AuthRead(d) \/ AuthDecide(d) \/ ReserveRead(d) \/ ReserveRefused(d)
  <2>1. pc[d] \in Before \cup {"rejected"} /\ pc'[d] \in Before \cup {"rejected"}
        /\ UNCHANGED userQuota
    BY <1>0, <1>1 DEF AuthRead, AuthDecide, ReserveRead, ReserveRefused, rowVars, Before
  <2> QED
    BY <1>c, <2>1, AccountBefore, AccountAfter
<1>2. CASE UpstreamAnswers(d) \/ UpstreamFails(d) \/ SettleRollsBack(d)
  <2>1. /\ pc[d] \in InFlight /\ pc'[d] \in InFlight
        /\ UNCHANGED <<userQuota, reserved>>
    BY <1>0, <1>2 DEF UpstreamAnswers, UpstreamFails, SettleRollsBack, rowVars, InFlight
  <2> QED
    BY <1>c, <2>1, AccountBefore, AccountAfter
<1>3. CASE ReserveCommit(d)
  <2>1. /\ pc[d] \in Before /\ pc'[d] \in InFlight /\ reserved'[d] = reserved[d]
        /\ reserved[d] = 0 \/ reserved[d] <= userQuota
        /\ userQuota' = userQuota - reserved[d]
        /\ reserved[d] \in Reservations
    BY <1>0, <1>3 DEF ReserveCommit, Adjust, UserCovers, Before, InFlight
  <2>2. /\ Accounts[d].state = "none"
        /\ Accounts' = [Accounts EXCEPT ![d] = [state |-> "held", amount |-> reserved[d]]]
    <3>1. AccountOf(d) = [state |-> "none", amount |-> 0]
      BY <2>1, AccountBefore
    <3>2. AccountOf(d)' = [state |-> "held", amount |-> reserved[d]]
      BY <2>1, AccountAfter
    <3> QED
      BY <1>a, <1>b, <3>1, <3>2
  <2>3. Ledger!Hold(d)
    BY <2>1, <2>2 DEF Ledger!Hold, Accounts
  <2> QED
    BY <2>3 DEF LedgerStep, Ledger!LedgerNext
<1>4. CASE Settle(d)
  <2>1. /\ pc[d] \in InFlight /\ pc'[d] = "settled" /\ cost'[d] = cost[d]
        /\ userQuota' = userQuota - (cost[d] - reserved[d]) /\ cost[d] \in Costs
    BY <1>0, <1>4 DEF Settle, Adjust, InFlight
  <2>2. /\ Accounts[d] = [state |-> "held", amount |-> reserved[d]]
        /\ Accounts' = [Accounts EXCEPT ![d] = [state |-> "charged", amount |-> cost[d]]]
    BY <1>a, <1>b, <2>1, AccountBefore, AccountAfter
  <2>3. /\ userQuota' = userQuota + Accounts[d].amount - cost[d]
        /\ Accounts[d].state = "held"
    BY <1>0, <2>1, <2>2
  <2>4. cost[d] \in Reservations \cup Costs \cup TopUps \cup Returns
    BY <2>1
  <2>5. Accounts' = [Accounts EXCEPT ![d] = [state |-> "charged", amount |-> cost[d]]]
    BY <2>2
  <2>6. Ledger!Charge(d)
    BY <2>3, <2>4, <2>5 DEF Ledger!Charge, Accounts
  <2> QED
    BY <2>6 DEF LedgerStep, Ledger!LedgerNext
<1>5. CASE Refund(d)
  <2>1. /\ pc[d] \in InFlight /\ pc'[d] = "refunded"
        /\ userQuota' = userQuota + reserved[d]
    BY <1>0, <1>5 DEF Refund, Adjust, InFlight
  <2>2. /\ Accounts[d] = [state |-> "held", amount |-> reserved[d]]
        /\ Accounts' = [Accounts EXCEPT ![d] = [state |-> "released", amount |-> 0]]
    BY <1>a, <1>b, <2>1, AccountBefore, AccountAfter
  <2>3. Ledger!Release(d)
    BY <2>1, <2>2 DEF Ledger!Release, Accounts
  <2> QED
    BY <2>3 DEF LedgerStep, Ledger!LedgerNext
<1>6. CASE Retry(d)
  <2>1. pc[d] = "refunded" /\ pc'[d] \in Before /\ UNCHANGED userQuota
    BY <1>0, <1>6 DEF Retry, rowVars, Before
  <2>2. /\ Accounts[d].state = "released"
        /\ Accounts' = [Accounts EXCEPT ![d] = [state |-> "none", amount |-> 0]]
    <3>1. AccountOf(d) = [state |-> "released", amount |-> 0]
      BY <2>1, AccountBefore
    <3>2. AccountOf(d)' = [state |-> "none", amount |-> 0]
      BY <2>1, AccountAfter
    <3> QED
      BY <1>a, <1>b, <3>1, <3>2
  <2>3. Ledger!Again(d)
    BY <2>1, <2>2 DEF Ledger!Again, Accounts
  <2> QED
    BY <2>3 DEF LedgerStep, Ledger!LedgerNext
<1>7. CASE RefundFindsNoToken(d) \/ DatabaseFault(d)
  <2>1. UNCHANGED <<userQuota, reserved>>
    BY <1>7 DEF RefundFindsNoToken, DatabaseFault, rowVars
  <2>2. \/ pc[d] \in InFlight /\ pc'[d] = "leaked"
        \/ pc[d] \in Before /\ pc'[d] = "rejected"
        \/ pc[d] \in InFlight /\ pc'[d] \in InFlight
    BY <1>0, <1>7 DEF RefundFindsNoToken, DatabaseFault, InFlight, Before
  <2>3. CASE pc[d] \in Before /\ pc'[d] = "rejected"
    BY <1>c, <2>1, <2>3, AccountBefore, AccountAfter
  <2>4. CASE pc[d] \in InFlight /\ pc'[d] \in InFlight
    BY <1>c, <2>1, <2>4, AccountBefore, AccountAfter
  <2>5. CASE pc[d] \in InFlight /\ pc'[d] = "leaked"
    <3>1. /\ Accounts[d] = [state |-> "held", amount |-> reserved[d]]
          /\ Accounts' = [Accounts EXCEPT ![d] = [state |-> "lost", amount |-> reserved[d]]]
      BY <1>a, <1>b, <2>1, <2>5, AccountBefore, AccountAfter
    <3>2. Accounts' = [c \in Calls |-> IF c \in {d} THEN [Accounts[c] EXCEPT !.state = "lost"]
                                       ELSE Accounts[c]]
      <4>1. [Accounts[d] EXCEPT !.state = "lost"] = [state |-> "lost", amount |-> reserved[d]]
        BY <3>1
      <4>2. Accounts = [c \in Calls |-> Accounts[c]]
        BY DEF Accounts
      <4> QED
        BY <3>1, <4>1, <4>2
    <3>3. Ledger!Lose({d})
      BY <2>1, <3>1, <3>2 DEF Ledger!Lose, Accounts
    <3> QED
      BY <3>3 DEF LedgerStep, Ledger!LedgerNext
  <2> QED
    BY <2>2, <2>3, <2>4, <2>5
<1> QED
  BY <1>1, <1>2, <1>3, <1>4, <1>5, <1>6, <1>7 DEF CallStep

LEMMA SimulateCrash ==
    ASSUME TypeOK, Crash
    PROVE  LedgerStep
<1> DEFINE S == {c \in Calls : pc[c] \in InFlight}
<1>0. pc \in [Calls -> Before \cup InFlight \cup Final]
  BY DEF TypeOK
<1>1. ASSUME NEW c \in S
      PROVE  /\ Accounts[c].state = "held"
             /\ Accounts'[c] = [Accounts[c] EXCEPT !.state = "lost"]
  <2>1. pc[c] \in InFlight /\ pc'[c] = "leaked" /\ reserved'[c] = reserved[c]
    BY DEF Crash, InFlight, Before
  <2>2. Accounts[c] = [state |-> "held", amount |-> reserved[c]]
    BY <2>1, AccountBefore, AccountsValue
  <2>3. Accounts'[c] = [state |-> "lost", amount |-> reserved[c]]
    <3>1. AccountOf(c)' = [state |-> "lost", amount |-> reserved[c]]
      BY <2>1, AccountAfter
    <3> QED
      BY <3>1, AccountsValue
  <2> QED
    BY <2>2, <2>3
<1>2. ASSUME NEW c \in Calls \ S PROVE Accounts'[c] = Accounts[c]
  <2>1. /\ reserved'[c] = reserved[c] /\ cost'[c] = cost[c]
        /\ \/ pc'[c] = pc[c]
           \/ pc[c] \in Before /\ pc'[c] = "rejected"
    BY DEF Crash, InFlight, Before
  <2>2. CASE pc'[c] = pc[c]
    BY <2>1, <2>2, AccountsValue DEF AccountOf
  <2>3. CASE pc[c] \in Before /\ pc'[c] = "rejected"
    BY <2>3, AccountBefore, AccountAfter, AccountsValue
  <2> QED
    BY <2>1, <2>2, <2>3
<1>3. Accounts' = [c \in Calls |-> IF c \in S THEN [Accounts[c] EXCEPT !.state = "lost"]
                                   ELSE Accounts[c]]
  <2>1. \A c \in Calls : Accounts'[c] = IF c \in S THEN [Accounts[c] EXCEPT !.state = "lost"]
                                        ELSE Accounts[c]
    BY <1>1, <1>2
  <2> HIDE DEF S
  <2> QED
    BY <2>1 DEF Accounts
<1>4. S \in SUBSET Calls /\ (\A c \in S : Accounts[c].state = "held") /\ UNCHANGED userQuota
  BY <1>1 DEF Crash, rowVars
<1> HIDE DEF S
<1>5. Ledger!Lose(S)
  BY <1>3, <1>4 DEF Ledger!Lose, Accounts
<1> QED
  BY <1>4, <1>5 DEF LedgerStep, Ledger!LedgerNext

\* Every step of the calls, the owner, the operator and the faults is a step of
\* the ledger or leaves it alone.
LEMMA Simulation ==
    ASSUME TypeOK, AmountsOK, [Next]_vars
    PROVE  LedgerStep
<1>1. ASSUME NEW d \in Calls, CallStep(d) \/ Retry(d) \/ DatabaseFault(d)
      PROVE  LedgerStep
  BY <1>1, SimulateCall
<1>2. CASE Crash
  BY <1>2, SimulateCrash
<1>3. CASE TopUp
  <2>1. Ledger!Fund
    <3>1. PICK a \in TopUps : userQuota' = userQuota + a
      BY <1>3 DEF TopUp
    <3>2. UNCHANGED Accounts
      BY <1>3 DEF TopUp, callVars, Accounts, AccountOf
    <3> QED
      BY <3>1, <3>2 DEF Ledger!Fund, Accounts
  <2> QED
    BY <2>1 DEF LedgerStep, Ledger!LedgerNext
<1>5. ASSUME NEW t \in Tokens, OtherReturns(t) PROVE LedgerStep
  <2>1. PICK a \in Returns : userQuota' = userQuota + a
    BY <1>5 DEF OtherReturns
  <2>2. UNCHANGED Accounts
    BY <1>5 DEF OtherReturns, callVars, Accounts, AccountOf
  <2>3. Ledger!Fund
    BY <2>1, <2>2 DEF Ledger!Fund, Accounts
  <2> QED
    BY <2>3 DEF LedgerStep, Ledger!LedgerNext
<1>4. CASE \/ \E t \in Tokens : Expire(t) \/ EditRead(t) \/ DeleteToken(t)
           \/ EditStatus \/ EditFields \/ DeleteChannel \/ Done \/ UNCHANGED vars
  <2>1. UNCHANGED <<userQuota, pc, reserved, cost>>
    BY <1>4 DEF Expire, EditRead, DeleteToken, EditStatus, EditFields, SaveEdit,
                DeleteChannel, Done, vars, callVars, rowVars
  <2> QED
    BY <2>1 DEF LedgerStep, Accounts, AccountOf
<1> QED
  BY <1>1, <1>2, <1>3, <1>4, <1>5 DEF Next

\* Billing in two tables, with validations, edits and faults around it,
\* implements the one balance with one hold per call.
THEOREM LedgerImplemented == Spec => ImplementsLedger
<1>1. Init => Ledger!LedgerInit /\ AmountsOK
  BY RelayQuotaAssumption DEF Init, Ledger!LedgerInit, AmountsOK, AccountOf, InFlight
<1>2. TypeOK /\ AmountsOK /\ [Next]_vars => AmountsOK'
  BY AmountsStep
<1>3. TypeOK /\ AmountsOK /\ [Next]_vars => [Ledger!LedgerNext]_(Ledger!ledgerVars)
  BY Simulation DEF LedgerStep, Ledger!ledgerVars, Accounts
<1> QED
  BY <1>1, <1>2, <1>3, TypeCorrect, PTL DEF Spec, ImplementsLedger, Ledger!LedgerSpec
=============================================================================
