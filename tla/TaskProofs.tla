------------------------------ MODULE TaskProofs ------------------------------
(***************************************************************************)
(* Theorems about the tasks of the image and video providers: first about  *)
(* FluxTask, for every set of tasks, workers and quotas, then about        *)
(* VideoTask, for every kind of provider and every number of tasks,        *)
(* handlers, errors and mishaps.                                           *)
(***************************************************************************)
EXTENDS FluxTask, VideoTask, FiniteSetTheorems, TLAPS

\* Quotas a row may hold and a goroutine may have read.
Prices == Quotas \cup {Price, 0}

PricesInv ==
    /\ \A t \in Tasks : quota[t] \in Prices
    /\ \A k \in Workers : seen[k] \in Prices

\* A worker that is not idle has a task, and past the first read of the row
\* the task's id is in the row.
JobsInv ==
    \A k \in Workers :
        /\ at[k] # "idle" => job[k] \in Tasks
        /\ at[k] \notin {"idle", "called"} => job[k] \in known

\* Until the request saves the task_id it is alone with the row.
RequestInv ==
    \A t \in Tasks :
        /\ req[t] = "new" => status[t] = "none"
        /\ req[t] \in {"checking", "sent", "answered"} => status[t] = "pending"
        /\ t \in known => req[t] \in {"charging", "ended"}
        /\ t \in known => status[t] \in {"submitted", "processing", "success", "failed"}

\* The request that has won and not yet charged.
SyncInv ==
    \A t \in Tasks : req[t] = "charging" =>
        status[t] = "success" /\ charged[t] = 0 /\ t \in known

\* The callback that has won and not yet charged; it is the only one.
ChargeInv ==
    \A k \in Workers : at[k] = "charging" =>
        /\ status[job[k]] = "success" /\ charged[job[k]] = 0
        /\ seen[k] = quota[job[k]]
        /\ req[job[k]] # "charging"
        /\ \A j \in Workers : at[j] = "charging" /\ job[j] = job[k] => j = k

\* Who reconciles a task has put it into fluxInflight, and put it there alone.
Reconciling(k) == at[k] \in {"acquired", "polled"}

InflightInv ==
    /\ \A k \in Workers : Reconciling(k) => job[k] \in inflight
    /\ \A j, k \in Workers : Reconciling(j) /\ Reconciling(k) /\ job[j] = job[k] => j = k
    /\ \A t \in inflight : \E k \in Workers : Reconciling(k) /\ job[k] = t

BillingInv == PricesInv /\ JobsInv /\ RequestInv /\ SyncInv /\ ChargeInv /\ ChargedAsRecorded

IInv == TypeOK /\ BillingInv /\ InflightInv

-----------------------------------------------------------------------------
(* Type correctness.                                                       *)

LEMMA TypeInit == Init => TypeOK
<1> USE FluxTaskAssumption
<1> QED  BY DEF Init, TypeOK, Waiting, Terminal, Ends

LEMMA TypeRequest ==
    ASSUME TypeOK, NEW t \in Tasks, RequestStep(t) \/ SaveLost(t) \/ Finish(t) \/ Age(t)
    PROVE  TypeOK'
<1> USE FluxTaskAssumption DEF TypeOK, Waiting, Terminal, Ends, workVars, rowVars
<1>1. CASE Create(t)  BY <1>1 DEF Create
<1>2. CASE Send(t)  BY <1>2 DEF Send
<1>3. CASE RequestFails(t)  BY <1>3 DEF RequestFails
<1>4. CASE Answer(t)  BY <1>4 DEF Answer
<1>5. CASE SaveSubmitted(t)  BY <1>5 DEF SaveSubmitted
<1>6. CASE SaveFailed(t)  BY <1>6 DEF SaveFailed
<1>7. CASE SyncSuccess(t)  BY <1>7 DEF SyncSuccess, SetTerminal
<1>8. CASE SyncCharge(t)  BY <1>8 DEF SyncCharge, ChargeQuota
<1>9. CASE SaveLost(t)  BY <1>9 DEF SaveLost, Fault
<1>10. CASE Finish(t)  BY <1>10 DEF Finish
<1>11. CASE Age(t)  BY <1>11 DEF Age
<1> QED  BY <1>1, <1>2, <1>3, <1>4, <1>5, <1>6, <1>7, <1>8, <1>9, <1>10, <1>11
            DEF RequestStep

LEMMA TypeBegin ==
    ASSUME TypeOK, NEW k \in Workers, NEW t \in Tasks,
           Webhook(k, t) \/ Query(k, t) \/ List(k, t)
    PROVE  TypeOK'
<1> USE FluxTaskAssumption DEF TypeOK, Begin, Ends, rowVars
<1>1. CASE Webhook(k, t)
  <2> PICK n \in {"running", upstream[t]} : Begin(k, "called", t, n)
    BY <1>1 DEF Webhook
  <2> QED  BY <1>1 DEF Webhook
<1>2. CASE Query(k, t)  BY <1>2 DEF Query
<1>3. CASE List(k, t)  BY <1>3 DEF List
<1> QED  BY <1>1, <1>2, <1>3

LEMMA TypeWorker ==
    ASSUME TypeOK, JobsInv, NEW k \in Workers, WorkerStep(k) \/ CallbackFault(k)
    PROVE  TypeOK'
<1> USE FluxTaskAssumption DEF TypeOK, JobsInv, End, Release, Waiting, Terminal, Ends,
        rowVars, SetTerminal, QuotaOr, CanSet
<1>1. CASE ReadRow(k)  BY <1>1 DEF ReadRow
<1>2. CASE CallbackSucceeds(k)  BY <1>2 DEF CallbackSucceeds
<1>3. CASE CallbackFails(k)  BY <1>3 DEF CallbackFails
<1>4. CASE CallbackProcessing(k)  BY <1>4 DEF CallbackProcessing
<1>5. CASE Charge(k)  BY <1>5 DEF Charge, ChargeQuota
<1>6. CASE Acquire(k)  BY <1>6 DEF Acquire, TryAcquire
<1>7. CASE Duplicate(k)  BY <1>7 DEF Duplicate
<1>8. CASE Poll(k)  BY <1>8 DEF Poll
<1>9. CASE Leave(k)  BY <1>9 DEF Leave
<1>10. CASE ReconcileSucceeds(k)  BY <1>10 DEF ReconcileSucceeds
<1>11. CASE ReconcileFails(k)  BY <1>11 DEF ReconcileFails
<1>12. CASE CallbackFault(k)  BY <1>12 DEF CallbackFault, Fault
<1> QED  BY <1>1, <1>2, <1>3, <1>4, <1>5, <1>6, <1>7, <1>8, <1>9, <1>10, <1>11, <1>12
            DEF WorkerStep

LEMMA TypeRest ==
    ASSUME TypeOK, Expire \/ Crash \/ Done \/ UNCHANGED vars
    PROVE  TypeOK'
<1> USE FluxTaskAssumption DEF TypeOK, Waiting, Terminal, Ends, rowVars, workVars
<1>1. CASE Expire  BY <1>1 DEF Expire, Stuck
<1>2. CASE Crash  BY <1>2 DEF Crash, Fault
<1>3. CASE Done \/ UNCHANGED vars  BY <1>3 DEF Done, vars
<1> QED  BY <1>1, <1>2, <1>3

-----------------------------------------------------------------------------
(* The billing invariant: who has won a task and not yet charged it is     *)
(* alone with it.                                                          *)

LEMMA BillingInit == Init => BillingInv
<1> QED  BY DEF Init, BillingInv, PricesInv, JobsInv, RequestInv, SyncInv, ChargeInv,
            ChargedAsRecorded, Prices

LEMMA BillingRequest ==
    ASSUME TypeOK, BillingInv, NEW t \in Tasks,
           RequestStep(t) \/ SaveLost(t) \/ Finish(t) \/ Age(t)
    PROVE  BillingInv'
<1> USE FluxTaskAssumption DEF TypeOK, BillingInv, PricesInv, JobsInv, RequestInv, SyncInv,
        ChargeInv, ChargedAsRecorded, Prices, Waiting, Terminal, workVars, rowVars
<1>1. CASE Create(t)  BY <1>1 DEF Create
<1>2. CASE Send(t)  BY <1>2 DEF Send
<1>3. CASE RequestFails(t)  BY <1>3 DEF RequestFails
<1>4. CASE Answer(t)  BY <1>4 DEF Answer
<1>5. CASE SaveSubmitted(t)  BY <1>5 DEF SaveSubmitted
<1>6. CASE SaveFailed(t)  BY <1>6 DEF SaveFailed
<1>7. CASE SyncSuccess(t)  BY <1>7 DEF SyncSuccess, SetTerminal, CanSet
<1>8. CASE SyncCharge(t)  BY <1>8 DEF SyncCharge, ChargeQuota
<1>9. CASE SaveLost(t)  BY <1>9 DEF SaveLost, Fault
<1>10. CASE Finish(t)  BY <1>10 DEF Finish
<1>11. CASE Age(t)  BY <1>11 DEF Age
<1> QED  BY <1>1, <1>2, <1>3, <1>4, <1>5, <1>6, <1>7, <1>8, <1>9, <1>10, <1>11
            DEF RequestStep

LEMMA BillingBegin ==
    ASSUME TypeOK, BillingInv, NEW k \in Workers, NEW t \in Tasks,
           Webhook(k, t) \/ Query(k, t) \/ List(k, t)
    PROVE  BillingInv'
<1> USE FluxTaskAssumption DEF TypeOK, BillingInv, PricesInv, JobsInv, RequestInv, SyncInv,
        ChargeInv, ChargedAsRecorded, Prices, Begin, rowVars
<1>1. CASE Webhook(k, t)
  <2> PICK n \in {"running", upstream[t]} : Begin(k, "called", t, n)
    BY <1>1 DEF Webhook
  <2> QED  BY <1>1 DEF Webhook
<1>2. CASE Query(k, t)  BY <1>2 DEF Query
<1>3. CASE List(k, t)  BY <1>3 DEF List, Stuck
<1> QED  BY <1>1, <1>2, <1>3

LEMMA BillingWorker ==
    ASSUME TypeOK, BillingInv, NEW k \in Workers, WorkerStep(k) \/ CallbackFault(k)
    PROVE  BillingInv'
<1> USE FluxTaskAssumption DEF TypeOK, BillingInv, PricesInv, JobsInv, RequestInv, SyncInv,
        ChargeInv, ChargedAsRecorded, Prices, End, Release, Waiting, Terminal,
        rowVars, SetTerminal, QuotaOr, CanSet
<1>1. CASE ReadRow(k)  BY <1>1 DEF ReadRow
<1>2. CASE CallbackSucceeds(k)  BY <1>2 DEF CallbackSucceeds
<1>3. CASE CallbackFails(k)  BY <1>3 DEF CallbackFails
<1>4. CASE CallbackProcessing(k)  BY <1>4 DEF CallbackProcessing
<1>5. CASE Charge(k)  BY <1>5 DEF Charge, ChargeQuota
<1>6. CASE Acquire(k)  BY <1>6 DEF Acquire, TryAcquire
<1>7. CASE Duplicate(k)  BY <1>7 DEF Duplicate
<1>8. CASE Poll(k)  BY <1>8 DEF Poll
<1>9. CASE Leave(k)  BY <1>9 DEF Leave
<1>10. CASE ReconcileSucceeds(k)  BY <1>10 DEF ReconcileSucceeds
<1>11. CASE ReconcileFails(k)  BY <1>11 DEF ReconcileFails
<1>12. CASE CallbackFault(k)  BY <1>12 DEF CallbackFault, Fault
<1> QED  BY <1>1, <1>2, <1>3, <1>4, <1>5, <1>6, <1>7, <1>8, <1>9, <1>10, <1>11, <1>12
            DEF WorkerStep

LEMMA BillingRest ==
    ASSUME TypeOK, BillingInv, Expire \/ Crash \/ Done \/ UNCHANGED vars
    PROVE  BillingInv'
<1> USE FluxTaskAssumption DEF TypeOK, BillingInv, PricesInv, JobsInv, RequestInv, SyncInv,
        ChargeInv, ChargedAsRecorded, Prices, rowVars, workVars
<1>1. CASE Expire  BY <1>1 DEF Expire, Stuck
<1>2. CASE Crash  BY <1>2 DEF Crash, Fault
<1>3. CASE Done \/ UNCHANGED vars  BY <1>3 DEF Done, vars
<1> QED  BY <1>1, <1>2, <1>3

-----------------------------------------------------------------------------
(* Who reconciles what.                                                    *)

LEMMA InflightInit == Init => InflightInv
<1> QED  BY DEF Init, InflightInv, Reconciling

LEMMA InflightFrame ==
    ASSUME TypeOK, InflightInv, NEW k \in Workers, ~Reconciling(k),
           at' = [at EXCEPT ![k] = at'[k]], job' = [job EXCEPT ![k] = job'[k]],
           at'[k] \notin {"acquired", "polled"}, inflight' = inflight
    PROVE  InflightInv'
<1> QED  BY DEF TypeOK, InflightInv, Reconciling

LEMMA InflightWorker ==
    ASSUME TypeOK, JobsInv, InflightInv, NEW k \in Workers, WorkerStep(k) \/ CallbackFault(k)
    PROVE  InflightInv'
<1> USE DEF TypeOK, JobsInv, End
<1>1. CASE ReadRow(k)  BY <1>1, InflightFrame DEF ReadRow, Reconciling
<1>2. CASE CallbackSucceeds(k)  BY <1>2, InflightFrame DEF CallbackSucceeds, Reconciling
<1>3. CASE CallbackFails(k)  BY <1>3, InflightFrame DEF CallbackFails, Reconciling
<1>4. CASE CallbackProcessing(k)  BY <1>4, InflightFrame DEF CallbackProcessing, Reconciling
<1>5. CASE Charge(k)  BY <1>5, InflightFrame DEF Charge, Reconciling
<1>6. CASE Acquire(k)
  BY <1>6 DEF Acquire, TryAcquire, InflightInv, Reconciling
<1>7. CASE Duplicate(k)  BY <1>7, InflightFrame DEF Duplicate, Reconciling
<1>8. CASE Poll(k)  BY <1>8 DEF Poll, InflightInv, Reconciling
<1>9. CASE Leave(k) \/ ReconcileSucceeds(k) \/ ReconcileFails(k)
  <2>1. at[k] = "polled" /\ Release(k)
    BY <1>9 DEF Leave, ReconcileSucceeds, ReconcileFails
  <2> QED  BY <2>1 DEF Release, InflightInv, Reconciling
<1>10. CASE CallbackFault(k)  BY <1>10, InflightFrame DEF CallbackFault, Reconciling
<1> QED  BY <1>1, <1>2, <1>3, <1>4, <1>5, <1>6, <1>7, <1>8, <1>9, <1>10 DEF WorkerStep

LEMMA InflightNext == TypeOK /\ JobsInv /\ InflightInv /\ [Next]_vars => InflightInv'
<1> SUFFICES ASSUME TypeOK, JobsInv, InflightInv, [Next]_vars PROVE InflightInv'
  OBVIOUS
<1>1. CASE (\E t \in Tasks : RequestStep(t) \/ SaveLost(t) \/ Finish(t) \/ Age(t))
           \/ Expire \/ Done \/ UNCHANGED vars
  <2>1. UNCHANGED <<at, job, inflight>>
    BY <1>1 DEF RequestStep, Create, Send, RequestFails, Answer, SaveSubmitted, SaveFailed,
       SyncSuccess, SyncCharge, SaveLost, Finish, Age, Expire, Done, vars, workVars
  <2> QED  BY <2>1 DEF InflightInv, Reconciling
<1>2. ASSUME NEW k \in Workers, NEW t \in Tasks, Webhook(k, t) \/ Query(k, t) \/ List(k, t)
      PROVE  InflightInv'
  <2>1. PICK where \in {"called", "listed"}, n \in {"none", "running", upstream[t]} :
          Begin(k, where, t, n)
    BY <1>2 DEF Webhook, Query, List
  <2>2. inflight' = inflight  BY <1>2 DEF Webhook, Query, List
  <2> QED  BY <2>1, <2>2, InflightFrame DEF Begin, Reconciling, TypeOK
<1>3. ASSUME NEW k \in Workers, WorkerStep(k) \/ CallbackFault(k) PROVE InflightInv'
  BY <1>3, InflightWorker
<1>4. CASE Crash  BY <1>4 DEF Crash, InflightInv, Reconciling
<1> QED  BY <1>1, <1>2, <1>3, <1>4 DEF Next

-----------------------------------------------------------------------------
LEMMA IInvAlways == Spec => []IInv
<1>1. Init => IInv
  BY TypeInit, BillingInit, InflightInit DEF IInv
<1>2. IInv /\ [Next]_vars => IInv'
  <2> SUFFICES ASSUME IInv, [Next]_vars PROVE TypeOK' /\ BillingInv'
    BY InflightNext DEF IInv, BillingInv
  <2> USE DEF IInv
  <2>1. ASSUME NEW t \in Tasks, RequestStep(t) \/ SaveLost(t) \/ Finish(t) \/ Age(t)
        PROVE  TypeOK' /\ BillingInv'
    BY <2>1, TypeRequest, BillingRequest
  <2>2. ASSUME NEW k \in Workers, NEW t \in Tasks, Webhook(k, t) \/ Query(k, t) \/ List(k, t)
        PROVE  TypeOK' /\ BillingInv'
    BY <2>2, TypeBegin, BillingBegin
  <2>3. ASSUME NEW k \in Workers, WorkerStep(k) \/ CallbackFault(k)
        PROVE  TypeOK' /\ BillingInv'
    BY <2>3, TypeWorker, BillingWorker DEF BillingInv
  <2>4. CASE Expire \/ Crash \/ Done \/ UNCHANGED vars
    BY <2>4, TypeRest, BillingRest
  <2> QED  BY <2>1, <2>2, <2>3, <2>4 DEF Next
<1> QED  BY <1>1, <1>2, PTL DEF Spec

\* Every reachable state is well typed, for any tasks, goroutines and quotas.
THEOREM TypeCorrect == Spec => []TypeOK
<1> QED  BY IInvAlways, PTL DEF IInv

\* Whatever webhooks, queries, reconciliations, faults and crashes race for a
\* task, its user pays at most once, the amount in the row, and only for a
\* success (Image.UpdateIfNotTerminal and the charge of its winner).
THEOREM ChargedAsRecordedCorrect == Spec => []ChargedAsRecorded
<1> QED  BY IInvAlways, PTL DEF IInv, BillingInv

\* fluxInflight holds the tasks that are being reconciled, each by exactly one
\* goroutine (tryAcquireInflight and releaseInflight).
THEOREM InflightHasOneWorkerCorrect == Spec => []InflightHasOneWorker
<1>1. IInv => InflightHasOneWorker
  <2> SUFFICES ASSUME IInv, NEW t \in Tasks
      PROVE Cardinality({k \in Workers : job[k] = t /\ at[k] \in {"acquired", "polled"}})
              = IF t \in inflight THEN 1 ELSE 0
    BY DEF InflightHasOneWorker
  <2> DEFINE Busy == {k \in Workers : job[k] = t /\ at[k] \in {"acquired", "polled"}}
  <2>1. CASE t \in inflight
    <3>1. PICK k \in Workers : Reconciling(k) /\ job[k] = t
      BY <2>1 DEF IInv, InflightInv
    <3>2. Busy = {k}  BY <3>1 DEF IInv, InflightInv, Reconciling
    <3> QED  BY <2>1, <3>2, FS_Singleton
  <2>2. CASE t \notin inflight
    <3>1. Busy = {}  BY <2>2 DEF IInv, InflightInv, Reconciling
    <3> QED  BY <2>2, <3>1, FS_EmptySet
  <2> QED  BY <2>1, <2>2
<1> QED  BY <1>1, IInvAlways, PTL

-----------------------------------------------------------------------------
(* A result is final.                                                      *)

\* A row that has ended is not touched by any statement.
FinalStep == \A t \in Tasks :
    status[t] \in Terminal => status'[t] = status[t] /\ quota'[t] = quota[t]

LEMMA FinalNext == IInv /\ [Next]_vars => FinalStep
<1> SUFFICES ASSUME IInv, [Next]_vars PROVE FinalStep
  OBVIOUS
<1> USE DEF IInv, TypeOK, FinalStep, Waiting, Terminal, rowVars, SetTerminal, CanSet
<1>1. ASSUME NEW t \in Tasks, RequestStep(t) \/ SaveLost(t) \/ Finish(t) \/ Age(t)
      PROVE  FinalStep
  <2> USE DEF BillingInv, RequestInv
  <2>1. CASE Create(t) \/ RequestFails(t) \/ SaveSubmitted(t) \/ SaveFailed(t)
    BY <2>1 DEF Create, RequestFails, SaveSubmitted, SaveFailed
  <2>2. CASE SyncSuccess(t)
    BY <2>2 DEF SyncSuccess
  <2>3. CASE Send(t) \/ Answer(t) \/ SyncCharge(t) \/ SaveLost(t) \/ Finish(t) \/ Age(t)
    BY <2>3 DEF Send, Answer, SyncCharge, SaveLost, Finish, Age
  <2> QED  BY <1>1, <2>1, <2>2, <2>3 DEF RequestStep
<1>2. ASSUME NEW k \in Workers, WorkerStep(k) \/ CallbackFault(k)
      PROVE  FinalStep
  <2> USE DEF BillingInv, JobsInv
  <2>1. CASE CallbackSucceeds(k) \/ CallbackFails(k)
    BY <2>1 DEF CallbackSucceeds, CallbackFails
  <2>2. CASE ReconcileSucceeds(k) \/ ReconcileFails(k)
    BY <2>2 DEF ReconcileSucceeds, ReconcileFails
  <2>3. CASE CallbackProcessing(k)
    BY <2>3 DEF CallbackProcessing
  <2>4. CASE ReadRow(k) \/ Charge(k) \/ Acquire(k) \/ Duplicate(k) \/ Poll(k) \/ Leave(k)
             \/ CallbackFault(k)
    BY <2>4 DEF ReadRow, Charge, Acquire, Duplicate, Poll, Leave, CallbackFault
  <2> QED  BY <1>2, <2>1, <2>2, <2>3, <2>4 DEF WorkerStep
<1>3. ASSUME NEW k \in Workers, NEW t \in Tasks, Webhook(k, t) \/ Query(k, t) \/ List(k, t)
      PROVE  FinalStep
  BY <1>3 DEF Webhook, Query, List
<1>4. CASE Expire  BY <1>4 DEF Expire, Stuck
<1>5. CASE Crash \/ Done \/ UNCHANGED vars  BY <1>5 DEF Crash, Done, vars
<1> QED  BY <1>1, <1>2, <1>3, <1>4, <1>5 DEF Next

\* Once a task has ended no late or repeated event changes its status or its
\* quota (the conditional statements of model/image.go).
THEOREM ResultsAreFinalCorrect == Spec => ResultsAreFinal
<1>1. IInv /\ [Next]_vars => [\A t \in Tasks : status[t] \in Terminal =>
                                status'[t] = status[t] /\ quota'[t] = quota[t]]_vars
  BY FinalNext DEF FinalStep
<1> QED  BY <1>1, IInvAlways, PTL DEF Spec, ResultsAreFinal

-----------------------------------------------------------------------------
(* FluxTask implements TaskBilling.                                        *)

\* The task's bill is what it was.
Kept(t) == BillOf(t)' = BillOf(t)

\* The bill of a task is untouched by a step that leaves its row, its charge
\* and the goroutines about to charge it alone.
LEMMA KeptWhen ==
    ASSUME NEW t \in Tasks, status'[t] = status[t], quota'[t] = quota[t],
           charged'[t] = charged[t], ChargeDue(t)' <=> ChargeDue(t)
    PROVE  Kept(t)
<1> QED  BY DEF Kept, BillOf

\* Nor does it depend on anything else before the task has ended.
LEMMA KeptOpen ==
    ASSUME NEW t \in Tasks, status[t] \notin Terminal, status'[t] \notin Terminal
    PROVE  Kept(t)
<1> QED  BY DEF Kept, BillOf, Terminal

LEMMA StutterBill ==
    ASSUME \A t \in Tasks : Kept(t)
    PROVE  UNCHANGED [t \in Tasks |-> BillOf(t)]
<1> QED  BY DEF Kept

\* A step that changes the bill of one task.
LEMMA UpdateBill ==
    ASSUME NEW t \in Tasks, NEW b, BillOf(t)' = b, \A u \in Tasks \ {t} : Kept(u)
    PROVE  [u \in Tasks |-> BillOf(u)]' = [[u \in Tasks |-> BillOf(u)] EXCEPT ![t] = b]
<1> QED  BY DEF Kept

LEMMA FailBill ==
    ASSUME NEW S \in SUBSET Tasks,
           \A t \in S : status[t] \notin Terminal /\ status'[t] = "failed",
           \A t \in Tasks \ S : Kept(t)
    PROVE  Billing!Next
<1>1. \A t \in S : BillOf(t) = [state |-> "open", amount |-> 0]
  BY DEF BillOf, Terminal
<1>2. \A t \in S : BillOf(t)' = [state |-> "failed", amount |-> 0]
  BY DEF BillOf
<1>3. Billing!Fail(S)
  BY <1>1, <1>2 DEF Billing!Fail, Kept
<1> QED  BY <1>3 DEF Billing!Next

LEMMA SucceedBill ==
    ASSUME NEW t \in Tasks, NEW a \in Quotas \cup {Price},
           status[t] \notin Terminal, status'[t] = "success", charged'[t] = 0,
           ChargeDue(t)', quota'[t] = a, \A u \in Tasks \ {t} : Kept(u)
    PROVE  Billing!Next
<1>1. BillOf(t) = [state |-> "open", amount |-> 0]
  BY DEF BillOf, Terminal
<1>2. BillOf(t)' = [state |-> "due", amount |-> a]
  BY DEF BillOf
<1>3. Billing!Succeed(t, a)
  BY <1>1, <1>2, UpdateBill DEF Billing!Succeed
<1> QED  BY <1>3 DEF Billing!Next

LEMMA FreeBill ==
    ASSUME NEW t \in Tasks, status[t] \notin Terminal, status'[t] = "success",
           charged'[t] = 0, ~ChargeDue(t)', \A u \in Tasks \ {t} : Kept(u)
    PROVE  Billing!Next
<1>1. BillOf(t) = [state |-> "open", amount |-> 0]
  BY DEF BillOf, Terminal
<1>2. BillOf(t)' = [state |-> "free", amount |-> 0]
  BY DEF BillOf
<1>3. Billing!SucceedFree(t)
  BY <1>1, <1>2, UpdateBill DEF Billing!SucceedFree
<1> QED  BY <1>3 DEF Billing!Next

\* A due bill that is no longer going to be charged.
LEMMA WaiveBill ==
    ASSUME NEW S \in SUBSET Tasks,
           \A t \in S : /\ status[t] = "success" /\ charged[t] = 0 /\ ChargeDue(t)
                        /\ status'[t] = "success" /\ charged'[t] = 0 /\ ~ChargeDue(t)',
           \A t \in Tasks \ S : Kept(t)
    PROVE  Billing!Next
<1>1. \A t \in S : BillOf(t) = [state |-> "due", amount |-> quota[t]]
  BY DEF BillOf
<1>2. \A t \in S : BillOf(t)' = [state |-> "free", amount |-> 0]
  BY DEF BillOf
<1>3. Billing!Waive(S)
  BY <1>1, <1>2 DEF Billing!Waive, Kept
<1> QED  BY <1>3 DEF Billing!Next

\* A due bill that is paid, be it with nothing.
LEMMA PayBill ==
    ASSUME NEW t \in Tasks, status[t] = "success", charged[t] = 0, ChargeDue(t),
           quota[t] \in Nat, status'[t] = "success", charged'[t] = quota[t],
           ~ChargeDue(t)', \A u \in Tasks \ {t} : Kept(u)
    PROVE  Billing!Next
<1>1. BillOf(t) = [state |-> "due", amount |-> quota[t]]
  BY DEF BillOf
<1>2. CASE quota[t] = 0
  <2>1. \A u \in {t} : /\ status[u] = "success" /\ charged[u] = 0 /\ ChargeDue(u)
                       /\ status'[u] = "success" /\ charged'[u] = 0 /\ ~ChargeDue(u)'
    BY <1>2
  <2>2. {t} \in SUBSET Tasks
    OBVIOUS
  <2> QED  BY <2>1, <2>2, WaiveBill
<1>3. CASE quota[t] > 0
  <2>1. BillOf(t)' = [state |-> "charged", amount |-> charged'[t]]
    BY <1>3 DEF BillOf
  <2>2. PICK c : c = charged'[t]
    OBVIOUS
  <2>3. [u \in Tasks |-> BillOf(u)]' =
          [[u \in Tasks |-> BillOf(u)] EXCEPT ![t] = [state |-> "charged", amount |-> c]]
    BY <2>1, <2>2, UpdateBill
  <2>4. BillOf(t) = [state |-> "due", amount |-> c] /\ c > 0
    BY <1>1, <1>3, <2>2
  <2>5. /\ [u \in Tasks |-> BillOf(u)][t].state = "due"
        /\ [u \in Tasks |-> BillOf(u)][t].amount = c
    BY <2>4
  <2>6. Billing!Charge(t)
    BY <2>3, <2>4, <2>5, Zenon DEF Billing!Charge
  <2> QED  BY <2>6 DEF Billing!Next
<1> QED  BY <1>2, <1>3

LEMMA RefineRequest ==
    ASSUME IInv, NEW t \in Tasks, RequestStep(t) \/ SaveLost(t) \/ Finish(t) \/ Age(t)
    PROVE  Billing!Next \/ UNCHANGED [u \in Tasks |-> BillOf(u)]
<1> USE DEF IInv, TypeOK, BillingInv, RequestInv, SyncInv, ChargeInv, ChargedAsRecorded,
        Waiting, Terminal, workVars, rowVars
<1>u. (\A u \in Tasks \ {t} : req'[u] = req[u]) /\ UNCHANGED <<at, job>>
  BY DEF RequestStep, Create, Send, RequestFails, Answer, SaveSubmitted, SaveFailed,
     SyncSuccess, SyncCharge, SaveLost, Finish, Age
<1>d. \A u \in Tasks \ {t} : ChargeDue(u)' <=> ChargeDue(u)
  BY <1>u DEF ChargeDue
<1>o. \A u \in Tasks \ {t} : Kept(u)
  <2>1. \A u \in Tasks \ {t} :
          status'[u] = status[u] /\ quota'[u] = quota[u] /\ charged'[u] = charged[u]
    BY DEF RequestStep, Create, Send, RequestFails, Answer, SaveSubmitted, SaveFailed,
       SyncSuccess, SetTerminal, SyncCharge, ChargeQuota, SaveLost, Finish, Age
  <2> QED  BY <1>d, <2>1, KeptWhen
<1>1. CASE Create(t) \/ SaveSubmitted(t)
  <2>1. status[t] \notin Terminal /\ status'[t] \notin Terminal
    BY <1>1 DEF Create, SaveSubmitted
  <2> QED  BY <1>o, <2>1, KeptOpen, StutterBill
<1>2. CASE Send(t) \/ Answer(t) \/ Finish(t) \/ Age(t) \/ (SaveLost(t) /\ req[t] = "answered")
  <2>1. ChargeDue(t)' <=> ChargeDue(t)
    BY <1>2 DEF Send, Answer, Finish, Age, SaveLost, ChargeDue
  <2>2. status'[t] = status[t] /\ quota'[t] = quota[t] /\ charged'[t] = charged[t]
    BY <1>2 DEF Send, Answer, Finish, Age, SaveLost
  <2> QED  BY <1>o, <2>1, <2>2, KeptWhen, StutterBill
<1>3. CASE RequestFails(t) \/ SaveFailed(t)
  <2>1. \A u \in {t} : status[u] \notin Terminal /\ status'[u] = "failed"
    BY <1>3 DEF RequestFails, SaveFailed
  <2>2. {t} \in SUBSET Tasks
    OBVIOUS
  <2> QED  BY <1>o, <2>1, <2>2, FailBill
<1>4. CASE SyncSuccess(t)
  <2>1. PICK q \in Quotas : SetTerminal(t, "success", q)
    BY <1>4 DEF SyncSuccess
  <2>2. /\ status[t] \notin Terminal /\ status'[t] = "success" /\ quota'[t] = q
        /\ charged'[t] = 0 /\ req'[t] = "charging"
    BY <1>4, <2>1 DEF SyncSuccess, SetTerminal, CanSet
  <2>3. ChargeDue(t)'  BY <2>2 DEF ChargeDue
  <2> QED  BY <1>o, <2>2, <2>3, SucceedBill
<1>5. CASE SyncCharge(t)
  <2>1. /\ status[t] = "success" /\ charged[t] = 0 /\ ChargeDue(t)
        /\ quota[t] \in Nat /\ status'[t] = "success" /\ charged'[t] = quota[t]
    BY <1>5 DEF SyncCharge, ChargeQuota, ChargeDue
  <2>2. ~ChargeDue(t)'
    BY <1>5, <1>u DEF SyncCharge, ChargeDue
  <2> QED  BY <1>o, <2>1, <2>2, PayBill
<1>6. CASE SaveLost(t) /\ req[t] = "charging"
  <2>1. \A u \in {t} : /\ status[u] = "success" /\ charged[u] = 0 /\ ChargeDue(u)
                       /\ status'[u] = "success" /\ charged'[u] = 0 /\ ~ChargeDue(u)'
    <3>1. ChargeDue(t)  BY <1>6 DEF ChargeDue
    <3>2. ~ChargeDue(t)'  BY <1>6, <1>u DEF SaveLost, ChargeDue
    <3> QED  BY <1>6, <3>1, <3>2 DEF SaveLost
  <2>2. {t} \in SUBSET Tasks
    OBVIOUS
  <2> QED  BY <1>o, <2>1, <2>2, WaiveBill
<1> QED  BY <1>1, <1>2, <1>3, <1>4, <1>5, <1>6 DEF RequestStep, SaveLost

LEMMA RefineWorker ==
    ASSUME IInv, NEW k \in Workers, WorkerStep(k) \/ CallbackFault(k)
    PROVE  Billing!Next \/ UNCHANGED [u \in Tasks |-> BillOf(u)]
<1> USE FluxTaskAssumption
    DEF IInv, TypeOK, BillingInv, PricesInv, Prices, JobsInv, RequestInv, SyncInv, ChargeInv,
        ChargedAsRecorded, Waiting, Terminal, workVars, rowVars, End, Release
<1>t. PICK t \in Tasks : t = job[k]
  BY DEF WorkerStep, ReadRow, CallbackSucceeds, CallbackFails, CallbackProcessing, Charge,
     Acquire, Duplicate, Poll, Leave, ReconcileSucceeds, ReconcileFails, CallbackFault
<1>u. /\ \A j \in Workers \ {k} : at'[j] = at[j] /\ job'[j] = job[j]
      /\ req' = req
      /\ job'[k] = t \/ at'[k] = "idle"
  BY <1>t DEF WorkerStep, ReadRow, CallbackSucceeds, CallbackFails, CallbackProcessing, Charge,
     Acquire, Duplicate, Poll, Leave, ReconcileSucceeds, ReconcileFails, CallbackFault
<1>d. \A u \in Tasks \ {t} : ChargeDue(u)' <=> ChargeDue(u)
  BY <1>t, <1>u DEF ChargeDue
<1>o. \A u \in Tasks \ {t} : Kept(u)
  <2>1. \A u \in Tasks \ {t} :
          status'[u] = status[u] /\ quota'[u] = quota[u] /\ charged'[u] = charged[u]
    BY <1>t DEF WorkerStep, ReadRow, CallbackSucceeds, CallbackFails, CallbackProcessing, Charge,
       ChargeQuota, Acquire, Duplicate, Poll, Leave, ReconcileSucceeds, ReconcileFails,
       CallbackFault, SetTerminal
  <2> QED  BY <1>t, <1>d, <2>1, KeptWhen
\* Steps that neither win the task nor settle what was won.
<1>k. ASSUME at[k] # "charging", at'[k] # "charging",
             status'[t] = status[t], quota'[t] = quota[t], charged'[t] = charged[t]
      PROVE  UNCHANGED [u \in Tasks |-> BillOf(u)]
  <2>1. ChargeDue(t)' <=> ChargeDue(t)
    BY <1>t, <1>k, <1>u DEF ChargeDue
  <2> QED  BY <1>k, <1>o, <1>t, <2>1, KeptWhen, StutterBill
<1>f. ASSUME status[t] \notin Terminal, status'[t] = "failed"
      PROVE  Billing!Next
  <2>1. \A u \in {t} : status[u] \notin Terminal /\ status'[u] = "failed"
    BY <1>t, <1>f
  <2>2. {t} \in SUBSET Tasks
    BY <1>t
  <2> QED  BY <1>t, <1>o, <2>1, <2>2, FailBill
<1>1. CASE ReadRow(k) \/ Acquire(k) \/ Duplicate(k) \/ Poll(k) \/ Leave(k)
           \/ (CallbackFault(k) /\ at[k] # "charging")
  BY <1>t, <1>1, <1>k DEF ReadRow, Acquire, Duplicate, Poll, Leave, CallbackFault
<1>2. CASE CallbackProcessing(k)
  <2>1. CASE CanSet(t)
    <3>1. status[t] \notin Terminal /\ status'[t] \notin Terminal
      BY <1>2, <1>t, <2>1 DEF CallbackProcessing, CanSet
    <3> QED  BY <1>o, <1>t, <3>1, KeptOpen, StutterBill
  <2>2. CASE ~CanSet(t)
    BY <1>t, <1>2, <1>k, <2>2 DEF CallbackProcessing
  <2> QED  BY <1>t, <2>1, <2>2
<1>3. CASE CallbackFails(k) \/ ReconcileFails(k)
  <2>1. PICK q : SetTerminal(t, "failed", q) /\ at[k] # "charging" /\ at'[k] = "idle"
                 /\ charged' = charged
    BY <1>t, <1>3 DEF CallbackFails, ReconcileFails
  <2>2. CASE CanSet(t)
    BY <1>t, <1>f, <2>1, <2>2 DEF SetTerminal, CanSet
  <2>3. CASE ~CanSet(t)
    BY <1>t, <1>k, <2>1, <2>3 DEF SetTerminal
  <2> QED  BY <1>t, <2>2, <2>3
<1>4. CASE CallbackSucceeds(k)
  <2>1. CASE CanSet(t)
    <3>1. /\ status[t] \notin Terminal /\ status'[t] = "success"
          /\ quota'[t] = QuotaOr(seen[k]) /\ charged'[t] = 0
          /\ at'[k] = "charging" /\ job'[k] = t
      BY <1>4, <1>t, <2>1 DEF CallbackSucceeds, SetTerminal, CanSet
    <3>2. QuotaOr(seen[k]) \in Quotas \cup {Price}
      BY <1>t DEF QuotaOr
    <3>3. ChargeDue(t)'
      BY <1>t, <3>1 DEF ChargeDue
    <3> QED  BY <1>o, <1>t, <3>1, <3>2, <3>3, SucceedBill
  <2>2. CASE ~CanSet(t)
    BY <1>t, <1>4, <1>k, <2>2 DEF CallbackSucceeds, SetTerminal
  <2> QED  BY <1>t, <2>1, <2>2
<1>5. CASE ReconcileSucceeds(k)
  <2>1. CASE CanSet(t)
    <3>1. status[t] \notin Terminal /\ status'[t] = "success" /\ charged'[t] = 0
      BY <1>5, <1>t, <2>1 DEF ReconcileSucceeds, SetTerminal, CanSet
    <3>2. ~ChargeDue(t)
      BY <1>t, <3>1 DEF ChargeDue
    <3>3. ~ChargeDue(t)'
      BY <1>t, <1>5, <1>u, <3>2 DEF ReconcileSucceeds, ChargeDue
    <3> QED  BY <1>o, <1>t, <3>1, <3>3, FreeBill
  <2>2. CASE ~CanSet(t)
    BY <1>t, <1>5, <1>k, <2>2 DEF ReconcileSucceeds, SetTerminal
  <2> QED  BY <1>t, <2>1, <2>2
<1>c. ASSUME at[k] = "charging", at'[k] = "idle"
      PROVE  status[t] = "success" /\ charged[t] = 0 /\ ChargeDue(t) /\ ~ChargeDue(t)'
  BY <1>c, <1>t, <1>u DEF ChargeDue
<1>6. CASE Charge(k)
  <2>1. /\ quota[t] \in Nat /\ status'[t] = "success" /\ charged'[t] = quota[t]
        /\ at[k] = "charging" /\ at'[k] = "idle"
    BY <1>6, <1>t DEF Charge, ChargeQuota
  <2> QED  BY <1>c, <1>o, <1>t, <2>1, PayBill
<1>7. CASE CallbackFault(k) /\ at[k] = "charging"
  <2>1. at'[k] = "idle" /\ status' = status /\ charged' = charged
    BY <1>t, <1>7 DEF CallbackFault
  <2>2. \A u \in {t} : /\ status[u] = "success" /\ charged[u] = 0 /\ ChargeDue(u)
                       /\ status'[u] = "success" /\ charged'[u] = 0 /\ ~ChargeDue(u)'
    BY <1>t, <1>7, <1>c, <2>1
  <2>3. {t} \in SUBSET Tasks
    BY <1>t
  <2> QED  BY <1>t, <1>o, <2>2, <2>3, WaiveBill
<1> QED  BY <1>1, <1>2, <1>3, <1>4, <1>5, <1>6, <1>7 DEF WorkerStep

\* Expiry fails all the late tasks at once, a crash gives up all that was due.
LEMMA RefineRest ==
    ASSUME IInv, Expire \/ Crash \/ Done \/ UNCHANGED vars
    PROVE  Billing!Next \/ UNCHANGED [t \in Tasks |-> BillOf(t)]
<1>1. CASE Expire
  <2> DEFINE late == {t \in old : Stuck(t)}
  <2>1. late \in SUBSET Tasks  BY DEF IInv, TypeOK
  <2>2. \A t \in late : status[t] \notin Terminal /\ status'[t] = "failed"
    BY <1>1, <2>1 DEF Expire, Stuck, Terminal
  <2>3. \A t \in Tasks \ late : Kept(t)
    <3>1. \A t \in Tasks \ late : ChargeDue(t)' <=> ChargeDue(t)
      BY <1>1 DEF Expire, ChargeDue, workVars
    <3>2. \A t \in Tasks \ late :
            status'[t] = status[t] /\ quota'[t] = quota[t] /\ charged'[t] = charged[t]
      BY <1>1 DEF Expire
    <3> QED  BY <3>1, <3>2, KeptWhen
  <2> HIDE DEF late
  <2>4. PICK S \in SUBSET Tasks : S = late
    BY <2>1
  <2> QED  BY <2>2, <2>3, <2>4, FailBill
<1>2. CASE Crash
  <2>1. PICK S \in SUBSET Tasks : S = {t \in Tasks : ChargeDue(t)}
    OBVIOUS
  <2>2. \A t \in Tasks : ~ChargeDue(t)'
    BY <1>2 DEF Crash, ChargeDue
  <2>3. UNCHANGED <<status, quota, charged>>
    BY <1>2 DEF Crash, rowVars
  <2>4. \A t \in S : status[t] = "success" /\ charged[t] = 0
    BY <2>1 DEF IInv, BillingInv, SyncInv, ChargeInv, ChargeDue
  <2>5. \A t \in S : /\ status[t] = "success" /\ charged[t] = 0 /\ ChargeDue(t)
                     /\ status'[t] = "success" /\ charged'[t] = 0 /\ ~ChargeDue(t)'
    BY <2>1, <2>2, <2>3, <2>4
  <2>6. \A t \in Tasks \ S : Kept(t)
    BY <2>1, <2>2, <2>3, KeptWhen
  <2> QED  BY <2>5, <2>6, WaiveBill
<1>3. CASE Done \/ UNCHANGED vars
  <2>1. \A t \in Tasks : ChargeDue(t)' <=> ChargeDue(t)
    BY <1>3 DEF Done, vars, workVars, ChargeDue
  <2>2. UNCHANGED <<status, quota, charged>>
    BY <1>3 DEF Done, vars, rowVars
  <2> QED  BY <2>1, <2>2, KeptWhen, StutterBill
<1> QED  BY <1>1, <1>2, <1>3

\* Every behaviour of the tasks is one of the bills: opened once, due once,
\* paid in full or given up (controller/flux.go, controller/flux_reconciler.go).
THEOREM BillingImplemented == Spec => ImplementsBilling
<1>1. Init => Billing!Init
  BY DEF Init, Billing!Init, Billing!Open, BillOf
<1>2. IInv /\ [Next]_vars => [Billing!Next]_([t \in Tasks |-> BillOf(t)])
  <2> SUFFICES ASSUME IInv, [Next]_vars
      PROVE  Billing!Next \/ UNCHANGED [t \in Tasks |-> BillOf(t)]
    OBVIOUS
  <2>1. ASSUME NEW t \in Tasks, RequestStep(t) \/ SaveLost(t) \/ Finish(t) \/ Age(t)
        PROVE  Billing!Next \/ UNCHANGED [u \in Tasks |-> BillOf(u)]
    BY <2>1, RefineRequest
  <2>2. ASSUME NEW k \in Workers, NEW t \in Tasks, Webhook(k, t) \/ Query(k, t) \/ List(k, t)
        PROVE  UNCHANGED [u \in Tasks |-> BillOf(u)]
    <3>1. \A u \in Tasks : ChargeDue(u)' <=> ChargeDue(u)
      BY <2>2 DEF Webhook, Query, List, Begin, ChargeDue, IInv, TypeOK
    <3>2. UNCHANGED <<status, quota, charged>>
      BY <2>2 DEF Webhook, Query, List, rowVars
    <3> QED  BY <3>1, <3>2, KeptWhen, StutterBill
  <2>3. ASSUME NEW k \in Workers, WorkerStep(k) \/ CallbackFault(k)
        PROVE  Billing!Next \/ UNCHANGED [u \in Tasks |-> BillOf(u)]
    BY <2>3, RefineWorker
  <2>4. CASE Expire \/ Crash \/ Done \/ UNCHANGED vars
    BY <2>4, RefineRest
  <2> QED  BY <2>1, <2>2, <2>3, <2>4 DEF Next
<1> QED  BY <1>1, <1>2, IInvAlways, PTL DEF Spec, ImplementsBilling, Billing!Spec

-----------------------------------------------------------------------------
(***************************************************************************)
(* VideoTask.  What a handler does is described field by field, so that    *)
(* the same few facts serve all kinds of handlers: Now and Gone for the    *)
(* handler, RowSaved for the row, PaidBy and Blamed for the money.  The    *)
(* invariant of a task, TaskInv, says what the handlers know of the task,  *)
(* and from that what the task has taken from its user.  It is preserved   *)
(* by each step of a handler on its task, and by all other steps because   *)
(* they leave the task the Same.                                           *)
(***************************************************************************)

\* Nothing has happened that may cost the user of t too much or too little.
Clean(t) == causes[t] \cap Excuses = {}

\* h is at work on t.
Works(h, t) == call[h].step # "idle" /\ call[h].task = t

\* The steps each kind of provider knows.
Paths ==
    /\ \A h \in Handlers :
        /\ call[h].step = "idle" => call[h] = Idle
        /\ call[h].step # "idle" => call[h].task \in TaskIds
        /\ call[h].step = "asking" => call[h].answer = "none"
        /\ call[h].step = "metered" => kind = "metered"
        /\ call[h].step = "locked" => kind = "xai"
        /\ call[h].step \in {"settle", "save"} => kind \in {"xai", "kling"}
        /\ call[h].step = "refund" => kind \notin {"kling", "still"}
        /\ call[h].step = "notify" => kind = "kling"
        /\ call[h].answer = "missing" => kind = "sora"
        /\ call[h].step = "answered" => kind \notin {"xai", "wan", "still"}
        /\ kind = "kling" => call[h].step # "asking"
    /\ \A t \in TaskIds :
        /\ work[t] = "forgotten" => kind = "wan"
        /\ work[t] = "expired" => kind \in Polled

VideoTyped == VideoTypeOK /\ Paths

LEMMA VideoTypedInit == VideoInit => VideoTyped
<1> SUFFICES ASSUME VideoInit PROVE VideoTyped
  OBVIOUS
<1>1. redis \in BOOLEAN
  BY DEF VideoInit
<1>2. Idle \in Calls
  BY VideoAssumption DEF Idle, NoRow, Calls, Rows, Statuses, Steps
<1>3. NoRow \in Rows
  BY VideoAssumption DEF NoRow, Rows, Statuses
<1>4. VideoTypeOK
  BY <1>1, <1>2, <1>3, VideoAssumption DEF VideoInit, VideoTypeOK
<1>5. Paths
  BY DEF VideoInit, Paths, Idle, Ended
<1> QED BY <1>4, <1>5 DEF VideoTyped

\* What an answer may be.
LEMMA ReadingTyped ==
    ASSUME VideoTyped, NEW t \in TaskIds
    PROVE  Reading(t) \in Statuses
BY DEF VideoTyped, VideoTypeOK, Reading, Statuses, Ended

LEMMA VideoTypedMake ==
    ASSUME VideoTyped, NEW t \in TaskIds, Make(t)
    PROVE  VideoTyped'
<1> USE VideoAssumption DEF VideoTyped, VideoTypeOK, Paths, Rows, Statuses, Causes, Calls, Blame, Pay, Ended
<1>1. CASE SendVideo(t) \/ SendImage(t)
  <2>1. Sent(t)
    BY <1>1 DEF SendVideo, SendImage
  <2>2. VideoTypeOK'
    BY <2>1 DEF Sent
  <2>3. Paths'
    BY <2>1 DEF Sent
  <2> QED BY <2>2, <2>3
<1>2. CASE TakeHold(t)
  BY <1>2 DEF TakeHold
<1>3. CASE CreateVideoLog(t)
  BY <1>3 DEF CreateVideoLog, Insert
<1>4. CASE CreateImageLog(t)
  BY <1>4 DEF CreateImageLog, Insert
<1>5. CASE KlingCreate(t)
  BY <1>5 DEF KlingCreate
<1>6. CASE KlingSend(t)
  BY <1>6 DEF KlingSend
<1>7. CASE KlingSaveMade(t)
  BY <1>7 DEF KlingSaveMade, Overwrites
<1> QED BY <1>1, <1>2, <1>3, <1>4, <1>5, <1>6, <1>7 DEF Make

LEMMA VideoTypedRest ==
    ASSUME VideoTyped, NEW t \in TaskIds,
           ProviderEnds(t) \/ Forget(t) \/ DeleteChannel(t) \/ LockExpires(t)
    PROVE  VideoTyped'
<1> USE VideoAssumption DEF VideoTyped, VideoTypeOK, Paths, Blame
<1>1. CASE ProviderEnds(t)
  BY <1>1 DEF ProviderEnds, Outcomes, Ended
<1>2. CASE Forget(t)
  BY <1>2 DEF Forget
<1>3. CASE DeleteChannel(t)
  BY <1>3 DEF DeleteChannel
<1>4. CASE LockExpires(t)
  BY <1>4 DEF LockExpires, Causes
<1> QED BY <1>1, <1>2, <1>3, <1>4
-----------------------------------------------------------------------------
(* What a step does to the handler that takes it, field by field.          *)

Now(h, t, step, state, amount, reply) ==
    /\ call' \in [Handlers -> Calls]
    /\ \A g \in Handlers : g # h => call'[g] = call[g]
    /\ call'[h].step = step /\ call'[h].task = t
    /\ call'[h].row.status = state /\ call'[h].row.quota = amount
    /\ call'[h].answer = reply

Gone(h) ==
    /\ call' \in [Handlers -> Calls]
    /\ \A g \in Handlers : g # h => call'[g] = call[g]
    /\ call'[h] = Idle

LEMMA CallFields ==
    ASSUME VideoTyped, NEW h \in Handlers
    PROVE  /\ call[h] \in Calls
           /\ call[h].step \in Steps /\ call[h].task \in TaskIds \cup {None}
           /\ call[h].row \in Rows /\ call[h].answer \in Statuses \cup {"missing"}
           /\ call[h].row.status \in Statuses /\ call[h].row.quota \in {0, Hold, Cost}
           /\ call[h].step # "idle" => call[h].task \in TaskIds
BY DEF VideoTyped, VideoTypeOK, Paths, Calls, Rows

LEMMA RowFields ==
    ASSUME VideoTyped, NEW t \in TaskIds
    PROVE  /\ row[t] \in Rows /\ row[t].status \in Statuses /\ row[t].quota \in {0, Hold, Cost}
           /\ causes[t] \in SUBSET Causes /\ paid[t] \in Int
BY DEF VideoTyped, VideoTypeOK, Rows

LEMMA IdleFields ==
    /\ Idle.step = "idle" /\ Idle.task = None /\ Idle.answer = "none"
    /\ Idle.row.status = "none" /\ Idle.row.quota = 0
    /\ Idle \in Calls
BY VideoAssumption DEF Idle, NoRow, Calls, Rows, Statuses, Steps

\* Two fields of a handler are assigned at once: its step, and its row or a column
\* of it.
LEMMA CallEdited ==
    ASSUME call \in [Handlers -> Calls], NEW h \in Handlers, NEW step \in Steps, NEW r \in Rows,
           call' = [call EXCEPT ![h].step = step, ![h].row = r]
    PROVE  Now(h, call[h].task, step, r.status, r.quota, call[h].answer)
BY DEF Now, Calls

LEMMA StatusEdited ==
    ASSUME call \in [Handlers -> Calls], NEW h \in Handlers, NEW step \in Steps,
           NEW state \in Statuses,
           call' = [call EXCEPT ![h].step = step, ![h].row.status = state]
    PROVE  Now(h, call[h].task, step, state, call[h].row.quota, call[h].answer)
<1> DEFINE r == [call[h].row EXCEPT !.status = state]
<1>1. call[h].row \in Rows
  BY DEF Calls
<1>2. r \in Rows /\ r.status = state /\ r.quota = call[h].row.quota
  BY <1>1 DEF Rows
<1>3. call' = [call EXCEPT ![h].step = step, ![h].row = r]
  OBVIOUS
<1> HIDE DEF r
<1> QED BY <1>2, <1>3, CallEdited

LEMMA QuotaEdited ==
    ASSUME call \in [Handlers -> Calls], NEW h \in Handlers, NEW step \in Steps,
           NEW amount \in {0, Hold, Cost},
           call' = [call EXCEPT ![h].step = step, ![h].row.quota = amount]
    PROVE  Now(h, call[h].task, step, call[h].row.status, amount, call[h].answer)
<1> DEFINE r == [call[h].row EXCEPT !.quota = amount]
<1>1. call[h].row \in Rows
  BY DEF Calls
<1>2. r \in Rows /\ r.status = call[h].row.status /\ r.quota = amount
  BY <1>1 DEF Rows
<1>3. call' = [call EXCEPT ![h].step = step, ![h].row = r]
  OBVIOUS
<1> HIDE DEF r
<1> QED BY <1>2, <1>3, CallEdited

LEMMA GoIdleGone ==
    ASSUME VideoTyped, NEW h \in Handlers, GoIdle(h)
    PROVE  Gone(h)
BY IdleFields DEF VideoTyped, VideoTypeOK, GoIdle, Gone

LEMMA GoMoves ==
    ASSUME VideoTyped, NEW h \in Handlers, NEW step \in Steps, Go(h, step)
    PROVE  Now(h, call[h].task, step, call[h].row.status, call[h].row.quota, call[h].answer)
BY DEF VideoTyped, VideoTypeOK, Go, Now, Calls, Rows

LEMMA AskMoves ==
    ASSUME VideoTyped, NEW h \in Handlers, NEW t \in TaskIds, Ask(h, t)
    PROVE  \/ /\ kind \in ReadsFirst \cup {"metered"}
              /\ Now(h, t, "asking", row[t].status, row[t].quota, "none")
           \/ /\ kind \notin ReadsFirst \cup {"metered"}
              /\ Now(h, t, "asking", "none", 0, "none")
<1>1. row[t] \in Rows /\ NoRow \in Rows /\ NoRow.status = "none" /\ NoRow.quota = 0
  BY RowFields, VideoAssumption DEF NoRow, Rows, Statuses
<1>2. CASE kind \in ReadsFirst \cup {"metered"}
  <2>1. call' = [call EXCEPT ![h] = [Idle EXCEPT !.step = "asking", !.task = t, !.row = row[t]]]
    BY <1>2 DEF Ask
  <2> QED BY <1>1, <1>2, <2>1 DEF VideoTyped, VideoTypeOK, Now, Idle, Calls, Steps, Rows, Statuses
<1>3. CASE kind \notin ReadsFirst \cup {"metered"}
  <2>1. call' = [call EXCEPT ![h] = [Idle EXCEPT !.step = "asking", !.task = t, !.row = NoRow]]
    BY <1>3 DEF Ask
  <2> QED BY <1>1, <1>3, <2>1 DEF VideoTyped, VideoTypeOK, Now, Idle, Calls, Steps, Rows, Statuses
<1> QED BY <1>2, <1>3

LEMMA CallbackMoves ==
    ASSUME VideoTyped, NEW h \in Handlers, NEW t \in TaskIds, Callback(h, t)
    PROVE  Now(h, t, "answered", "none", 0, Reading(t))
<1>1. call' = [call EXCEPT ![h] = [Idle EXCEPT !.step = "answered", !.task = t, !.answer = Reading(t)]]
  BY DEF Callback
<1> QED BY <1>1, ReadingTyped DEF VideoTyped, VideoTypeOK, Now, Idle, NoRow, Calls, Steps, Rows, Statuses

LEMMA AnswerMoves ==
    ASSUME VideoTyped, NEW h \in Handlers, ProviderAnswers(h)
    PROVE  Now(h, call[h].task, IF kind \in ReadsFirst THEN "read" ELSE "answered",
               call[h].row.status, call[h].row.quota, Reading(call[h].task))
<1>1. call[h].task \in TaskIds
  BY CallFields DEF ProviderAnswers
<1> QED BY <1>1, ReadingTyped DEF ProviderAnswers, VideoTyped, VideoTypeOK, Now, Calls, Steps

LEMMA ErrorMoves ==
    ASSUME VideoTyped, NEW h \in Handlers, ErrorAnswer(h)
    PROVE  \/ /\ kind = "sora" /\ UNCHANGED causes
              /\ Now(h, call[h].task, "answered", call[h].row.status, call[h].row.quota, "missing")
           \/ /\ kind = "misread" /\ Blame(call[h].task, {"misread"})
              /\ Now(h, call[h].task, "answered", call[h].row.status, call[h].row.quota, "failed")
BY DEF ErrorAnswer, VideoTyped, VideoTypeOK, Now, Calls, Steps, Statuses, Ended

\* The row in hand is the task's row.
LEMMA ReadMoves ==
    ASSUME VideoTyped, NEW h \in Handlers, NEW step \in Steps, call[h].step # "idle",
           call' = [call EXCEPT ![h].step = step, ![h].row = row[call[h].task]]
    PROVE  Now(h, call[h].task, step, row[call[h].task].status, row[call[h].task].quota,
               call[h].answer)
<1>1. row[call[h].task] \in Rows
  BY CallFields, RowFields
<1>2. call \in [Handlers -> Calls]
  BY DEF VideoTyped, VideoTypeOK
<1> QED BY <1>1, <1>2, CallEdited
-----------------------------------------------------------------------------
(* What a save does to the task's row.                                     *)

\* Nothing happens to the other tasks.
Elsewhere(t) ==
    \A s \in TaskIds : s # t => row'[s] = row[s] /\ causes'[s] = causes[s]

\* The row of t has got a status; who saved it over an end is blamed unless he held
\* the lock or had seen that end.
RowSaved(h, t, state, amount) ==
    /\ row' \in [TaskIds -> Rows] /\ causes' \in [TaskIds -> SUBSET Causes]
    /\ Elsewhere(t)
    /\ row'[t].status = state /\ row'[t].quota = amount
    /\ causes[t] \subseteq causes'[t] /\ causes'[t] \subseteq causes[t] \cup {"overwritten"}
    /\ \/ "overwritten" \in causes'[t]
       \/ InLock(h, t)
       \/ ~Final(row[t])
       \/ /\ row[t].status = call[h].row.status /\ row[t].quota = call[h].row.quota
          /\ state \in Ended

SavedQuota(h) ==
    IF kind = "native" THEN row[call[h].task].quota ELSE call[h].row.quota

LEMMA SaveSaves ==
    ASSUME VideoTyped, NEW h \in Handlers, call[h].step # "idle", call[h].answer # "missing",
           Save(h, call[h].row.quota)
    PROVE  RowSaved(h, call[h].task, call[h].answer, SavedQuota(h))
<1> DEFINE t == call[h].task
           q == IF kind = "native" THEN row[t].quota ELSE call[h].row.quota
           C == IF InLock(h, t) THEN {} ELSE Overwrites(t, call[h].row, call[h].answer)
<1>1. t \in TaskIds /\ call[h].answer \in Statuses /\ q \in {0, Hold, Cost}
  BY CallFields, RowFields
<1>2. row' = [row EXCEPT ![t] = [status |-> call[h].answer, quota |-> q]]
  BY <1>1 DEF Save, VideoTyped, VideoTypeOK
<1>3. causes' = [causes EXCEPT ![t] = @ \cup C]
  BY DEF Save, Blame
<1>4. C \subseteq {"overwritten"}
  BY DEF Overwrites
<1>5. \/ "overwritten" \in C
      \/ InLock(h, t)
      \/ ~Final(row[t])
      \/ row[t] = call[h].row /\ call[h].answer \in Ended
  BY DEF Overwrites
<1> HIDE DEF C, q
<1>6. row' \in [TaskIds -> Rows] /\ row'[t].status = call[h].answer /\ row'[t].quota = q
  BY <1>1, <1>2 DEF VideoTyped, VideoTypeOK, Rows
<1>7. /\ causes' \in [TaskIds -> SUBSET Causes]
      /\ causes[t] \subseteq causes'[t] /\ causes'[t] \subseteq causes[t] \cup {"overwritten"}
      /\ "overwritten" \in C => "overwritten" \in causes'[t]
  BY <1>1, <1>3, <1>4 DEF VideoTyped, VideoTypeOK, Causes
<1>8. Elsewhere(t)
  BY <1>2, <1>3 DEF Elsewhere, VideoTyped, VideoTypeOK
<1> QED BY <1>5, <1>6, <1>7, <1>8 DEF RowSaved, SavedQuota, q

LEMMA SaveThenSaves ==
    ASSUME VideoTyped, NEW h \in Handlers, call[h].step # "idle", call[h].answer # "missing",
           NEW step \in Steps, SaveThen(h, step)
    PROVE  /\ RowSaved(h, call[h].task, call[h].answer, SavedQuota(h))
           /\ Now(h, call[h].task, step, call[h].answer, call[h].row.quota, call[h].answer)
<1>1. call[h].answer \in Statuses
  BY CallFields
<1>2. call' = [call EXCEPT ![h].step = step, ![h].row.status = call[h].answer]
  BY DEF SaveThen
<1>3. call \in [Handlers -> Calls]
  BY DEF VideoTyped, VideoTypeOK
<1>4. Now(h, call[h].task, step, call[h].answer, call[h].row.quota, call[h].answer)
  BY <1>1, <1>2, <1>3, StatusEdited
<1> QED BY <1>4, SaveSaves DEF SaveThen

LEMMA SaveAndLeaveSaves ==
    ASSUME VideoTyped, NEW h \in Handlers, call[h].step # "idle", call[h].answer # "missing",
           SaveAndLeave(h)
    PROVE  RowSaved(h, call[h].task, call[h].answer, SavedQuota(h)) /\ Gone(h)
BY SaveSaves, GoIdleGone DEF SaveAndLeave

LEMMA MissingSaves ==
    ASSUME VideoTyped, NEW h \in Handlers, UpdateMissing(h), call[h].row.status # "succeed"
    PROVE  RowSaved(h, call[h].task, "processing", call[h].row.quota) /\ Gone(h)
<1> DEFINE t == call[h].task
<1>1. t \in TaskIds /\ call[h].row \in Rows /\ call[h].step # "idle"
  BY CallFields DEF UpdateMissing, Reads
<1>2. row' = [row EXCEPT ![t] = [call[h].row EXCEPT !.status = "processing"]]
  BY DEF UpdateMissing
<1>3. causes' = [causes EXCEPT ![t] = @ \cup Overwrites(t, call[h].row, "processing")]
  BY DEF UpdateMissing, Blame
<1>4. row' \in [TaskIds -> Rows] /\ row'[t].status = "processing" /\ row'[t].quota = call[h].row.quota
  BY <1>1, <1>2 DEF VideoTyped, VideoTypeOK, Rows, Statuses
<1>5. /\ causes' \in [TaskIds -> SUBSET Causes]
      /\ causes[t] \subseteq causes'[t] /\ causes'[t] \subseteq causes[t] \cup {"overwritten"}
      /\ "overwritten" \in causes'[t] \/ ~Final(row[t])
  BY <1>1, <1>3 DEF VideoTyped, VideoTypeOK, Causes, Overwrites, Ended
<1>6. Elsewhere(t)
  BY <1>2, <1>3 DEF Elsewhere, VideoTyped, VideoTypeOK
<1> QED BY <1>4, <1>5, <1>6, GoIdleGone DEF RowSaved, UpdateMissing

-----------------------------------------------------------------------------
(* What a step takes from the user, and what it is blamed for.             *)

PaidBy(t, n) ==
    /\ paid' \in [TaskIds -> Int]
    /\ paid'[t] = paid[t] + n
    /\ \A s \in TaskIds : s # t => paid'[s] = paid[s]

Blamed(t, C) ==
    /\ causes' \in [TaskIds -> SUBSET Causes]
    /\ causes'[t] = causes[t] \cup C
    /\ \A s \in TaskIds : s # t => causes'[s] = causes[s]

LEMMA PayPays ==
    ASSUME VideoTyped, NEW t \in TaskIds, NEW n \in Int, Pay(t, n)
    PROVE  PaidBy(t, n)
BY DEF VideoTyped, VideoTypeOK, Pay, PaidBy

LEMMA BlameBlames ==
    ASSUME VideoTyped, NEW t \in TaskIds, NEW C \in SUBSET Causes, Blame(t, C)
    PROVE  Blamed(t, C)
BY DEF VideoTyped, VideoTypeOK, Blame, Blamed

\* The lock of h's task is free again if it was held by h.
Unlocked(h) ==
    /\ lock' \in [TaskIds -> Handlers \cup {None}]
    /\ \A s \in TaskIds : lock'[s] = lock[s] \/ (lock[s] = h /\ lock'[s] = None)

LEMMA UnlockUnlocks ==
    ASSUME VideoTyped, NEW h \in Handlers, Unlock(h) \/ UNCHANGED lock
    PROVE  Unlocked(h)
BY DEF VideoTyped, VideoTypeOK, Unlock, Unlocked

-----------------------------------------------------------------------------
(* The outcomes of a handler's step.                                       *)

\* It goes away and leaves everything as it was; if it owes the user something, or has
\* not saved what it took, that is remembered.
Failures == {"crash", "unsaved", "unrefunded"}

Leaves(h) ==
    /\ Gone(h) /\ Unlocked(h) /\ UNCHANGED <<kind, redis, work, making, row, paid>>
    /\ \/ UNCHANGED causes
       \/ /\ causes' \in [TaskIds -> SUBSET Causes] /\ Elsewhere(call[h].task)
          /\ causes[call[h].task] \subseteq causes'[call[h].task]
          /\ causes'[call[h].task] \subseteq causes[call[h].task] \cup Failures
    /\ call[h].step \in {"save", "refund", "metered"} =>
          causes'[call[h].task] \cap Failures # {}

LEMMA NoAnswerLeaves ==
    ASSUME VideoTyped, NEW h \in Handlers, NoAnswer(h) \/ PassOn(h)
    PROVE  Leaves(h)
BY GoIdleGone, UnlockUnlocks DEF Leaves, NoAnswer, PassOn, Reads

LEMMA DiesLeaves ==
    ASSUME VideoTyped, NEW h \in Handlers, HandlerDies(h)
    PROVE  Leaves(h)
<1> DEFINE t == call[h].task
           C == IF call[h].step \in {"save", "refund", "metered"} THEN {"crash"} ELSE {}
<1>1. t \in TaskIds
  BY CallFields DEF HandlerDies
<1>2. Blamed(t, C)
  BY <1>1, BlameBlames DEF HandlerDies, Causes
<1>3. Gone(h) /\ Unlocked(h) /\ UNCHANGED <<kind, redis, work, making, row, paid>>
  BY GoIdleGone, UnlockUnlocks DEF HandlerDies
<1> QED BY <1>1, <1>2, <1>3 DEF Leaves, Blamed, Elsewhere, Failures

\* What a failed save and a failed refund come to.
LEMMA FailsOut ==
    ASSUME VideoTyped, NEW h \in Handlers, SaveFails(h)
    PROVE  /\ kind \in {"xai", "kling"} /\ call[h].step = "save"
           /\ \/ Leaves(h)
              \/ /\ UNCHANGED <<kind, redis, work, making, row, paid, lock>>
                 /\ Blamed(call[h].task, {"unsaved"})
                 /\ Now(h, call[h].task, IF kind = "kling" THEN "notify" ELSE "refund",
                        call[h].answer, call[h].row.quota, call[h].answer)
<1> DEFINE step == IF kind = "kling" THEN "notify" ELSE "refund"
<1>1. /\ call[h].task \in TaskIds /\ call[h].answer \in Statuses /\ step \in Steps
      /\ kind \in {"xai", "kling"} /\ call[h].step = "save"
      /\ UNCHANGED <<kind, redis, work, making, row, paid>>
  BY CallFields DEF SaveFails, Steps, VideoTyped, Paths
<1>2. Blamed(call[h].task, {"unsaved"})
  BY <1>1, BlameBlames DEF SaveFails, Causes
<1>3. CASE GoIdle(h) /\ Unlock(h)
  BY <1>1, <1>2, <1>3, GoIdleGone, UnlockUnlocks DEF Leaves, Blamed, Elsewhere, Failures
<1>4. CASE /\ call' = [call EXCEPT ![h].step = step, ![h].row.status = call[h].answer]
           /\ UNCHANGED lock
  <2>1. call \in [Handlers -> Calls]
    BY DEF VideoTyped, VideoTypeOK
  <2> HIDE DEF step
  <2>2. Now(h, call[h].task, step, call[h].answer, call[h].row.quota, call[h].answer)
    BY <1>1, <1>4, <2>1, StatusEdited
  <2> QED BY <1>1, <1>2, <1>4, <2>2 DEF step
<1> QED BY <1>3, <1>4 DEF SaveFails

\* What h does to its task when it neither saves nor pays.
Untouched == UNCHANGED <<kind, redis, work, making, row, paid, causes>>

Saves(h) ==
    /\ RowSaved(h, call[h].task, call[h].answer, SavedQuota(h))
    /\ UNCHANGED <<kind, redis, work, making, paid>>

SavesAndGoes(h) == Saves(h) /\ Gone(h) /\ Unlocked(h)

SavesAndRefunds(h) ==
    /\ Saves(h) /\ UNCHANGED lock
    /\ Now(h, call[h].task, "refund", call[h].answer, call[h].row.quota, call[h].answer)

LEMMA ReadOut ==
    ASSUME VideoTyped, NEW h \in Handlers, Read(h)
    PROVE  /\ call[h].step \in {"answered", "metered"}
           /\ kind = "metered" /\ call[h].answer = "succeed" => call[h].step = "metered"
           /\ \/ Leaves(h)
              \/ /\ Untouched /\ UNCHANGED lock
                 /\ kind = "kling" => ~Final(row[call[h].task])
                 /\ Now(h, call[h].task, "read", row[call[h].task].status,
                        row[call[h].task].quota, call[h].answer)
<1>1. /\ call[h].step \in {"answered", "metered"}
      /\ UNCHANGED <<kind, redis, work, making, row, paid, lock, causes>>
      /\ kind = "metered" /\ call[h].answer = "succeed" => call[h].step = "metered"
  BY DEF Read
<1>2. CASE kind = "kling" /\ Final(row[call[h].task])
  <2>1. GoIdle(h) /\ call[h].step # "metered"
    BY <1>2 DEF Read, VideoTyped, Paths
  <2> QED BY <1>1, <2>1, GoIdleGone, UnlockUnlocks DEF Leaves
<1>3. CASE ~(kind = "kling" /\ Final(row[call[h].task]))
  <2>1. call' = [call EXCEPT ![h].step = "read", ![h].row = row[call[h].task]]
    BY <1>3 DEF Read
  <2> QED BY <1>1, <1>3, <2>1, ReadMoves DEF Untouched, Steps
<1> QED BY <1>2, <1>3

LEMMA MeterOut ==
    ASSUME VideoTyped, NEW h \in Handlers, Meter(h)
    PROVE  /\ call[h].step = "answered" /\ kind = "metered" /\ call[h].answer = "succeed"
           /\ UNCHANGED <<kind, redis, work, making, row, lock>>
           /\ \/ /\ PaidBy(call[h].task, Cost - call[h].row.quota)
                 /\ Blamed(call[h].task, IF "metered" \in causes[call[h].task]
                                         THEN {"remetered"} ELSE {"metered"})
              \/ Blamed(call[h].task, {"unpaid"}) /\ UNCHANGED paid
           /\ Now(h, call[h].task, "metered", call[h].row.status, call[h].row.quota, call[h].answer)
<1> DEFINE C == IF "metered" \in causes[call[h].task] THEN {"remetered"} ELSE {"metered"}
           n == Cost - call[h].row.quota
<1>1. /\ call[h].task \in TaskIds /\ n \in Int
      /\ C \in SUBSET Causes /\ {"unpaid"} \in SUBSET Causes
  BY CallFields, VideoAssumption DEF Meter, Causes
<1>2. \/ Pay(call[h].task, n) /\ Blame(call[h].task, C)
      \/ Blame(call[h].task, {"unpaid"}) /\ UNCHANGED paid
  BY DEF Meter
<1>3. \/ PaidBy(call[h].task, n) /\ Blamed(call[h].task, C)
      \/ Blamed(call[h].task, {"unpaid"}) /\ UNCHANGED paid
  <2> HIDE DEF C, n
  <2> QED BY <1>1, <1>2, PayPays, BlameBlames
<1> QED BY <1>3, GoMoves DEF Meter, Steps

LEMMA DirectOut ==
    ASSUME VideoTyped, NEW h \in Handlers, UpdateDirect(h) \/ UpdateImage(h)
    PROVE  /\ kind \in {"runway", "sora", "picture", "wan"} /\ call[h].step = "read"
           /\ IF call[h].row.status # "failed" /\ call[h].answer = "failed"
              THEN SavesAndRefunds(h) ELSE SavesAndGoes(h)
<1>1. /\ kind \in {"runway", "sora", "picture", "wan"} /\ call[h].step = "read"
      /\ call[h].answer # "missing" /\ SaveOrRefund(h)
  BY DEF UpdateDirect, UpdateImage, Reads, VideoTyped, Paths
<1>2. CASE call[h].row.status # "failed" /\ call[h].answer = "failed"
  BY <1>1, <1>2, SaveThenSaves DEF SaveOrRefund, SavesAndRefunds, Saves, Steps
<1>3. CASE ~(call[h].row.status # "failed" /\ call[h].answer = "failed")
  BY <1>1, <1>3, SaveAndLeaveSaves, UnlockUnlocks DEF SaveOrRefund, SavesAndGoes, Saves
<1> QED BY <1>1, <1>2, <1>3

LEMMA MissingOut ==
    ASSUME VideoTyped, NEW h \in Handlers, UpdateMissing(h)
    PROVE  /\ kind = "sora" /\ call[h].step = "read"
           /\ \/ Leaves(h)
              \/ /\ RowSaved(h, call[h].task, "processing", call[h].row.quota)
                 /\ Gone(h) /\ UNCHANGED <<kind, redis, work, making, paid, lock>>
BY MissingSaves, GoIdleGone, UnlockUnlocks DEF UpdateMissing, Reads, Leaves

LEMMA GeneralOut ==
    ASSUME VideoTyped, NEW h \in Handlers, UpdateGeneral(h)
    PROVE  /\ kind \in General /\ call[h].step = "read"
           /\ IF call[h].answer = call[h].row.status THEN Leaves(h)
              ELSE IF call[h].answer = "failed" THEN SavesAndRefunds(h) ELSE SavesAndGoes(h)
<1>1. /\ kind \in General /\ call[h].step = "read" /\ call[h].answer # "missing"
      /\ UNCHANGED <<kind, redis, work, making, paid, lock>>
  BY DEF UpdateGeneral, Reads, VideoTyped, Paths, General
<1>2. CASE call[h].answer = call[h].row.status
  BY <1>1, <1>2, GoIdleGone, UnlockUnlocks DEF UpdateGeneral, Leaves
<1>3. CASE call[h].answer # call[h].row.status /\ call[h].answer = "failed"
  BY <1>1, <1>3, SaveThenSaves DEF UpdateGeneral, SavesAndRefunds, Saves, Steps
<1>4. CASE call[h].answer # call[h].row.status /\ call[h].answer # "failed"
  BY <1>1, <1>4, SaveAndLeaveSaves, UnlockUnlocks DEF UpdateGeneral, SavesAndGoes, Saves
<1> QED BY <1>1, <1>2, <1>3, <1>4

LEMMA NativeOut ==
    ASSUME VideoTyped, NEW h \in Handlers, UpdateNative(h)
    PROVE  /\ kind = "native" /\ call[h].step = "read"
           /\ IF call[h].answer = call[h].row.status THEN Leaves(h)
              ELSE IF call[h].answer = "failed" /\ call[h].row.status = "processing"
                   THEN SavesAndRefunds(h) ELSE SavesAndGoes(h)
<1>1. /\ kind = "native" /\ call[h].step = "read" /\ call[h].answer # "missing"
      /\ UNCHANGED <<kind, redis, work, making, paid, lock>>
  BY DEF UpdateNative, Reads, VideoTyped, Paths
<1>2. CASE call[h].answer = call[h].row.status
  BY <1>1, <1>2, GoIdleGone, UnlockUnlocks DEF UpdateNative, Leaves
<1>3. CASE /\ call[h].answer # call[h].row.status
           /\ call[h].answer = "failed" /\ call[h].row.status = "processing"
  BY <1>1, <1>3, SaveThenSaves DEF UpdateNative, RefundsFrom, SavesAndRefunds, Saves, Steps
<1>4. CASE /\ call[h].answer # call[h].row.status
           /\ ~(call[h].answer = "failed" /\ call[h].row.status = "processing")
  BY <1>1, <1>4, SaveAndLeaveSaves, UnlockUnlocks DEF UpdateNative, RefundsFrom, SavesAndGoes, Saves
<1> QED BY <1>1, <1>2, <1>3, <1>4

LEMMA XaiRunningOut ==
    ASSUME VideoTyped, NEW h \in Handlers, UpdateXaiRunning(h)
    PROVE  /\ kind = "xai" /\ call[h].step = "read" /\ call[h].answer \notin Ended
           /\ SavesAndGoes(h)
BY SaveAndLeaveSaves, UnlockUnlocks DEF UpdateXaiRunning, Reads, SavesAndGoes, Saves, VideoTyped, Paths

\* Who enters the lock where there is none may meet somebody there.
Meeting(h) ==
    IF ~redis /\ (\E g \in Handlers \ {h} : InLock(g, call[h].task)) THEN {"unguarded"} ELSE {}

Taken(h) ==
    /\ lock' \in [TaskIds -> Handlers \cup {None}]
    /\ \A s \in TaskIds : s # call[h].task => lock'[s] = lock[s]
    /\ redis => lock[call[h].task] = None /\ lock'[call[h].task] = h

LEMMA LockOut ==
    ASSUME VideoTyped, NEW h \in Handlers, Lock(h)
    PROVE  /\ kind = "xai" /\ call[h].step = "read" /\ call[h].answer \in Ended
           /\ \/ Leaves(h)
              \/ /\ UNCHANGED <<kind, redis, work, making, row, paid>>
                 /\ Blamed(call[h].task, Meeting(h))
                 /\ Taken(h)
                 /\ Now(h, call[h].task, "locked", call[h].row.status, call[h].row.quota,
                        call[h].answer)
<1>1. /\ kind = "xai" /\ call[h].step = "read" /\ call[h].answer \in Ended
      /\ UNCHANGED <<kind, redis, work, making, row, paid>> /\ call[h].task \in TaskIds
  BY CallFields DEF Lock, Reads
<1>2. CASE ~LockFree(call[h].task)
  BY <1>1, <1>2, GoIdleGone, UnlockUnlocks DEF Lock, Leaves
<1>3. CASE LockFree(call[h].task)
  <2>1. /\ Blame(call[h].task, Meeting(h)) /\ Go(h, "locked")
        /\ lock' = [lock EXCEPT ![call[h].task] = IF redis THEN h ELSE @]
    BY <1>3 DEF Lock, Meeting
  <2>2. Blamed(call[h].task, Meeting(h))
    BY <1>1, <2>1, BlameBlames DEF Meeting, Causes
  <2>3. Taken(h)
    BY <1>1, <1>3, <2>1 DEF Taken, LockFree, VideoTyped, VideoTypeOK
  <2> QED BY <1>1, <2>1, <2>2, <2>3, GoMoves DEF Steps
<1> QED BY <1>2, <1>3

LEMMA RecheckOut ==
    ASSUME VideoTyped, NEW h \in Handlers, Recheck(h)
    PROVE  /\ call[h].step = "locked"
           /\ \/ Leaves(h)
              \/ /\ Untouched /\ UNCHANGED lock /\ ~Final(row[call[h].task])
                 /\ Now(h, call[h].task, "settle", row[call[h].task].status,
                        row[call[h].task].quota, call[h].answer)
<1>1. call[h].step = "locked" /\ UNCHANGED <<kind, redis, work, making, row, paid, causes>>
  BY DEF Recheck
<1>2. CASE Final(row[call[h].task])
  BY <1>1, <1>2, GoIdleGone, UnlockUnlocks DEF Recheck, Fresh, Leaves
<1>3. CASE ~Final(row[call[h].task])
  <2>1. call' = [call EXCEPT ![h].step = "settle", ![h].row = row[call[h].task]] /\ UNCHANGED lock
    BY <1>3 DEF Recheck, Fresh
  <2> QED BY <1>1, <1>3, <2>1, ReadMoves DEF Untouched, Steps
<1> QED BY <1>2, <1>3, <1>1

LEMMA SettleOut ==
    ASSUME VideoTyped, NEW h \in Handlers, Settle(h)
    PROVE  /\ call[h].step = "settle" /\ UNCHANGED <<kind, redis, work, making, row, lock>>
           /\ \/ /\ call[h].answer # "succeed" /\ Untouched
                 /\ Now(h, call[h].task, "save", call[h].row.status, call[h].row.quota, call[h].answer)
              \/ /\ call[h].answer = "succeed" /\ UNCHANGED causes
                 /\ PaidBy(call[h].task, IF kind = "kling" THEN Cost ELSE Cost - call[h].row.quota)
                 /\ Now(h, call[h].task, "save", call[h].row.status, Cost, call[h].answer)
              \/ /\ call[h].answer = "succeed" /\ Blamed(call[h].task, {"unpaid"}) /\ UNCHANGED paid
                 /\ Now(h, call[h].task, "save", call[h].row.status,
                        IF kind = "kling" THEN Cost ELSE call[h].row.quota, call[h].answer)
<1> DEFINE t == call[h].task
           owed == IF kind = "kling" THEN Cost ELSE Cost - call[h].row.quota
<1>1. /\ t \in TaskIds /\ owed \in Int /\ call[h].step = "settle"
      /\ UNCHANGED <<kind, redis, work, making, row, lock>>
  BY CallFields, VideoAssumption DEF Settle
<1>2. CASE call[h].answer # "succeed"
  BY <1>1, <1>2, GoMoves DEF Settle, Untouched, Steps
<1>3. CASE /\ call[h].answer = "succeed" /\ Pay(t, owed) /\ UNCHANGED causes
           /\ call' = [call EXCEPT ![h].step = "save", ![h].row.quota = Cost]
  <2>1. Now(h, t, "save", call[h].row.status, Cost, call[h].answer)
    <3>1. call \in [Handlers -> Calls] /\ "save" \in Steps
      BY DEF VideoTyped, VideoTypeOK, Steps
    <3> QED BY <1>3, <3>1, QuotaEdited
  <2>2. PaidBy(t, owed)
    BY <1>1, <1>3, PayPays
  <2> QED BY <1>1, <1>3, <2>1, <2>2
<1>4. CASE /\ call[h].answer = "succeed" /\ Blame(t, {"unpaid"}) /\ UNCHANGED paid
           /\ call' = [call EXCEPT ![h].step = "save",
                                   ![h].row.quota = IF kind = "kling" THEN Cost ELSE @]
  <2>1. Now(h, t, "save", call[h].row.status, IF kind = "kling" THEN Cost ELSE call[h].row.quota,
            call[h].answer)
    <3> DEFINE amount == IF kind = "kling" THEN Cost ELSE call[h].row.quota
    <3>1. call \in [Handlers -> Calls] /\ "save" \in Steps /\ amount \in {0, Hold, Cost}
      BY CallFields DEF VideoTyped, VideoTypeOK, Steps
    <3>2. call' = [call EXCEPT ![h].step = "save", ![h].row.quota = amount]
      BY <1>4
    <3> HIDE DEF amount
    <3>3. Now(h, t, "save", call[h].row.status, amount, call[h].answer)
      BY <3>1, <3>2, QuotaEdited
    <3> QED BY <3>3 DEF amount
  <2>2. Blamed(t, {"unpaid"})
    BY <1>1, <1>4, BlameBlames DEF Causes
  <2> QED BY <1>1, <1>4, <2>1, <2>2
<1>5. \/ call[h].answer # "succeed"
      \/ /\ call[h].answer = "succeed" /\ Pay(t, owed) /\ UNCHANGED causes
         /\ call' = [call EXCEPT ![h].step = "save", ![h].row.quota = Cost]
      \/ /\ call[h].answer = "succeed" /\ Blame(t, {"unpaid"}) /\ UNCHANGED paid
         /\ call' = [call EXCEPT ![h].step = "save",
                                 ![h].row.quota = IF kind = "kling" THEN Cost ELSE @]
  BY DEF Settle
<1> QED BY <1>2, <1>3, <1>4, <1>5

LEMMA SaveXaiOut ==
    ASSUME VideoTyped, NEW h \in Handlers, SaveXai(h)
    PROVE  /\ kind = "xai" /\ call[h].step = "save"
           /\ IF call[h].answer = "failed" THEN SavesAndRefunds(h) ELSE SavesAndGoes(h)
BY SaveThenSaves, SaveAndLeaveSaves, UnlockUnlocks
   DEF SaveXai, SavesAndRefunds, SavesAndGoes, Saves, Steps, VideoTyped, Paths

LEMMA KlingApplyOut ==
    ASSUME VideoTyped, NEW h \in Handlers, KlingApply(h)
    PROVE  /\ kind = "kling" /\ call[h].step = "read"
           /\ UNCHANGED <<kind, redis, work, making, row, paid, lock>>
           /\ \/ /\ UNCHANGED causes
                 /\ Now(h, call[h].task, IF call[h].answer = "succeed" THEN "settle" ELSE "save",
                        call[h].row.status, call[h].row.quota, call[h].answer)
              \/ /\ Blamed(call[h].task, {"unbilled"})
                 /\ Now(h, call[h].task, "save", call[h].row.status, call[h].row.quota,
                        call[h].answer)
<1>1. /\ kind = "kling" /\ call[h].step = "read" /\ call[h].task \in TaskIds
      /\ UNCHANGED <<kind, redis, work, making, row, paid, lock>>
  BY CallFields DEF KlingApply, Reads
<1>2. CASE Go(h, IF call[h].answer = "succeed" THEN "settle" ELSE "save") /\ UNCHANGED causes
  BY <1>1, <1>2, GoMoves DEF Steps
<1>3. CASE Go(h, "save") /\ Blame(call[h].task, {"unbilled"})
  BY <1>1, <1>3, GoMoves, BlameBlames DEF Steps, Causes
<1> QED BY <1>2, <1>3 DEF KlingApply

LEMMA KlingSaveOut ==
    ASSUME VideoTyped, NEW h \in Handlers, KlingSave(h)
    PROVE  /\ kind = "kling" /\ call[h].step = "save" /\ Saves(h) /\ UNCHANGED lock
           /\ Now(h, call[h].task, "notify", call[h].answer, call[h].row.quota, call[h].answer)
BY SaveThenSaves DEF KlingSave, Saves, Steps, VideoTyped, Paths

LEMMA NotifyOut ==
    ASSUME VideoTyped, NEW h \in Handlers, NotifyUserCallback(h)
    PROVE  /\ kind = "kling" /\ call[h].step = "notify"
           /\ Leaves(h) \/ SavesAndGoes(h)
BY SaveAndLeaveSaves, GoIdleGone, UnlockUnlocks
   DEF NotifyUserCallback, SavesAndGoes, Saves, Leaves, VideoTyped, Paths

LEMMA RefundOut ==
    ASSUME VideoTyped, NEW h \in Handlers, Refund(h)
    PROVE  /\ call[h].step = "refund"
           /\ \/ Leaves(h)
              \/ /\ UNCHANGED <<kind, redis, work, making, row, causes>>
                 /\ PaidBy(call[h].task, -Compensation(h)) /\ Gone(h) /\ Unlocked(h)
<1>1. /\ call[h].task \in TaskIds /\ -Compensation(h) \in Int /\ call[h].step = "refund"
      /\ UNCHANGED <<kind, redis, work, making, row>> /\ Gone(h) /\ Unlocked(h)
  BY CallFields, RowFields, VideoAssumption, GoIdleGone, UnlockUnlocks DEF Refund, Compensation
<1>2. CASE Pay(call[h].task, -Compensation(h)) /\ UNCHANGED causes
  BY <1>1, <1>2, PayPays
<1>3. CASE Blame(call[h].task, {"unrefunded"}) /\ UNCHANGED paid
  <2>1. Blamed(call[h].task, {"unrefunded"})
    BY <1>1, <1>3, BlameBlames DEF Causes
  <2> QED BY <1>1, <1>3, <2>1 DEF Leaves, Blamed, Elsewhere, Failures
<1> QED BY <1>2, <1>3 DEF Refund

-----------------------------------------------------------------------------
(* The variables stay typed, and the handlers on their paths.              *)

\* The steps that are possible for a handler of this kind, with this answer.
OnPath(step, t, reply) ==
    /\ step # "idle" /\ t \in TaskIds
    /\ step = "asking" => reply = "none"
    /\ step = "metered" => kind = "metered"
    /\ step = "locked" => kind = "xai"
    /\ step \in {"settle", "save"} => kind \in {"xai", "kling"}
    /\ step = "refund" => kind \notin {"kling", "still"}
    /\ step = "notify" => kind = "kling"
    /\ reply = "missing" => kind = "sora"
    /\ step = "answered" => kind \notin {"xai", "wan", "still"}
    /\ kind = "kling" => step # "asking"

LEMMA PathsGone ==
    ASSUME VideoTyped, NEW h \in Handlers, Gone(h), UNCHANGED <<kind, redis, work>>
    PROVE  Paths'
BY IdleFields DEF VideoTyped, Paths, Gone

LEMMA PathsNow ==
    ASSUME VideoTyped, NEW h \in Handlers, NEW step, NEW t, NEW state, NEW amount, NEW reply,
           OnPath(step, t, reply), Now(h, t, step, state, amount, reply),
           UNCHANGED <<kind, redis, work>>
    PROVE  Paths'
BY DEF VideoTyped, Paths, Now, OnPath

LEMMA VideoTypedBegin ==
    ASSUME VideoTyped, NEW h \in Handlers, NEW t \in TaskIds,
           ClientAsks(h, t) \/ PollerAsks(h, t) \/ Callback(h, t)
    PROVE  VideoTyped'
<1>1. UNCHANGED <<kind, redis, work, making, row, paid, lock, gone, causes, mishaps, errors>>
  BY DEF ClientAsks, PollerAsks, Ask, Callback
<1>2. CASE Ask(h, t) /\ kind # "kling"
  BY <1>1, <1>2, AskMoves, PathsNow DEF VideoTyped, VideoTypeOK, OnPath, Now
<1>3. CASE Callback(h, t)
  <2>1. OnPath("answered", t, Reading(t))
    BY <1>3, ReadingTyped DEF OnPath, Callback, CalledBack, Statuses, Ended
  <2>2. Now(h, t, "answered", "none", 0, Reading(t))
    BY <1>3, CallbackMoves
  <2> QED BY <1>1, <2>1, <2>2, PathsNow DEF VideoTyped, VideoTypeOK, Now
<1> QED BY <1>2, <1>3 DEF ClientAsks, PollerAsks, Polled

\* What is enough of a handler's step.
Shaped ==
    /\ row' \in [TaskIds -> Rows] /\ causes' \in [TaskIds -> SUBSET Causes]
    /\ paid' \in [TaskIds -> Int] /\ call' \in [Handlers -> Calls]
    /\ lock' \in [TaskIds -> Handlers \cup {None}] /\ Paths'

LEMMA LeavesShaped ==
    ASSUME VideoTyped, NEW h \in Handlers, Leaves(h)
    PROVE  Shaped
BY PathsGone DEF VideoTyped, VideoTypeOK, Leaves, Shaped, Gone, Unlocked

LEMMA FailsShaped ==
    ASSUME VideoTyped, NEW h \in Handlers, SaveFails(h)
    PROVE  Shaped
<1> DEFINE step == IF kind = "kling" THEN "notify" ELSE "refund"
<1>1. OnPath(step, call[h].task, call[h].answer) /\ call[h].step = "save"
  BY FailsOut, CallFields DEF OnPath, VideoTyped, Paths
<1>2. CASE Leaves(h)
  BY <1>2, LeavesShaped
<1>3. CASE /\ UNCHANGED <<kind, redis, work, making, row, paid, lock>>
           /\ Blamed(call[h].task, {"unsaved"})
           /\ Now(h, call[h].task, step, call[h].answer, call[h].row.quota, call[h].answer)
  <2> HIDE DEF step
  <2>1. Paths'
    BY <1>1, <1>3, PathsNow
  <2> QED BY <1>3, <2>1 DEF VideoTyped, VideoTypeOK, Shaped, Blamed, Now
<1> QED BY <1>2, <1>3, FailsOut

LEMMA VideoTypedAnswer ==
    ASSUME VideoTyped, NEW h \in Handlers,
           ProviderAnswers(h) \/ NoAnswer(h) \/ ErrorAnswer(h) \/ HandlerDies(h) \/ SaveFails(h)
    PROVE  VideoTyped'
<1> USE VideoAssumption DEF VideoTyped, VideoTypeOK
<1>1. CASE ProviderAnswers(h)
  <2>1. OnPath(IF kind \in ReadsFirst THEN "read" ELSE "answered", call[h].task, Reading(call[h].task))
    BY <1>1, CallFields, ReadingTyped DEF ProviderAnswers, OnPath, ReadsFirst, Paths, Statuses, Ended
  <2>2. Now(h, call[h].task, IF kind \in ReadsFirst THEN "read" ELSE "answered",
            call[h].row.status, call[h].row.quota, Reading(call[h].task))
    BY <1>1, AnswerMoves
  <2>3. UNCHANGED <<kind, redis, work, making, row, paid, lock, gone, causes, mishaps, errors>>
    BY <1>1 DEF ProviderAnswers
  <2>4. Paths'
    BY <2>1, <2>2, <2>3, PathsNow
  <2> QED BY <2>2, <2>3, <2>4 DEF Now
<1>2. CASE NoAnswer(h)
  BY <1>2, GoIdleGone, PathsGone DEF NoAnswer, Gone
<1>3. CASE ErrorAnswer(h)
  <2>1. call[h].task \in TaskIds
    BY <1>3, CallFields DEF ErrorAnswer
  <2>2. causes' \in [TaskIds -> SUBSET Causes]
    BY <1>3, <2>1, ErrorMoves, BlameBlames DEF Blamed, Causes
  <2>3. Paths' /\ call' \in [Handlers -> Calls]
    BY <1>3, <2>1, ErrorMoves, PathsNow DEF ErrorAnswer, OnPath, Now
  <2> QED BY <1>3, <2>2, <2>3 DEF ErrorAnswer
<1>4. CASE HandlerDies(h)
  BY <1>4, DiesLeaves, PathsGone DEF HandlerDies, Leaves, Gone
<1>5. CASE SaveFails(h)
  <2>1. UNCHANGED <<gone, errors>> /\ mishaps' \in 0..MaxMishaps
    BY <1>5 DEF SaveFails
  <2> QED BY <1>5, <2>1, FailsShaped, FailsOut DEF Shaped, Leaves
<1> QED BY <1>1, <1>2, <1>3, <1>4, <1>5


LEMMA SavesShaped ==
    ASSUME VideoTyped, NEW h \in Handlers, call[h].step # "idle",
           SavesAndGoes(h) \/ (SavesAndRefunds(h) /\ kind \notin {"kling", "still"})
    PROVE  Shaped
<1>1. CASE SavesAndGoes(h)
  BY <1>1, PathsGone DEF VideoTyped, VideoTypeOK, SavesAndGoes, Saves, RowSaved, Shaped, Gone, Unlocked
<1>2. CASE SavesAndRefunds(h) /\ kind \notin {"kling", "still"}
  <2>1. OnPath("refund", call[h].task, call[h].answer)
    BY <1>2, CallFields DEF OnPath, VideoTyped, Paths
  <2> QED BY <1>2, <2>1, PathsNow DEF VideoTyped, VideoTypeOK, SavesAndRefunds, Saves, RowSaved, Shaped, Now
<1> QED BY <1>1, <1>2

LEMMA ApplyShaped ==
    ASSUME VideoTyped, NEW h \in Handlers, Apply(h)
    PROVE  Shaped
<1> DEFINE t == call[h].task
<1>1. CASE Meter(h)
  <2>1. OnPath("metered", t, call[h].answer)
    BY <1>1, MeterOut, CallFields DEF OnPath
  <2> QED BY <1>1, <2>1, MeterOut, PathsNow DEF VideoTyped, VideoTypeOK, Shaped, PaidBy, Blamed, Now
<1>2. CASE Read(h)
  <2>1. OnPath("read", t, call[h].answer)
    BY <1>2, ReadOut, CallFields DEF OnPath, VideoTyped, Paths
  <2> QED BY <1>2, <2>1, ReadOut, LeavesShaped, PathsNow DEF VideoTyped, VideoTypeOK, Shaped, Untouched, Now
<1>3. CASE PassOn(h)
  BY <1>3, NoAnswerLeaves, LeavesShaped
<1>4. CASE UpdateImage(h) \/ UpdateDirect(h)
  BY <1>4, DirectOut, SavesShaped
<1>5. CASE UpdateMissing(h)
  BY <1>5, MissingOut, LeavesShaped, PathsGone DEF VideoTyped, VideoTypeOK, Shaped, RowSaved, Gone
<1>6. CASE UpdateGeneral(h)
  BY <1>6, GeneralOut, LeavesShaped, SavesShaped DEF General
<1>7. CASE UpdateNative(h)
  BY <1>7, NativeOut, LeavesShaped, SavesShaped
<1>8. CASE UpdateXaiRunning(h)
  BY <1>8, XaiRunningOut, SavesShaped
<1>9. CASE Lock(h)
  <2>1. call[h].step = "read"
    BY <1>9, LockOut
  <2>2. OnPath("locked", t, call[h].answer)
    BY <1>9, <2>1, LockOut, CallFields DEF OnPath, VideoTyped, Paths
  <2> QED BY <1>9, <2>2, LockOut, LeavesShaped, PathsNow DEF VideoTyped, VideoTypeOK, Shaped, Blamed, Taken, Now
<1>10. CASE Recheck(h)
  <2>1. OnPath("settle", t, call[h].answer)
    BY <1>10, RecheckOut, CallFields DEF OnPath, VideoTyped, Paths
  <2> QED BY <1>10, <2>1, RecheckOut, LeavesShaped, PathsNow DEF VideoTyped, VideoTypeOK, Shaped, Untouched, Now
<1>11. CASE Settle(h)
  <2>1. OnPath("save", t, call[h].answer)
    BY <1>11, SettleOut, CallFields DEF OnPath, VideoTyped, Paths
  <2> QED BY <1>11, <2>1, SettleOut, PathsNow DEF VideoTyped, VideoTypeOK, Shaped, Untouched, PaidBy, Blamed, Now
<1>12. CASE SaveXai(h)
  BY <1>12, SaveXaiOut, SavesShaped
<1>13. CASE KlingApply(h)
  <2> DEFINE step == IF call[h].answer = "succeed" THEN "settle" ELSE "save"
  <2>1. OnPath(step, t, call[h].answer) /\ OnPath("save", t, call[h].answer)
    BY <1>13, KlingApplyOut, CallFields DEF OnPath, VideoTyped, Paths
  <2>2. /\ UNCHANGED <<kind, redis, work, making, row, paid, lock>>
        /\ \/ UNCHANGED causes /\ Now(h, t, step, call[h].row.status, call[h].row.quota, call[h].answer)
           \/ /\ Blamed(t, {"unbilled"})
              /\ Now(h, t, "save", call[h].row.status, call[h].row.quota, call[h].answer)
    BY <1>13, KlingApplyOut
  <2> HIDE DEF step
  <2>3. Paths' /\ call' \in [Handlers -> Calls]
    BY <2>1, <2>2, PathsNow DEF Now
  <2> QED BY <2>2, <2>3 DEF VideoTyped, VideoTypeOK, Shaped, Blamed
<1>14. CASE KlingSave(h)
  <2>1. OnPath("notify", t, call[h].answer)
    BY <1>14, KlingSaveOut, CallFields DEF OnPath, VideoTyped, Paths
  <2> QED BY <1>14, <2>1, KlingSaveOut, PathsNow DEF VideoTyped, VideoTypeOK, Shaped, Saves, RowSaved, Now
<1>15. CASE NotifyUserCallback(h)
  BY <1>15, NotifyOut, LeavesShaped, SavesShaped
<1>16. CASE Refund(h)
  BY <1>16, RefundOut, LeavesShaped, PathsGone DEF VideoTyped, VideoTypeOK, Shaped, PaidBy, Gone, Unlocked
<1> QED BY <1>1, <1>2, <1>3, <1>4, <1>5, <1>6, <1>7, <1>8, <1>9, <1>10, <1>11, <1>12, <1>13,
          <1>14, <1>15, <1>16 DEF Apply

LEMMA ApplyKeeps ==
    ASSUME NEW h \in Handlers, Apply(h)
    PROVE  /\ UNCHANGED <<kind, redis, work, making, gone, errors>>
           /\ mishaps' = mishaps \/ (mishaps < MaxMishaps /\ mishaps' = mishaps + 1)
BY DEF Apply, Meter, Read, PassOn, UpdateImage, UpdateDirect, SaveOrRefund, UpdateMissing,
       UpdateGeneral, UpdateNative, UpdateXaiRunning, Lock, Recheck, Settle, SaveXai,
       KlingApply, KlingSave, NotifyUserCallback, Refund

LEMMA VideoTypedNext == VideoTyped /\ [VideoNext]_videoVars => VideoTyped'
<1> SUFFICES ASSUME VideoTyped, [VideoNext]_videoVars PROVE VideoTyped'
  OBVIOUS
<1>1. CASE UNCHANGED videoVars
  BY <1>1 DEF videoVars, VideoTyped, VideoTypeOK, Paths
<1>2. ASSUME NEW t \in TaskIds, Make(t) \/ ProviderEnds(t) \/ Forget(t) \/ DeleteChannel(t) \/ LockExpires(t)
      PROVE  VideoTyped'
  BY <1>2, VideoTypedMake, VideoTypedRest
<1>3. ASSUME NEW h \in Handlers, NEW t \in TaskIds, ClientAsks(h, t) \/ PollerAsks(h, t) \/ Callback(h, t)
      PROVE  VideoTyped'
  BY <1>3, VideoTypedBegin
<1>4. ASSUME NEW h \in Handlers, Apply(h)
      PROVE  VideoTyped'
  <2>1. UNCHANGED <<kind, redis, work, making, gone, errors>>
    BY <1>4, ApplyKeeps
  <2>2. mishaps' \in 0..MaxMishaps
    BY <1>4, ApplyKeeps, VideoAssumption DEF VideoTyped, VideoTypeOK
  <2> QED BY <1>4, <2>1, <2>2, ApplyShaped DEF Shaped, VideoTyped, VideoTypeOK
<1>5. ASSUME NEW h \in Handlers,
             ProviderAnswers(h) \/ NoAnswer(h) \/ ErrorAnswer(h) \/ HandlerDies(h) \/ SaveFails(h)
      PROVE  VideoTyped'
  BY <1>5, VideoTypedAnswer
<1> QED BY <1>1, <1>2, <1>3, <1>4, <1>5 DEF VideoNext

\* Every reachable state of the video tasks is well typed, whatever the kind of
\* provider and however many handlers are at work.
THEOREM VideoTypeCorrect == VideoSpec => []VideoTypeOK
<1>1. VideoSpec => []VideoTyped
  BY VideoTypedInit, VideoTypedNext, PTL DEF VideoSpec
<1> QED BY <1>1, PTL DEF VideoTyped

-----------------------------------------------------------------------------
(* The invariant of a task.                                                *)

\* Nothing has been written of the task yet.
Unborn(t) ==
    \/ kind = "kling" /\ making[t] = "new"
    \/ kind \in RowFirst /\ making[t] \in {"new", "sent"}
    \/ kind \notin RowFirst \cup {"kling"} /\ making[t] \in {"new", "sent", "charged"}

\* The provider does not know of the task yet.
Unsent(t) == making[t] = "new" \/ (kind = "kling" /\ making[t] = "inserted")

\* The handler has a row of its task in hand.
Informed(h) ==
    \/ call[h].step \in {"read", "locked", "settle", "save", "refund", "notify"}
    \/ kind \in ReadsFirst \cup {"metered"} /\ call[h].step = "asking"
    \/ kind = "metered" /\ call[h].step \in {"answered", "metered"}

\* Handlers work on tasks that have a row, and know its quota.
Presence(t) ==
    /\ Unsent(t) => work[t] = "none"
    /\ Unborn(t) => row[t].status = "none" /\ row[t].quota = 0
    /\ row[t].status # "none" => row[t].quota # 0
    /\ \A h \in Handlers : Works(h, t) =>
          /\ row[t].quota # 0
          /\ Informed(h) => call[h].row.quota # 0

\* Only xAI's handlers and Kling's ever change a quota.
OneQuota(t) ==
    kind \notin {"xai", "kling"} =>
        /\ row[t].quota \in {0, Hold}
        /\ \A h \in Handlers : Works(h, t) => call[h].row.quota \in {0, Hold}

\* Only xAI's tasks expire.
Expiry(t) ==
    kind # "xai" =>
        /\ row[t].status # "expired"
        /\ \A h \in Handlers : Works(h, t) =>
              call[h].row.status # "expired" /\ call[h].answer # "expired"

\* The native handlers know of tasks that are under way or have ended.
NativeStatus(t) ==
    kind = "native" =>
        /\ making[t] # "new" => work[t] # "none"
        /\ row[t].quota # 0 => row[t].status \in {"processing"} \cup Ended
        /\ \A h \in Handlers : Works(h, t) =>
            /\ Informed(h) => call[h].row.status \in {"processing"} \cup Ended
            /\ call[h].step # "asking" => call[h].answer \in {"processing"} \cup Ended

\* The provider says, or has said, that the task ended so.
Said(t, state) == state = Reading(t) \/ work[t] = "forgotten"

\* What handlers and rows know of a task's end is true.
Told(t) ==
    Clean(t) =>
        /\ \A h \in Handlers : Works(h, t) /\ call[h].answer \in Ended => Said(t, call[h].answer)
        /\ kind \notin {"kling", "still"} =>
             /\ Final(row[t]) => Said(t, row[t].status)
             /\ row[t].status = "failed" => Reading(t) = "failed"

\* An end may be followed by another one only when Ali has forgotten a success.
Then(first, later) == first = later \/ (kind = "wan" /\ first = "succeed" /\ later = "failed")

\* An end a handler has seen still stands, and its answer agrees.
Seen(t) ==
    Clean(t) /\ kind \notin {"kling", "still"} =>
        \A h \in Handlers : Works(h, t) /\ Final(call[h].row) =>
            /\ Then(call[h].row.status, row[t].status)
            /\ call[h].answer \in Ended => Then(call[h].row.status, call[h].answer)

Refunds(h, t) == Works(h, t) /\ call[h].step = "refund"
Refunding(t) == \E h \in Handlers : Refunds(h, t)

\* One handler refunds a task, and the task has failed.
OneRefund(t) ==
    Clean(t) =>
        /\ \A h \in Handlers : Refunds(h, t) =>
              row[t].status = "failed" /\ call[h].row.status = "failed" /\ call[h].answer = "failed"
        /\ \A g, h \in Handlers : Refunds(g, t) /\ Refunds(h, t) => g = h

\* Doubao's correction comes once, and before the success is in the row.
Metered(t) ==
    kind = "metered" /\ Clean(t) =>
        /\ "metered" \in causes[t] => work[t] = "succeed"
        /\ row[t].status = "succeed" => "metered" \in causes[t]
        /\ \A h \in Handlers :
              /\ Works(h, t)
              /\ \/ call[h].step = "metered"
                 \/ call[h].step = "read" /\ call[h].answer = "succeed"
              => "metered" \in causes[t] /\ call[h].answer = "succeed"

\* xAI: who is in the lock is alone with a task that has not ended.
UnderLock(t) ==
    kind = "xai" /\ Clean(t) =>
        /\ ~Final(row[t]) \/ row[t].status = "failed" => row[t].quota \in {0, Hold}
        /\ \A h \in Handlers : Works(h, t) =>
            /\ call[h].step \in {"asking", "read"} =>
                 ~Final(call[h].row) /\ call[h].row.quota = Hold
            /\ call[h].step \in {"locked", "settle", "save", "refund"} => call[h].answer \in Ended
            /\ call[h].step \in {"settle", "save"} => ~Final(row[t])
            /\ call[h].step = "settle" => call[h].row.quota = Hold
            /\ call[h].step = "save" =>
                 call[h].row.quota = IF call[h].answer = "succeed" THEN Cost ELSE Hold

\* The price has been corrected, or charged, and the row does not say so yet.
Paid(h, t) == Works(h, t) /\ call[h].step = "save" /\ call[h].answer = "succeed"

Base(t) == IF making[t] \in {"charged", "made"} THEN Hold ELSE 0

Corrected(t) ==
    \/ kind = "metered" /\ "metered" \in causes[t]
    \/ kind = "xai" /\ (row[t].status = "succeed" \/ \E h \in Handlers : Paid(h, t))

GivenBack(t) == kind # "still" /\ row[t].status = "failed" /\ ~Refunding(t)

Money(t) ==
    kind # "kling" /\ Clean(t) =>
        paid[t] = Base(t) + (IF Corrected(t) THEN Cost - Hold ELSE 0)
                  - (IF GivenBack(t) THEN IF kind = "picture" THEN DefaultImageQuota ELSE Hold
                     ELSE 0)

\* Kling: a callback goes on only with a task that has not ended, and notifies the
\* user of what it saved.
Callbacks(t) ==
    kind = "kling" =>
        \A h \in Handlers : Works(h, t) =>
            /\ call[h].step \in {"read", "settle", "save"} => ~Final(call[h].row)
            /\ call[h].step = "settle" => call[h].answer = "succeed"
            /\ call[h].step = "notify" => call[h].row.status = call[h].answer
            /\ Clean(t) /\ call[h].step = "notify" /\ call[h].answer \in Ended => Final(row[t])

\* Of two callbacks that have charged, the second will save over the first; one that
\* has charged a task that has ended will save over that end.
KlingMoney(t) ==
    kind = "kling" /\ Clean(t) /\ (\A g, h \in Handlers : Paid(g, t) /\ Paid(h, t) => g = h) =>
        /\ Final(row[t]) /\ ~(\E h \in Handlers : Paid(h, t)) =>
             paid[t] = IF row[t].status = "succeed" THEN Cost ELSE 0
        /\ ~Final(row[t]) => paid[t] = IF \E h \in Handlers : Paid(h, t) THEN Cost ELSE 0

TaskInv(t) ==
    /\ Presence(t) /\ OneQuota(t) /\ Expiry(t) /\ NativeStatus(t)
    /\ Told(t) /\ Seen(t) /\ OneRefund(t)
    /\ Metered(t) /\ UnderLock(t) /\ Money(t) /\ Callbacks(t) /\ KlingMoney(t)

\* Who is in the lock is alone there, and holds it if there is one; unless it has run
\* out, or two have met where there is none.
Guarded(t) == causes[t] \cap {"lockLost", "unguarded"} = {}
Holds(h, t) == /\ redis => lock[t] = h
               /\ \A g \in Handlers : InLock(g, t) => g = h
LockHeld(t) ==
    /\ Guarded(t) => \A h \in Handlers : InLock(h, t) => Holds(h, t)
    /\ redis => "unguarded" \notin causes[t]

-----------------------------------------------------------------------------
(* A step that leaves a task alone.                                        *)

Same(t) ==
    /\ kind' = kind /\ work'[t] = work[t] /\ making'[t] = making[t]
    /\ row'[t] = row[t] /\ paid'[t] = paid[t] /\ causes'[t] = causes[t]
    /\ \A h \in Handlers : Works(h, t)' <=> Works(h, t)
    /\ \A h \in Handlers : Works(h, t) => call'[h] = call[h]

LEMMA SameInv ==
    ASSUME NEW t \in TaskIds, TaskInv(t), Same(t)
    PROVE  TaskInv(t)'
<1> USE DEF Same
<1>1. Clean(t)' <=> Clean(t)
  BY DEF Clean
<1>2. /\ Final(row[t])' <=> Final(row[t])
      /\ Reading(t)' = Reading(t) /\ work'[t] = work[t]
  BY DEF Final, Reading
<1>3. \A h \in Handlers : /\ Refunds(h, t)' <=> Refunds(h, t)
                          /\ Paid(h, t)' <=> Paid(h, t)
  BY DEF Refunds, Paid, Works
<1>4. Presence(t)' /\ OneQuota(t)' /\ Expiry(t)' /\ NativeStatus(t)'
  BY DEF TaskInv, Presence, OneQuota, Expiry, NativeStatus, Unsent, Unborn, Informed
<1>5. Told(t)' /\ Seen(t)'
  BY <1>1, <1>2 DEF TaskInv, Told, Seen, Said, Then, Final
<1>6. OneRefund(t)'
  BY <1>1, <1>3 DEF TaskInv, OneRefund, Refunds
<1>7. Metered(t)' /\ UnderLock(t)' /\ Callbacks(t)'
  BY <1>1, <1>2 DEF TaskInv, Metered, UnderLock, Callbacks, Final
<1>8. /\ Refunding(t)' <=> Refunding(t)
      /\ (\E h \in Handlers : Paid(h, t)') <=> (\E h \in Handlers : Paid(h, t))
  BY <1>3 DEF Refunding
<1>9. Money(t)'
  BY <1>1, <1>8 DEF TaskInv, Money, Base, Corrected, GivenBack
<1>10. KlingMoney(t)'
  BY <1>1, <1>2, <1>3, <1>8 DEF TaskInv, KlingMoney
<1> QED BY <1>4, <1>5, <1>6, <1>7, <1>9, <1>10 DEF TaskInv

-----------------------------------------------------------------------------
(* A handler leaves its task.                                              *)

LEMMA LeavesInv ==
    ASSUME VideoTyped, NEW h \in Handlers, NEW t \in TaskIds, Works(h, t), Leaves(h), TaskInv(t)
    PROVE  TaskInv(t)'
<1>1. /\ kind' = kind /\ work' = work /\ making' = making /\ row' = row /\ paid' = paid
      /\ call[h].task = t
  BY DEF Leaves, Works
<1>2. Clean(t)' => /\ Clean(t) /\ call[h].step \notin {"save", "refund", "metered"}
                   /\ "metered" \in causes'[t] <=> "metered" \in causes[t]
  BY <1>1, RowFields DEF Leaves, Failures, Clean, Excuses, Causes
<1>3. /\ ~Works(h, t)'
      /\ \A g \in Handlers : Works(g, t)' => Works(g, t) /\ call'[g] = call[g]
      /\ \A g \in Handlers : Works(g, t) /\ g # h => Works(g, t)' /\ call'[g] = call[g]
  BY IdleFields DEF Leaves, Gone, Works
<1>4. Final(row[t])' <=> Final(row[t])
  BY <1>1
<1>5. Reading(t)' = Reading(t)
  BY <1>1 DEF Reading
<1>6. Presence(t)' /\ OneQuota(t)' /\ Expiry(t)' /\ NativeStatus(t)'
  BY <1>1, <1>3 DEF TaskInv, Presence, OneQuota, Expiry, NativeStatus, Unsent, Unborn, Informed
<1>7. Told(t)' /\ Seen(t)'
  BY <1>1, <1>2, <1>3, <1>5 DEF TaskInv, Told, Seen, Said, Then, Final
<1>8. OneRefund(t)'
  BY <1>1, <1>2, <1>3 DEF TaskInv, OneRefund, Refunds
<1>9. Metered(t)' /\ UnderLock(t)' /\ Callbacks(t)'
  BY <1>1, <1>2, <1>3, <1>4 DEF TaskInv, Metered, UnderLock, Callbacks, Final
<1>10. Clean(t)' => \A g \in Handlers : /\ Refunds(g, t)' <=> Refunds(g, t)
                                        /\ Paid(g, t)' <=> Paid(g, t)
  BY <1>2, <1>3 DEF Refunds, Paid, Works
<1>11. Money(t)'
  BY <1>1, <1>2, <1>10 DEF TaskInv, Money, Base, Corrected, GivenBack, Refunding
<1>12. KlingMoney(t)'
  BY <1>1, <1>2, <1>4, <1>10 DEF TaskInv, KlingMoney
<1> QED BY <1>6, <1>7, <1>8, <1>9, <1>11, <1>12 DEF TaskInv

-----------------------------------------------------------------------------
(* A handler takes a step on its task, and changes nothing of the task.    *)

\* h is or begins to work on t; the other handlers, and what they know, stay.
Acts(h, t, step, state, amount, reply) ==
    /\ Now(h, t, step, state, amount, reply) /\ step # "idle"
    /\ call[h].step # "idle" => call[h].task = t

LEMMA ActsWorks ==
    ASSUME NEW h \in Handlers, NEW t, NEW step, NEW state, NEW amount, NEW reply,
           Acts(h, t, step, state, amount, reply)
    PROVE  /\ Works(h, t)'
           /\ \A g \in Handlers : g # h => call'[g] = call[g] /\ (Works(g, t)' <=> Works(g, t))
BY DEF Acts, Now, Works

\* Steps of a handler that neither save nor pay.
LEMMA QuietInv ==
    ASSUME VideoTyped, NEW h \in Handlers, NEW t \in TaskIds, TaskInv(t),
           NEW step, NEW state, NEW amount, NEW reply,
           Acts(h, t, step, state, amount, reply), Untouched,
           call[h].step \notin {"refund", "save"}, step # "refund",
           step = "save" => reply # "succeed",
           row[t].quota # 0 /\ (Informed(h)' => amount # 0),
           kind \notin {"xai", "kling"} => amount \in {0, Hold},
           kind # "xai" => state # "expired" /\ reply # "expired",
           kind = "native" =>
               /\ Informed(h)' => state \in {"processing"} \cup Ended
               /\ step # "asking" => reply \in {"processing"} \cup Ended,
           Clean(t) /\ reply \in Ended => Said(t, reply),
           Clean(t) /\ kind \notin {"kling", "still"} /\ state \in Ended =>
               /\ Then(state, row[t].status)
               /\ reply \in Ended => Then(state, reply),
           Clean(t) /\ (step = "metered" \/ (kind = "metered" /\ step = "read" /\ reply = "succeed"))
               => "metered" \in causes[t] /\ reply = "succeed",
           kind = "xai" /\ Clean(t) =>
               /\ step \in {"asking", "read"} => state \notin Ended /\ amount = Hold
               /\ step \in {"locked", "settle", "save"} => reply \in Ended
               /\ step \in {"settle", "save"} => ~Final(row[t])
               /\ step = "settle" => amount = Hold
               /\ step = "save" => amount = Hold,
           kind = "kling" =>
               /\ step # "notify"
               /\ step \in {"read", "settle", "save"} => state \notin Ended
               /\ step = "settle" => reply = "succeed"
    PROVE  TaskInv(t)'
<1>1. kind' = kind /\ work' = work /\ making' = making /\ row' = row /\ paid' = paid /\ causes' = causes
  BY DEF Untouched
<1>2. /\ call'[h].step = step /\ call'[h].row.status = state /\ call'[h].row.quota = amount
      /\ call'[h].answer = reply
  BY DEF Acts, Now
<1>3. \A g \in Handlers : g # h => call'[g] = call[g] /\ (Works(g, t)' <=> Works(g, t))
  BY ActsWorks
<1>4. /\ Clean(t)' <=> Clean(t)
      /\ Final(row[t])' <=> Final(row[t])
      /\ Reading(t)' = Reading(t)
  BY <1>1 DEF Clean, Reading, Final
<1>5. Presence(t)'
  BY <1>1, <1>2, <1>3 DEF TaskInv, Presence, Unsent, Unborn, Informed
<1>6. OneQuota(t)' /\ Expiry(t)' /\ NativeStatus(t)'
  BY <1>1, <1>2, <1>3 DEF TaskInv, OneQuota, Expiry, NativeStatus, Informed
<1>7. Told(t)'
  BY <1>1, <1>2, <1>3, <1>4 DEF TaskInv, Told, Said
<1>8. Seen(t)'
  BY <1>1, <1>2, <1>3, <1>4 DEF TaskInv, Seen, Then, Final
<1>9. \A g \in Handlers : Refunds(g, t)' <=> Refunds(g, t)
  BY <1>2, <1>3 DEF Refunds, Works
<1>10. \A g \in Handlers : Paid(g, t)' <=> Paid(g, t)
  BY <1>2, <1>3 DEF Paid, Works
<1>11. OneRefund(t)'
  BY <1>1, <1>2, <1>3, <1>4, <1>9 DEF TaskInv, OneRefund, Refunds
<1>12. Metered(t)'
  BY <1>1, <1>2, <1>3, <1>4 DEF TaskInv, Metered
<1>13. UnderLock(t)'
  BY <1>1, <1>2, <1>3, <1>4 DEF TaskInv, UnderLock, Final
<1>14. Callbacks(t)'
  BY <1>1, <1>2, <1>3, <1>4 DEF TaskInv, Callbacks, Final
<1>15. Money(t)'
  BY <1>1, <1>4, <1>9, <1>10 DEF TaskInv, Money, Base, Corrected, GivenBack, Refunding
<1>16. KlingMoney(t)'
  BY <1>1, <1>4, <1>10 DEF TaskInv, KlingMoney
<1> QED BY <1>5, <1>6, <1>7, <1>8, <1>11, <1>12, <1>13, <1>14, <1>15, <1>16 DEF TaskInv

LEMMA ReadingExpiry ==
    ASSUME VideoTyped, NEW t \in TaskIds
    PROVE  /\ kind # "xai" => Reading(t) # "expired"
           /\ kind # "wan" => work[t] # "forgotten"
BY DEF VideoTyped, Paths, Reading, Polled

\* The native handlers get no other answer.
LEMMA ReadingNative ==
    ASSUME VideoTyped, NEW t \in TaskIds, TaskInv(t), row[t].quota # 0, kind = "native"
    PROVE  Reading(t) \in {"processing"} \cup Ended
<1>1. making[t] # "new"
  BY DEF TaskInv, Presence, Unborn, RowFirst, General
<1>2. work[t] # "none" /\ work[t] # "forgotten"
  BY <1>1, ReadingExpiry DEF TaskInv, NativeStatus
<1> QED BY <1>2 DEF Reading, VideoTyped, VideoTypeOK, Ended

LEMMA AskInv ==
    ASSUME VideoTyped, NEW h \in Handlers, NEW t \in TaskIds, TaskInv(t),
           ClientAsks(h, t) \/ PollerAsks(h, t)
    PROVE  TaskInv(t)'
<1>1. /\ Ask(h, t) /\ kind # "kling" /\ row[t].status # "none" /\ Untouched
      /\ kind = "xai" => ~Final(row[t])
  BY DEF ClientAsks, PollerAsks, Polled, Page, Unfinished, Ask, Untouched, Final, Ended
<1>2. row[t].quota # 0 /\ call[h].step = "idle"
  BY <1>1 DEF TaskInv, Presence, Ask
<1>3. kind \notin {"xai", "kling"} => row[t].quota \in {0, Hold}
  BY DEF TaskInv, OneQuota
<1>4. kind # "xai" => row[t].status # "expired"
  BY DEF TaskInv, Expiry
<1>5. kind = "xai" /\ Clean(t) => row[t].quota = Hold /\ row[t].status \notin Ended
  BY <1>1, <1>2 DEF TaskInv, UnderLock, Final
<1>8. kind = "native" => row[t].status \in {"processing"} \cup Ended
  BY <1>2 DEF TaskInv, NativeStatus
<1>6. CASE kind \in ReadsFirst \cup {"metered"} /\ Now(h, t, "asking", row[t].status, row[t].quota, "none")
  <2>1. Acts(h, t, "asking", row[t].status, row[t].quota, "none")
    BY <1>2, <1>6 DEF Acts
  <2>2. Then(row[t].status, row[t].status) /\ "none" \notin Ended
    BY DEF Then, Ended
  <2> QED BY <1>1, <1>2, <1>3, <1>4, <1>5, <1>8, <2>1, <2>2, QuietInv
<1>7. CASE kind \notin ReadsFirst \cup {"metered"} /\ Now(h, t, "asking", "none", 0, "none")
  <2>1. Acts(h, t, "asking", "none", 0, "none")
    BY <1>2, <1>7 DEF Acts
  <2>2. ~Informed(h)'
    BY <1>1, <1>7 DEF Informed, Now, Untouched
  <2>3. kind # "xai" /\ "none" \notin Ended
    BY <1>7 DEF ReadsFirst, Ended
  <2> QED BY <1>1, <1>2, <2>1, <2>2, <2>3, QuietInv
<1> QED BY <1>1, <1>6, <1>7, AskMoves

LEMMA CallbackInv ==
    ASSUME VideoTyped, NEW h \in Handlers, NEW t \in TaskIds, TaskInv(t), Callback(h, t)
    PROVE  TaskInv(t)'
<1>1. /\ kind \in {"native", "kling"} /\ row[t].status # "none" /\ Untouched
      /\ call[h].step = "idle"
  BY DEF Callback, CalledBack, Untouched
<1>2. Now(h, t, "answered", "none", 0, Reading(t))
  BY CallbackMoves
<1>3. Acts(h, t, "answered", "none", 0, Reading(t))
  BY <1>1, <1>2 DEF Acts
<1>4. row[t].quota # 0
  BY <1>1 DEF TaskInv, Presence
<1>5. ~Informed(h)'
  BY <1>1, <1>2 DEF Informed, Now, Untouched
<1>6. Reading(t) # "expired" /\ Said(t, Reading(t)) /\ "none" \notin Ended
  BY <1>1, ReadingExpiry DEF Said, Ended
<1>7. kind = "native" => Reading(t) \in {"processing"} \cup Ended
  BY <1>4, ReadingNative
<1> QED BY <1>1, <1>3, <1>4, <1>5, <1>6, <1>7, QuietInv

\* What is known of a handler at work.
LEMMA WorksFields ==
    ASSUME NEW h \in Handlers, NEW t \in TaskIds, TaskInv(t), Works(h, t)
    PROVE  /\ row[t].quota # 0 /\ (Informed(h) => call[h].row.quota # 0)
           /\ kind \notin {"xai", "kling"} =>
                row[t].quota \in {0, Hold} /\ call[h].row.quota \in {0, Hold}
           /\ kind # "xai" => /\ row[t].status # "expired"
                              /\ call[h].row.status # "expired" /\ call[h].answer # "expired"
           /\ kind = "native" =>
                /\ row[t].status \in {"processing"} \cup Ended
                /\ Informed(h) => call[h].row.status \in {"processing"} \cup Ended
                /\ call[h].step # "asking" => call[h].answer \in {"processing"} \cup Ended
           /\ Clean(t) /\ call[h].answer \in Ended => Said(t, call[h].answer)
           /\ Clean(t) /\ kind \notin {"kling", "still"} /\ call[h].row.status \in Ended =>
                /\ Then(call[h].row.status, row[t].status)
                /\ call[h].answer \in Ended => Then(call[h].row.status, call[h].answer)
BY DEF TaskInv, Presence, OneQuota, Expiry, NativeStatus, Told, Seen, Final

LEMMA AnswerInv ==
    ASSUME VideoTyped, NEW h \in Handlers, NEW t \in TaskIds, TaskInv(t), Works(h, t),
           ProviderAnswers(h)
    PROVE  TaskInv(t)'
<1> DEFINE step == IF kind \in ReadsFirst THEN "read" ELSE "answered"
<1>1. call[h].step = "asking" /\ call[h].task = t /\ Untouched /\ kind # "kling"
  BY DEF ProviderAnswers, Works, Untouched, VideoTyped, Paths
<1>2. Now(h, t, step, call[h].row.status, call[h].row.quota, Reading(t))
  BY <1>1, AnswerMoves
<1>3. Acts(h, t, step, call[h].row.status, call[h].row.quota, Reading(t)) /\ step \in {"read", "answered"}
  BY <1>1, <1>2 DEF Acts
<1>4. Informed(h)' => Informed(h)
  BY <1>1, <1>2 DEF Informed, Now, Untouched
<1>5. Said(t, Reading(t)) /\ (kind # "xai" => Reading(t) # "expired")
  BY ReadingExpiry DEF Said
<1>6. ASSUME Clean(t), kind \notin {"kling", "still"}, call[h].row.status \in Ended, Reading(t) \in Ended
      PROVE  Then(call[h].row.status, Reading(t))
  <2>1. Then(call[h].row.status, row[t].status)
    BY <1>6, WorksFields
  <2>2. Said(t, row[t].status) /\ (row[t].status = "failed" => Reading(t) = "failed")
    BY <1>6, <2>1 DEF Then, TaskInv, Told, Final, Ended
  <2>3. kind # "xai" => call[h].row.status # "expired" /\ Reading(t) # "expired"
    BY <1>5, WorksFields
  <2>4. kind # "wan" => work[t] # "forgotten"
    BY ReadingExpiry
  <2>5. CASE kind = "wan"
    BY <1>6, <2>1, <2>2, <2>3, <2>5 DEF Then, Ended
  <2>6. CASE kind # "wan"
    BY <2>1, <2>2, <2>4, <2>6 DEF Then, Said
  <2> QED BY <2>5, <2>6
<1>7. /\ kind = "xai" /\ Clean(t) => call[h].row.status \notin Ended /\ call[h].row.quota = Hold
      /\ kind = "metered" => step = "answered"
  BY <1>1 DEF TaskInv, UnderLock, Final, ReadsFirst
<1>8. kind = "native" => Reading(t) \in {"processing"} \cup Ended
  BY WorksFields, ReadingNative
<1> HIDE DEF step
<1> QED BY <1>1, <1>3, <1>4, <1>5, <1>6, <1>7, <1>8, WorksFields, QuietInv

LEMMA ReadInv ==
    ASSUME VideoTyped, NEW h \in Handlers, NEW t \in TaskIds, TaskInv(t), Works(h, t), Read(h)
    PROVE  TaskInv(t)'
<1>1. CASE Leaves(h)
  BY <1>1, LeavesInv
<1>2. CASE /\ Untouched /\ (kind = "kling" => ~Final(row[t]))
           /\ Now(h, t, "read", row[t].status, row[t].quota, call[h].answer)
  <2>1. /\ call[h].step \in {"answered", "metered"} /\ call[h].task = t
        /\ kind \notin {"xai", "wan", "still"}
        /\ kind = "metered" /\ call[h].answer = "succeed" => call[h].step = "metered"
    BY ReadOut DEF Works, VideoTyped, Paths
  <2>2. Acts(h, t, "read", row[t].status, row[t].quota, call[h].answer)
    BY <1>2, <2>1 DEF Acts
  <2>3. Clean(t) /\ kind = "metered" /\ call[h].answer = "succeed" => "metered" \in causes[t]
    BY <2>1 DEF TaskInv, Metered
  <2>4. ASSUME Clean(t), kind \notin {"kling", "still"}, row[t].status \in Ended
        PROVE  /\ Then(row[t].status, row[t].status)
               /\ call[h].answer \in Ended => Then(row[t].status, call[h].answer)
    <3>1. Said(t, row[t].status)
      BY <2>4 DEF TaskInv, Told, Final
    <3>2. call[h].answer \in Ended => Said(t, call[h].answer)
      BY <2>4, WorksFields
    <3> QED BY <2>1, <3>1, <3>2, ReadingExpiry DEF Said, Then
  <2>5. kind = "kling" => row[t].status \notin Ended
    BY <1>2 DEF Final
  <2> QED BY <1>2, <2>1, <2>2, <2>3, <2>4, <2>5, WorksFields, QuietInv
<1> QED BY <1>1, <1>2, ReadOut DEF Works

LEMMA RecheckInv ==
    ASSUME VideoTyped, NEW h \in Handlers, NEW t \in TaskIds, TaskInv(t), Works(h, t), Recheck(h)
    PROVE  TaskInv(t)'
<1>1. kind = "xai" /\ call[h].step = "locked" /\ call[h].task = t
  BY RecheckOut DEF Works, VideoTyped, Paths
<1>2. CASE Leaves(h)
  BY <1>2, LeavesInv
<1>3. CASE /\ Untouched /\ ~Final(row[t])
           /\ Now(h, t, "settle", row[t].status, row[t].quota, call[h].answer)
  <2>1. Acts(h, t, "settle", row[t].status, row[t].quota, call[h].answer)
    BY <1>1, <1>3 DEF Acts
  <2>2. Clean(t) => row[t].quota = Hold /\ call[h].answer \in Ended
    BY <1>1, <1>3, WorksFields DEF TaskInv, UnderLock
  <2>3. row[t].status \notin Ended
    BY <1>3 DEF Final
  <2> QED BY <1>1, <1>3, <2>1, <2>2, <2>3, WorksFields, QuietInv
<1> QED BY <1>1, <1>2, <1>3, RecheckOut

-----------------------------------------------------------------------------
(* A handler saves the task's row.                                         *)

LEMMA SavedClean ==
    ASSUME VideoTyped, NEW h \in Handlers, NEW t \in TaskIds, NEW state, NEW amount,
           RowSaved(h, t, state, amount), Clean(t)'
    PROVE  /\ Clean(t)
           /\ "metered" \in causes'[t] <=> "metered" \in causes[t]
           /\ \/ InLock(h, t)
              \/ row[t].status \notin Ended
              \/ row[t].status = call[h].row.status /\ state \in Ended
BY RowFields DEF RowSaved, Clean, Excuses, Causes, Final

\* It goes away; the price stays right.
LEMMA GoesInv ==
    ASSUME VideoTyped, NEW h \in Handlers, NEW t \in TaskIds, Works(h, t), TaskInv(t),
           NEW state, NEW amount, RowSaved(h, t, state, amount), Gone(h),
           UNCHANGED <<kind, redis, work, making, paid>>,
           kind \notin {"kling", "still"}, call[h].step # "refund",
           amount # 0, kind # "xai" => amount \in {0, Hold} /\ state # "expired",
           kind = "native" => state \in {"processing"} \cup Ended,
           Clean(t) /\ state \in Ended => Said(t, state),
           Clean(t)' => \/ state = row[t].status
                        \/ row[t].status \notin Ended /\ state # "failed",
           Clean(t)' => (Corrected(t)' <=> Corrected(t)),
           UnderLock(t)', Metered(t)'
    PROVE  TaskInv(t)'
<1>1. /\ kind' = kind /\ work' = work /\ making' = making /\ paid' = paid
      /\ row'[t].status = state /\ row'[t].quota = amount
  BY DEF RowSaved
<1>2. /\ ~Works(h, t)'
      /\ \A g \in Handlers : Works(g, t)' => Works(g, t) /\ call'[g] = call[g]
      /\ \A g \in Handlers : Works(g, t) /\ g # h => Works(g, t)' /\ call'[g] = call[g]
  BY IdleFields DEF Gone, Works
<1>3. Clean(t)' => Clean(t)
  BY SavedClean
<1>4. Reading(t)' = Reading(t)
  BY <1>1 DEF Reading
<1>5. row[t].quota # 0
  BY DEF TaskInv, Presence
<1>6. ~Unborn(t) /\ (Unborn(t)' <=> Unborn(t))
  BY <1>1, <1>5 DEF TaskInv, Presence, Unborn
<1>7. Presence(t)' /\ OneQuota(t)' /\ Expiry(t)' /\ NativeStatus(t)'
  BY <1>1, <1>2, <1>6 DEF TaskInv, Presence, OneQuota, Expiry, NativeStatus, Unsent, Informed
<1>8. ASSUME Clean(t)'
      PROVE  \A g \in Handlers : Works(g, t)' /\ Final(call[g].row) =>
                Then(call[g].row.status, row'[t].status)
  BY <1>1, <1>2, <1>3, <1>8 DEF TaskInv, Seen, Then, Final, Ended
<1>9. Seen(t)'
  BY <1>1, <1>2, <1>3, <1>8 DEF TaskInv, Seen, Then, Final
<1>10. Clean(t)' => (row'[t].status = "failed" => row[t].status = "failed" /\ Reading(t) = "failed")
  BY <1>1, <1>3 DEF TaskInv, Told
<1>11. Told(t)'
  BY <1>1, <1>2, <1>3, <1>4, <1>10 DEF TaskInv, Told, Said, Final
<1>12. \A g \in Handlers : Refunds(g, t)' <=> Refunds(g, t)
  BY <1>2 DEF Refunds, Works
<1>13. Clean(t)' => (row'[t].status = "failed" <=> row[t].status = "failed")
  BY <1>1 DEF Ended
<1>14. OneRefund(t)'
  BY <1>2, <1>3, <1>12, <1>13 DEF TaskInv, OneRefund, Refunds
<1>15. Money(t)'
  BY <1>1, <1>3, <1>12, <1>13 DEF TaskInv, Money, Base, GivenBack, Refunding
<1>16. Callbacks(t)' /\ KlingMoney(t)'
  BY <1>1 DEF Callbacks, KlingMoney
<1> QED BY <1>7, <1>9, <1>11, <1>14, <1>15, <1>16 DEF TaskInv

\* The task has failed; the handler goes on to the refund.
LEMMA RefundsInv ==
    ASSUME VideoTyped, NEW h \in Handlers, NEW t \in TaskIds, Works(h, t), TaskInv(t),
           NEW amount, RowSaved(h, t, "failed", amount),
           Acts(h, t, "refund", "failed", call[h].row.quota, "failed"),
           UNCHANGED <<kind, redis, work, making, paid>>,
           kind \notin {"kling", "still"}, call[h].answer = "failed",
           call[h].step # "refund", call[h].row.quota # 0,
           amount # 0, kind # "xai" => amount \in {0, Hold},
           Clean(t)' => \/ row[t].status \notin Ended
                        \/ kind = "wan" /\ row[t].status = "succeed",
           Clean(t)' => (Corrected(t)' <=> Corrected(t)),
           UnderLock(t)'
    PROVE  TaskInv(t)'
<1>1. /\ kind' = kind /\ work' = work /\ making' = making /\ paid' = paid
      /\ row'[t].status = "failed" /\ row'[t].quota = amount
  BY DEF RowSaved
<1>2. /\ Works(h, t)' /\ call'[h].step = "refund"
      /\ call'[h].row.status = "failed" /\ call'[h].row.quota = call[h].row.quota
      /\ call'[h].answer = "failed"
      /\ \A g \in Handlers : g # h => call'[g] = call[g] /\ (Works(g, t)' <=> Works(g, t))
  BY ActsWorks DEF Acts, Now
<1>3. Clean(t)' => Clean(t)
  BY SavedClean
<1>4. Reading(t)' = Reading(t)
  BY <1>1 DEF Reading
<1>5. row[t].quota # 0
  BY DEF TaskInv, Presence
<1>6. ~Unborn(t) /\ (Unborn(t)' <=> Unborn(t))
  BY <1>1, <1>5 DEF TaskInv, Presence, Unborn
<1>7. Presence(t)' /\ OneQuota(t)' /\ Expiry(t)' /\ NativeStatus(t)'
  BY <1>1, <1>2, <1>6 DEF TaskInv, Presence, OneQuota, Expiry, NativeStatus, Unsent, Informed, Ended
<1>8. Clean(t) => Said(t, "failed") /\ Reading(t) = "failed"
  BY DEF TaskInv, Told, Said, Reading, Ended
<1>9. Told(t)'
  BY <1>1, <1>2, <1>3, <1>4, <1>8 DEF TaskInv, Told, Said, Final
<1>10. ASSUME Clean(t)'
       PROVE  \A g \in Handlers : Works(g, t)' /\ g # h /\ Final(call[g].row) =>
                 Then(call[g].row.status, "failed")
  BY <1>2, <1>3, <1>10 DEF TaskInv, Seen, Then, Final, Ended
<1>11. Seen(t)'
  BY <1>1, <1>2, <1>3, <1>10 DEF TaskInv, Seen, Then, Final
<1>12. Clean(t)' => row[t].status # "failed"
  BY DEF Ended
<1>13. Clean(t)' => \A g \in Handlers : ~Refunds(g, t)
  BY <1>3, <1>12 DEF TaskInv, OneRefund
<1>14. /\ Refunds(h, t)'
       /\ Clean(t)' => \A g \in Handlers : Refunds(g, t)' => g = h
  BY <1>2, <1>13 DEF Refunds, Works
<1>15. OneRefund(t)'
  BY <1>1, <1>2, <1>14 DEF OneRefund
<1>16. Metered(t)'
  <2>1. Clean(t)' => ("metered" \in causes'[t] <=> "metered" \in causes[t])
    BY SavedClean
  <2> QED BY <1>1, <1>2, <1>3, <2>1 DEF TaskInv, Metered
<1>17. Refunding(t)' /\ (Clean(t)' => ~GivenBack(t)) /\ ~GivenBack(t)'
  BY <1>12, <1>14 DEF Refunding, GivenBack
<1>18. Money(t)'
  BY <1>1, <1>3, <1>17 DEF TaskInv, Money, Base
<1>19. Callbacks(t)' /\ KlingMoney(t)'
  BY <1>1 DEF Callbacks, KlingMoney
<1> QED BY <1>7, <1>9, <1>11, <1>15, <1>16, <1>18, <1>19 DEF TaskInv

\* Where there is no lock the price is corrected by the poll that asks, if at all.
LEMMA PlainCorrected ==
    ASSUME VideoTyped, NEW h \in Handlers, NEW t \in TaskIds, NEW state, NEW amount,
           RowSaved(h, t, state, amount), kind # "xai", kind' = kind
    PROVE  /\ Clean(t)' => (Corrected(t)' <=> Corrected(t))
           /\ UnderLock(t)'
BY SavedClean DEF Corrected, UnderLock

LEMMA PlainMetered ==
    ASSUME VideoTyped, NEW h \in Handlers, NEW t \in TaskIds, TaskInv(t), Works(h, t),
           NEW state, NEW amount, RowSaved(h, t, state, amount), Gone(h),
           UNCHANGED <<kind, redis, work>>,
           Clean(t)' /\ kind = "metered" /\ state = "succeed" => "metered" \in causes[t]
    PROVE  Metered(t)'
<1>1. /\ ~Works(h, t)'
      /\ \A g \in Handlers : Works(g, t)' => Works(g, t) /\ call'[g] = call[g]
  BY IdleFields DEF Gone, Works
<1>2. row'[t].status = state
  BY DEF RowSaved
<1>3. Clean(t)' => Clean(t) /\ ("metered" \in causes'[t] <=> "metered" \in causes[t])
  BY SavedClean
<1> QED BY <1>1, <1>2, <1>3 DEF TaskInv, Metered

\* The handlers that take no lock: when their save is not blamed, the task goes on
\* from what they had read, and the refund comes only with a new failure.
LEMMA PlainGoes ==
    ASSUME VideoTyped, NEW h \in Handlers, NEW t \in TaskIds, TaskInv(t), Works(h, t),
           SavesAndGoes(h), kind \notin {"xai", "kling", "still"}, call[h].step = "read",
           Clean(t) /\ call[h].answer = "failed" => call[h].row.status = "failed",
           kind = "metered" /\ Clean(t) /\ call[h].answer = "succeed" => "metered" \in causes[t]
    PROVE  TaskInv(t)'
<1>1. /\ call[h].task = t /\ call[h].row.quota # 0 /\ Gone(h)
      /\ UNCHANGED <<kind, redis, work, making, paid>>
  BY WorksFields DEF Works, Informed, SavesAndGoes, Saves
<1>2. RowSaved(h, t, call[h].answer, SavedQuota(h)) /\ ~InLock(h, t)
  BY <1>1 DEF SavesAndGoes, Saves, InLock
<1>3. SavedQuota(h) # 0 /\ SavedQuota(h) \in {0, Hold}
  BY <1>1, WorksFields DEF SavedQuota
<1>4. Clean(t)' => Clean(t)
  BY <1>2, SavedClean
<1>5. ASSUME Clean(t)'
      PROVE  \/ call[h].answer = row[t].status
             \/ row[t].status \notin Ended /\ call[h].answer # "failed"
  <2>1. CASE row[t].status \notin Ended
    <3>1. ASSUME call[h].answer = "failed" PROVE FALSE
      <4>1. call[h].row.status = "failed" /\ call[h].row.status \in Ended
        BY <1>4, <1>5, <3>1 DEF Ended
      <4> QED BY <1>4, <1>5, <2>1, <4>1, WorksFields DEF Then, Ended
    <3> QED BY <2>1, <3>1
  <2>2. CASE row[t].status = call[h].row.status /\ row[t].status \in Ended /\ call[h].answer \in Ended
    <3>1. Then(call[h].row.status, call[h].answer)
      BY <1>4, <1>5, <2>2, WorksFields
    <3> QED BY <1>4, <1>5, <2>2, <3>1 DEF Then
  <2> QED BY <1>2, <1>5, <2>1, <2>2, SavedClean
<1>6. (Clean(t)' => (Corrected(t)' <=> Corrected(t))) /\ UnderLock(t)'
  BY <1>1, <1>2, PlainCorrected
<1>7. Metered(t)'
  BY <1>1, <1>2, <1>4, PlainMetered
<1> HIDE DEF SavedQuota
<1> QED BY <1>1, <1>2, <1>3, <1>5, <1>6, <1>7, WorksFields, GoesInv

LEMMA PlainRefunds ==
    ASSUME VideoTyped, NEW h \in Handlers, NEW t \in TaskIds, TaskInv(t), Works(h, t),
           SavesAndRefunds(h), kind \notin {"xai", "kling", "still"}, call[h].step = "read",
           call[h].answer = "failed", call[h].row.status # "failed"
    PROVE  TaskInv(t)'
<1>1. /\ call[h].task = t /\ call[h].row.quota # 0
      /\ UNCHANGED <<kind, redis, work, making, paid>>
      /\ Acts(h, t, "refund", "failed", call[h].row.quota, "failed")
  BY WorksFields DEF Works, Informed, SavesAndRefunds, Saves, Acts
<1>2. RowSaved(h, t, "failed", SavedQuota(h)) /\ ~InLock(h, t)
  BY <1>1 DEF SavesAndRefunds, Saves, InLock
<1>3. SavedQuota(h) # 0 /\ SavedQuota(h) \in {0, Hold}
  BY <1>1, WorksFields DEF SavedQuota
<1>4. Clean(t)' => Clean(t)
  BY <1>2, SavedClean
<1>5. ASSUME Clean(t)'
      PROVE  \/ row[t].status \notin Ended
             \/ kind = "wan" /\ row[t].status = "succeed"
  <2>1. CASE row[t].status = call[h].row.status /\ row[t].status \in Ended
    <3>1. Then(call[h].row.status, call[h].answer)
      BY <1>4, <1>5, <2>1, WorksFields DEF Ended
    <3> QED BY <2>1, <3>1 DEF Then
  <2> QED BY <1>2, <1>5, <2>1, SavedClean
<1>6. (Clean(t)' => (Corrected(t)' <=> Corrected(t))) /\ UnderLock(t)'
  BY <1>1, <1>2, PlainCorrected
<1> HIDE DEF SavedQuota
<1> QED BY <1>1, <1>2, <1>3, <1>5, <1>6, RefundsInv

LEMMA DirectInv ==
    ASSUME VideoTyped, NEW h \in Handlers, NEW t \in TaskIds, TaskInv(t), Works(h, t),
           UpdateDirect(h) \/ UpdateImage(h)
    PROVE  TaskInv(t)'
<1>1. CASE call[h].row.status # "failed" /\ call[h].answer = "failed"
  BY <1>1, DirectOut, PlainRefunds
<1>2. CASE ~(call[h].row.status # "failed" /\ call[h].answer = "failed")
  BY <1>2, DirectOut, PlainGoes
<1> QED BY <1>1, <1>2

LEMMA MissingInv ==
    ASSUME VideoTyped, NEW h \in Handlers, NEW t \in TaskIds, TaskInv(t), Works(h, t),
           UpdateMissing(h)
    PROVE  TaskInv(t)'
<1>1. kind = "sora" /\ call[h].step = "read" /\ call[h].task = t
  BY MissingOut DEF Works
<1>2. CASE Leaves(h)
  BY <1>2, LeavesInv
<1>3. CASE /\ RowSaved(h, t, "processing", call[h].row.quota) /\ Gone(h)
           /\ UNCHANGED <<kind, redis, work, making, paid>>
  <2>1. call[h].row.quota # 0 /\ call[h].row.quota \in {0, Hold}
    BY <1>1, WorksFields DEF Informed
  <2>2. Clean(t)' => row[t].status \notin Ended
    BY <1>1, <1>3, SavedClean DEF InLock, Ended
  <2>3. (Clean(t)' => (Corrected(t)' <=> Corrected(t))) /\ UnderLock(t)'
    BY <1>1, <1>3, PlainCorrected
  <2>4. Metered(t)'
    BY <1>1, <1>3 DEF Metered
  <2>5. "processing" \notin Ended /\ "processing" \notin {"failed", "expired"}
    BY DEF Ended
  <2> QED BY <1>1, <1>3, <2>1, <2>2, <2>3, <2>4, <2>5, GoesInv
<1> QED BY <1>1, <1>2, <1>3, MissingOut

LEMMA GeneralInv ==
    ASSUME VideoTyped, NEW h \in Handlers, NEW t \in TaskIds, TaskInv(t), Works(h, t),
           UpdateGeneral(h)
    PROVE  TaskInv(t)'
<1>1. kind \in General /\ call[h].step = "read" /\ kind \notin {"xai", "kling", "still"}
  BY GeneralOut DEF General
<1>2. CASE call[h].answer = call[h].row.status
  BY <1>2, GeneralOut, LeavesInv
<1>3. CASE call[h].answer # call[h].row.status /\ call[h].answer = "failed"
  BY <1>1, <1>3, GeneralOut, PlainRefunds
<1>4. CASE call[h].answer # call[h].row.status /\ call[h].answer # "failed"
  <2>1. kind = "metered" /\ Clean(t) /\ call[h].answer = "succeed" => "metered" \in causes[t]
    BY <1>1 DEF TaskInv, Metered
  <2> QED BY <1>1, <1>4, <2>1, GeneralOut, PlainGoes
<1> QED BY <1>2, <1>3, <1>4

LEMMA NativeInv ==
    ASSUME VideoTyped, NEW h \in Handlers, NEW t \in TaskIds, TaskInv(t), Works(h, t),
           UpdateNative(h)
    PROVE  TaskInv(t)'
<1>1. kind = "native" /\ call[h].step = "read"
  BY NativeOut
<1>2. CASE call[h].answer = call[h].row.status
  BY <1>2, NativeOut, LeavesInv
<1>3. CASE /\ call[h].answer # call[h].row.status
           /\ call[h].answer = "failed" /\ call[h].row.status = "processing"
  BY <1>1, <1>3, NativeOut, PlainRefunds
<1>4. CASE /\ call[h].answer # call[h].row.status
           /\ ~(call[h].answer = "failed" /\ call[h].row.status = "processing")
  <2>1. ASSUME Clean(t) PROVE call[h].answer # "failed"
    <3>0. SUFFICES ASSUME call[h].answer = "failed" PROVE FALSE
      OBVIOUS
    <3>1. call[h].row.status \in Ended
      BY <1>1, <1>4, <3>0, WorksFields DEF Informed
    <3>2. Then(call[h].row.status, "failed")
      BY <1>1, <2>1, <3>0, <3>1, WorksFields DEF Ended
    <3> QED BY <1>1, <1>4, <3>0, <3>2 DEF Then
  <2> QED BY <1>1, <1>4, <2>1, NativeOut, PlainGoes
<1> QED BY <1>2, <1>3, <1>4

-----------------------------------------------------------------------------
(* xAI's handlers.                                                         *)

\* Who is in the lock is the only one there.
LEMMA AloneInLock ==
    ASSUME NEW h \in Handlers, NEW t \in TaskIds, LockHeld(t), InLock(h, t), Clean(t)
    PROVE  \A g \in Handlers : InLock(g, t) => g = h
BY DEF LockHeld, Guarded, Holds, Clean, Excuses, Causes

LEMMA XaiRunningInv ==
    ASSUME VideoTyped, NEW h \in Handlers, NEW t \in TaskIds, TaskInv(t), Works(h, t),
           UpdateXaiRunning(h)
    PROVE  TaskInv(t)'
<1>1. /\ kind = "xai" /\ call[h].step = "read" /\ call[h].answer \notin Ended
      /\ SavesAndGoes(h) /\ call[h].task = t
  BY XaiRunningOut DEF Works
<1>2. /\ RowSaved(h, t, call[h].answer, call[h].row.quota) /\ Gone(h)
      /\ UNCHANGED <<kind, redis, work, making, paid>>
  BY <1>1 DEF SavesAndGoes, Saves, SavedQuota
<1>3. call[h].row.quota # 0 /\ (Clean(t) => call[h].row.quota = Hold)
  BY <1>1, WorksFields DEF Informed, TaskInv, UnderLock
<1>4. Clean(t)' => Clean(t) /\ row[t].status \notin Ended
  BY <1>1, <1>2, SavedClean DEF InLock
<1>5. /\ ~Works(h, t)'
      /\ \A g \in Handlers : Works(g, t)' => Works(g, t) /\ call'[g] = call[g]
      /\ \A g \in Handlers : Works(g, t) /\ g # h => Works(g, t)' /\ call'[g] = call[g]
  BY <1>2, IdleFields DEF Gone, Works
<1>6. row'[t].status = call[h].answer /\ row'[t].quota = call[h].row.quota
  BY <1>2 DEF RowSaved
<1>7. UnderLock(t)'
  BY <1>1, <1>2, <1>3, <1>4, <1>5, <1>6 DEF TaskInv, UnderLock, Final
<1>8. Metered(t)'
  BY <1>1, <1>2 DEF Metered
<1>9. \A g \in Handlers : Paid(g, t)' <=> Paid(g, t)
  BY <1>1, <1>5 DEF Paid, Works
<1>10. Clean(t)' => (Corrected(t)' <=> Corrected(t))
  BY <1>1, <1>2, <1>4, <1>6, <1>9 DEF Corrected, Ended
<1>11. call[h].answer \notin {"failed"} /\ kind # "native"
  BY <1>1 DEF Ended
<1> QED BY <1>1, <1>2, <1>3, <1>4, <1>7, <1>8, <1>10, <1>11, GoesInv

LEMMA SaveXaiInv ==
    ASSUME VideoTyped, NEW h \in Handlers, NEW t \in TaskIds, TaskInv(t), LockHeld(t),
           Works(h, t), SaveXai(h)
    PROVE  TaskInv(t)'
<1>1. kind = "xai" /\ call[h].step = "save" /\ call[h].task = t /\ InLock(h, t)
  BY SaveXaiOut DEF Works, InLock
<1>2. /\ RowSaved(h, t, call[h].answer, call[h].row.quota)
      /\ UNCHANGED <<kind, redis, work, making, paid>>
  BY <1>1, SaveXaiOut DEF SavesAndRefunds, SavesAndGoes, Saves, SavedQuota
<1>3. row'[t].status = call[h].answer /\ row'[t].quota = call[h].row.quota /\ call[h].row.quota # 0
  BY <1>1, <1>2, WorksFields DEF RowSaved, Informed
<1>4. Clean(t)' => Clean(t)
  BY <1>2, SavedClean
<1>5. Clean(t) => /\ call[h].answer \in Ended /\ row[t].status \notin Ended
                  /\ call[h].row.quota = IF call[h].answer = "succeed" THEN Cost ELSE Hold
  BY <1>1 DEF TaskInv, UnderLock, Final
<1>6. Clean(t) => \A g \in Handlers : InLock(g, t) => g = h
  BY <1>1, AloneInLock
<1>7. Clean(t) => /\ Paid(h, t) <=> call[h].answer = "succeed"
                  /\ \A g \in Handlers : Paid(g, t) => g = h
  BY <1>1, <1>6 DEF Paid, Works, InLock
<1>8. CASE call[h].answer # "failed"
  <2>1. Gone(h)
    BY <1>8, SaveXaiOut DEF SavesAndGoes
  <2>2. /\ ~Works(h, t)'
        /\ \A g \in Handlers : Works(g, t)' => Works(g, t) /\ call'[g] = call[g] /\ g # h
    BY <2>1, IdleFields DEF Gone, Works
  <2>3. Clean(t) => \A g \in Handlers : ~Paid(g, t)'
    BY <1>7, <2>2 DEF Paid, Works
  <2>4. Clean(t)' => (Corrected(t)' <=> Corrected(t))
    BY <1>1, <1>2, <1>3, <1>4, <1>5, <1>7, <2>3 DEF Corrected, Ended
  <2>5. UnderLock(t)'
    <3>1. Clean(t) => \A g \in Handlers : Works(g, t)' =>
                        call'[g].step \notin {"locked", "settle", "save", "refund"}
      BY <1>1, <1>6, <2>2 DEF InLock, Works
    <3>2. Clean(t) => \A g \in Handlers : Works(g, t)' /\ call'[g].step \in {"asking", "read"} =>
                        ~Final(call'[g].row) /\ call'[g].row.quota = Hold
      BY <1>1, <2>2 DEF TaskInv, UnderLock
    <3> QED BY <1>1, <1>2, <1>3, <1>4, <1>5, <1>8, <3>1, <3>2 DEF UnderLock, Final
  <2>6. Metered(t)'
    BY <1>1, <1>2 DEF Metered
  <2> QED BY <1>1, <1>2, <1>3, <1>4, <1>5, <1>8, <2>1, <2>4, <2>5, <2>6, WorksFields, GoesInv
<1>9. CASE call[h].answer = "failed"
  <2>1. Acts(h, t, "refund", "failed", call[h].row.quota, "failed")
    BY <1>1, <1>9, SaveXaiOut DEF SavesAndRefunds, Acts
  <2>2. /\ Works(h, t)' /\ call'[h].step = "refund" /\ call'[h].answer = "failed"
        /\ \A g \in Handlers : g # h => call'[g] = call[g] /\ (Works(g, t)' <=> Works(g, t))
    BY <2>1, ActsWorks DEF Acts, Now
  <2>3. Clean(t) => \A g \in Handlers : ~Paid(g, t)' /\ ~Paid(g, t)
    BY <1>7, <1>9, <2>2 DEF Paid, Works
  <2>4. Clean(t)' => (Corrected(t)' <=> Corrected(t))
    BY <1>1, <1>2, <1>3, <1>4, <1>5, <1>9, <2>3 DEF Corrected, Ended
  <2>5. UnderLock(t)'
    <3>1. Clean(t) => \A g \in Handlers : Works(g, t)' /\ g # h =>
                        call'[g].step \notin {"locked", "settle", "save", "refund"}
      BY <1>1, <1>6, <2>2 DEF InLock, Works
    <3>2. Clean(t) => \A g \in Handlers : Works(g, t)' /\ call'[g].step \in {"asking", "read"} =>
                        ~Final(call'[g].row) /\ call'[g].row.quota = Hold
      BY <1>1, <2>2 DEF TaskInv, UnderLock
    <3>3. "failed" \in Ended
      BY DEF Ended
    <3> QED BY <1>1, <1>2, <1>3, <1>4, <1>5, <1>9, <2>2, <3>1, <3>2, <3>3 DEF UnderLock, Final
  <2>6. Clean(t)' => row[t].status \notin Ended
    BY <1>4, <1>5
  <2> QED BY <1>1, <1>2, <1>3, <1>9, <2>1, <2>4, <2>5, <2>6, RefundsInv
<1> QED BY <1>8, <1>9

-----------------------------------------------------------------------------
(* A handler takes a step that costs the user something, or is blamed.     *)

LEMMA PaysInv ==
    ASSUME VideoTyped, NEW h \in Handlers, NEW t \in TaskIds, TaskInv(t),
           NEW step, NEW state, NEW amount, NEW reply,
           Acts(h, t, step, state, amount, reply), UNCHANGED <<kind, redis, work, making, row>>,
           Clean(t)' => Clean(t) /\ call[h].step # "refund" /\ step # "refund",
           row[t].quota # 0 /\ (Informed(h)' => amount # 0),
           kind \notin {"xai", "kling"} => amount \in {0, Hold},
           kind # "xai" => state # "expired" /\ reply # "expired",
           kind = "native" =>
               /\ Informed(h)' => state \in {"processing"} \cup Ended
               /\ step # "asking" => reply \in {"processing"} \cup Ended,
           Clean(t)' /\ reply \in Ended => Said(t, reply),
           Clean(t)' /\ kind \notin {"kling", "still"} /\ state \in Ended =>
               /\ Then(state, row[t].status)
               /\ reply \in Ended => Then(state, reply),
           kind = "kling" =>
               /\ step = "notify" => state = reply /\ ~Clean(t)'
               /\ step \in {"read", "settle", "save"} => state \notin Ended
               /\ step = "settle" => reply = "succeed",
           Metered(t)', UnderLock(t)', Money(t)', KlingMoney(t)'
    PROVE  TaskInv(t)'
<1>1. kind' = kind /\ work' = work /\ making' = making /\ row' = row
  OBVIOUS
<1>2. /\ call'[h].step = step /\ call'[h].row.status = state /\ call'[h].row.quota = amount
      /\ call'[h].answer = reply
  BY DEF Acts, Now
<1>3. \A g \in Handlers : g # h => call'[g] = call[g] /\ (Works(g, t)' <=> Works(g, t))
  BY ActsWorks
<1>4. /\ Final(row[t])' <=> Final(row[t])
      /\ Reading(t)' = Reading(t)
  BY <1>1 DEF Reading, Final
<1>5. Presence(t)'
  BY <1>1, <1>2, <1>3 DEF TaskInv, Presence, Unsent, Unborn, Informed
<1>6. OneQuota(t)' /\ Expiry(t)' /\ NativeStatus(t)'
  BY <1>1, <1>2, <1>3 DEF TaskInv, OneQuota, Expiry, NativeStatus, Informed
<1>7. Told(t)'
  BY <1>1, <1>2, <1>3, <1>4 DEF TaskInv, Told, Said
<1>8. Seen(t)'
  BY <1>1, <1>2, <1>3, <1>4 DEF TaskInv, Seen, Then, Final
<1>9. Clean(t)' => \A g \in Handlers : Refunds(g, t)' <=> Refunds(g, t)
  BY <1>2, <1>3 DEF Refunds, Works
<1>10. OneRefund(t)'
  BY <1>1, <1>2, <1>3, <1>4, <1>9 DEF TaskInv, OneRefund, Refunds
<1>11. Callbacks(t)'
  BY <1>1, <1>2, <1>3, <1>4 DEF TaskInv, Callbacks, Final
<1> QED BY <1>5, <1>6, <1>7, <1>8, <1>10, <1>11 DEF TaskInv

\* A step that is blamed: nothing more is claimed of the task.
LEMMA BlamedInv ==
    ASSUME VideoTyped, NEW h \in Handlers, NEW t \in TaskIds, TaskInv(t),
           NEW step, NEW state, NEW amount, NEW reply,
           Acts(h, t, step, state, amount, reply), UNCHANGED <<kind, redis, work, making, row>>,
           ~Clean(t)',
           row[t].quota # 0 /\ (Informed(h)' => amount # 0),
           kind \notin {"xai", "kling"} => amount \in {0, Hold},
           kind # "xai" => state # "expired" /\ reply # "expired",
           kind # "native",
           kind = "kling" =>
               /\ step = "notify" => state = reply
               /\ step \in {"read", "settle", "save"} => state \notin Ended
               /\ step = "settle" => reply = "succeed"
    PROVE  TaskInv(t)'
<1>1. Metered(t)' /\ UnderLock(t)' /\ Money(t)' /\ KlingMoney(t)'
  BY DEF Metered, UnderLock, Money, KlingMoney
<1> QED BY <1>1, PaysInv

\* A save has failed, and the handler has gone on or gone away.
LEMMA FailsInv ==
    ASSUME VideoTyped, NEW h \in Handlers, NEW t \in TaskIds, TaskInv(t), Works(h, t), SaveFails(h)
    PROVE  TaskInv(t)'
<1> DEFINE step == IF kind = "kling" THEN "notify" ELSE "refund"
<1>1. kind \in {"xai", "kling"} /\ call[h].step = "save" /\ call[h].task = t
  BY FailsOut DEF Works
<1>2. CASE Leaves(h)
  BY <1>2, LeavesInv
<1>3. CASE /\ UNCHANGED <<kind, redis, work, making, row, paid, lock>> /\ Blamed(t, {"unsaved"})
           /\ Now(h, t, step, call[h].answer, call[h].row.quota, call[h].answer)
  <2>1. Acts(h, t, step, call[h].answer, call[h].row.quota, call[h].answer)
    BY <1>1, <1>3 DEF Acts
  <2>2. ~Clean(t)'
    BY <1>3 DEF Blamed, Clean, Excuses, Causes
  <2>3. row[t].quota # 0 /\ call[h].row.quota # 0
    BY <1>1, WorksFields DEF Informed
  <2>4. step \notin {"read", "settle", "save"} /\ kind # "native"
    BY <1>1
  <2> HIDE DEF step
  <2> QED BY <1>1, <1>3, <2>1, <2>2, <2>3, <2>4, WorksFields, BlamedInv
<1> QED BY <1>1, <1>2, <1>3, FailsOut

\* Who meets another one in the lock is blamed; otherwise nothing changes.
LEMMA LockInv ==
    ASSUME VideoTyped, NEW h \in Handlers, NEW t \in TaskIds, TaskInv(t), Works(h, t), Lock(h)
    PROVE  TaskInv(t)'
<1>1. kind = "xai" /\ call[h].step = "read" /\ call[h].task = t /\ call[h].answer \in Ended
  BY LockOut DEF Works
<1>2. CASE Leaves(h)
  BY <1>2, LeavesInv
<1>3. CASE /\ UNCHANGED <<kind, redis, work, making, row, paid>> /\ Blamed(t, Meeting(h))
           /\ Now(h, t, "locked", call[h].row.status, call[h].row.quota, call[h].answer)
  <2>1. Acts(h, t, "locked", call[h].row.status, call[h].row.quota, call[h].answer)
    BY <1>1, <1>3 DEF Acts
  <2>2. row[t].quota # 0 /\ call[h].row.quota # 0
    BY <1>1, WorksFields DEF Informed
  <2>3. CASE Meeting(h) = {}
    <3>1. causes' = causes
      BY <1>3, <2>3 DEF Blamed, VideoTyped, VideoTypeOK
    <3>2. Untouched
      BY <1>3, <3>1 DEF Untouched
    <3> QED BY <1>1, <2>1, <2>2, <3>2, WorksFields, QuietInv
  <2>4. CASE Meeting(h) = {"unguarded"}
    <3>1. ~Clean(t)'
      BY <1>3, <2>4 DEF Blamed, Clean, Excuses, Causes
    <3> QED BY <1>1, <1>3, <2>1, <2>2, <3>1, BlamedInv
  <2> QED BY <2>3, <2>4 DEF Meeting
<1> QED BY <1>1, <1>2, <1>3, LockOut

LEMMA KlingApplyInv ==
    ASSUME VideoTyped, NEW h \in Handlers, NEW t \in TaskIds, TaskInv(t), Works(h, t), KlingApply(h)
    PROVE  TaskInv(t)'
<1> DEFINE step == IF call[h].answer = "succeed" THEN "settle" ELSE "save"
<1>1. /\ kind = "kling" /\ call[h].step = "read" /\ call[h].task = t
      /\ UNCHANGED <<kind, redis, work, making, row, paid>>
  BY KlingApplyOut DEF Works
<1>2. row[t].quota # 0 /\ call[h].row.quota # 0 /\ call[h].row.status \notin Ended
  BY <1>1, WorksFields DEF Informed, TaskInv, Callbacks, Final
<1>3. CASE UNCHANGED causes /\ Now(h, t, step, call[h].row.status, call[h].row.quota, call[h].answer)
  <2>1. Acts(h, t, step, call[h].row.status, call[h].row.quota, call[h].answer) /\ Untouched
    BY <1>1, <1>3 DEF Acts, Untouched
  <2>2. /\ step \in {"settle", "save"}
        /\ step = "save" => call[h].answer # "succeed"
        /\ step = "settle" => call[h].answer = "succeed"
    OBVIOUS
  <2> HIDE DEF step
  <2> QED BY <1>1, <1>2, <2>1, <2>2, WorksFields, QuietInv
<1>4. CASE /\ Blamed(t, {"unbilled"})
           /\ Now(h, t, "save", call[h].row.status, call[h].row.quota, call[h].answer)
  <2>1. Acts(h, t, "save", call[h].row.status, call[h].row.quota, call[h].answer)
    BY <1>1, <1>4 DEF Acts
  <2>2. ~Clean(t)'
    BY <1>4 DEF Blamed, Clean, Excuses, Causes
  <2> QED BY <1>1, <1>2, <2>1, <2>2, WorksFields, BlamedInv
<1> QED BY <1>1, <1>3, <1>4, KlingApplyOut

LEMMA ErrorInv ==
    ASSUME VideoTyped, NEW h \in Handlers, NEW t \in TaskIds, TaskInv(t), Works(h, t),
           ErrorAnswer(h)
    PROVE  TaskInv(t)'
<1>1. /\ call[h].step = "asking" /\ call[h].task = t
      /\ UNCHANGED <<kind, redis, work, making, row, paid>>
  BY DEF ErrorAnswer, Works
<1>2. row[t].quota # 0 /\ (kind \notin {"xai", "kling"} => call[h].row.quota \in {0, Hold})
  BY WorksFields
<1>3. CASE /\ kind = "sora" /\ UNCHANGED causes
           /\ Now(h, t, "answered", call[h].row.status, call[h].row.quota, "missing")
  <2>1. Acts(h, t, "answered", call[h].row.status, call[h].row.quota, "missing") /\ Untouched
    BY <1>1, <1>3 DEF Acts, Untouched
  <2>2. ~Informed(h)' /\ "missing" \notin Ended
    BY <1>1, <1>3 DEF Informed, Now, Ended
  <2> QED BY <1>1, <1>2, <1>3, <2>1, <2>2, WorksFields, QuietInv
<1>4. CASE /\ kind = "misread" /\ Blame(t, {"misread"})
           /\ Now(h, t, "answered", call[h].row.status, call[h].row.quota, "failed")
  <2>1. Acts(h, t, "answered", call[h].row.status, call[h].row.quota, "failed")
    BY <1>1, <1>4 DEF Acts
  <2>2. ~Informed(h)'
    BY <1>1, <1>4 DEF Informed, Now
  <2>3. Blamed(t, {"misread"})
    BY <1>4, BlameBlames DEF Causes
  <2>4. ~Clean(t)'
    BY <2>3 DEF Blamed, Clean, Excuses, Causes
  <2> QED BY <1>1, <1>2, <1>4, <2>1, <2>2, <2>4, WorksFields, BlamedInv
<1> QED BY <1>1, <1>3, <1>4, ErrorMoves

\* Doubao's correction has been charged.
LEMMA MeteredInv ==
    ASSUME VideoTyped, NEW h \in Handlers, NEW t \in TaskIds, TaskInv(t), Works(h, t), Meter(h),
           PaidBy(t, Cost - call[h].row.quota),
           Blamed(t, IF "metered" \in causes[t] THEN {"remetered"} ELSE {"metered"})
    PROVE  TaskInv(t)'
<1>1. /\ call[h].step = "answered" /\ call[h].task = t /\ kind = "metered"
      /\ call[h].answer = "succeed" /\ UNCHANGED <<kind, redis, work, making, row>>
  BY MeterOut DEF Works
<1>2. Acts(h, t, "metered", call[h].row.status, call[h].row.quota, call[h].answer)
  BY <1>1, MeterOut DEF Acts
<1>3. call[h].row.quota # 0 /\ call[h].row.quota = Hold
  BY <1>1, WorksFields DEF Informed
<1>4. Clean(t)' => /\ Clean(t) /\ "metered" \notin causes[t]
                   /\ "metered" \in causes'[t]
  <2>1. Clean(t)' => Clean(t)
    BY <1>2 DEF Blamed, Clean
  <2>2. CASE "metered" \in causes[t]
    <3>1. "remetered" \in causes'[t]
      BY <1>2, <2>2 DEF Blamed
    <3> QED BY <3>1 DEF Clean, Excuses, Causes
  <2>3. CASE "metered" \notin causes[t]
    BY <1>2, <2>1, <2>3 DEF Blamed
  <2> QED BY <2>2, <2>3
<1>5. Clean(t) => work[t] = "succeed"
  <2>1. Clean(t) => Said(t, "succeed")
    BY <1>1, WorksFields DEF Ended
  <2>2. work[t] # "forgotten"
    BY <1>1, ReadingExpiry
  <2> QED BY <2>1, <2>2 DEF Said, Reading
<1>6. /\ Works(h, t)' /\ call'[h].step = "metered" /\ call'[h].answer = "succeed"
      /\ \A g \in Handlers : g # h => call'[g] = call[g] /\ (Works(g, t)' <=> Works(g, t))
  BY <1>1, <1>2, ActsWorks DEF Acts, Now
<1>7. Metered(t)'
  BY <1>1, <1>4, <1>5, <1>6 DEF TaskInv, Metered
<1>8. \A g \in Handlers : Refunds(g, t)' <=> Refunds(g, t)
  BY <1>1, <1>6 DEF Refunds, Works
<1>9. Money(t)'
  <2>1. Clean(t)' => Corrected(t)' /\ ~Corrected(t)
    BY <1>1, <1>4 DEF Corrected
  <2>2. GivenBack(t)' <=> GivenBack(t)
    BY <1>1, <1>8 DEF GivenBack, Refunding
  <2>3. Base(t)' = Base(t)
    BY <1>1 DEF Base
  <2>4. paid'[t] = paid[t] + (Cost - Hold) /\ paid[t] \in Int
    BY <1>2, <1>3, RowFields DEF PaidBy
  <2> QED BY <1>1, <1>4, <2>1, <2>2, <2>3, <2>4, VideoAssumption DEF TaskInv, Money, Base
<1>10. UnderLock(t)' /\ KlingMoney(t)'
  BY <1>1 DEF UnderLock, KlingMoney
<1>11. kind \notin {"xai", "kling", "native"}
  BY <1>1
<1> QED BY <1>1, <1>2, <1>3, <1>4, <1>7, <1>9, <1>10, <1>11, WorksFields, PaysInv

LEMMA MeterInv ==
    ASSUME VideoTyped, NEW h \in Handlers, NEW t \in TaskIds, TaskInv(t), Works(h, t), Meter(h)
    PROVE  TaskInv(t)'
<1>1. /\ call[h].step = "answered" /\ call[h].task = t /\ kind = "metered"
      /\ UNCHANGED <<kind, redis, work, making, row>>
      /\ Now(h, t, "metered", call[h].row.status, call[h].row.quota, call[h].answer)
  BY MeterOut DEF Works
<1>2. CASE Blamed(t, {"unpaid"})
  <2>1. Acts(h, t, "metered", call[h].row.status, call[h].row.quota, call[h].answer)
    BY <1>1 DEF Acts
  <2>2. ~Clean(t)'
    BY <1>2 DEF Blamed, Clean, Excuses, Causes
  <2>3. row[t].quota # 0 /\ call[h].row.quota # 0
    BY <1>1, WorksFields DEF Informed
  <2> QED BY <1>1, <2>1, <2>2, <2>3, WorksFields, BlamedInv
<1>3. CASE ~Blamed(t, {"unpaid"})
  <2>1. /\ PaidBy(t, Cost - call[h].row.quota)
        /\ Blamed(t, IF "metered" \in causes[t] THEN {"remetered"} ELSE {"metered"})
    BY <1>1, <1>3, MeterOut
  <2> QED BY <2>1, MeteredInv
<1> QED BY <1>2, <1>3

\* xAI's correction, in the lock and before the row is saved.
LEMMA SettleXaiInv ==
    ASSUME VideoTyped, NEW h \in Handlers, NEW t \in TaskIds, TaskInv(t), LockHeld(t),
           Works(h, t), Settle(h), kind = "xai"
    PROVE  TaskInv(t)'
<1>1. /\ call[h].step = "settle" /\ call[h].task = t /\ InLock(h, t)
      /\ UNCHANGED <<kind, redis, work, making, row>>
  BY SettleOut DEF Works, InLock
<1>2. row[t].quota # 0 /\ call[h].row.quota # 0
  BY <1>1, WorksFields DEF Informed
<1>3. Clean(t) => /\ call[h].answer \in Ended /\ row[t].status \notin Ended
                  /\ call[h].row.quota = Hold
  BY <1>1 DEF TaskInv, UnderLock, Final
<1>4. CASE call[h].answer # "succeed"
  <2>1. Untouched /\ Acts(h, t, "save", call[h].row.status, call[h].row.quota, call[h].answer)
    BY <1>1, <1>4, SettleOut DEF Acts
  <2>2. Clean(t) => ~Final(row[t])
    BY <1>3 DEF Final
  <2> QED BY <1>1, <1>2, <1>3, <1>4, <2>1, <2>2, WorksFields, QuietInv
<1>5. CASE /\ call[h].answer = "succeed" /\ UNCHANGED causes
           /\ PaidBy(t, Cost - call[h].row.quota)
           /\ Now(h, t, "save", call[h].row.status, Cost, call[h].answer)
  <2>1. Acts(h, t, "save", call[h].row.status, Cost, call[h].answer)
    BY <1>1, <1>5 DEF Acts
  <2>2. Clean(t)' <=> Clean(t)
    BY <1>5 DEF Clean
  <2>3. /\ Works(h, t)' /\ call'[h].step = "save" /\ call'[h].answer = "succeed"
        /\ call'[h].row.quota = Cost
        /\ \A g \in Handlers : g # h => call'[g] = call[g] /\ (Works(g, t)' <=> Works(g, t))
    BY <1>5, <2>1, ActsWorks DEF Acts, Now
  <2>4. UnderLock(t)'
    BY <1>1, <1>3, <2>2, <2>3 DEF TaskInv, UnderLock, Final, Ended
  <2>5. \A g \in Handlers : Refunds(g, t)' <=> Refunds(g, t)
    BY <1>1, <2>3 DEF Refunds, Works
  <2>6. Clean(t) => \A g \in Handlers : ~Paid(g, t)
    BY <1>1, AloneInLock DEF Paid, Works, InLock
  <2>7. Money(t)'
    <3>1. Clean(t) => Corrected(t)' /\ ~Corrected(t)
      BY <1>1, <1>3, <2>3, <2>6 DEF Corrected, Paid, Ended
    <3>2. GivenBack(t)' <=> GivenBack(t)
      BY <1>1, <2>5 DEF GivenBack, Refunding
    <3>3. Base(t)' = Base(t)
      BY <1>1 DEF Base
    <3>4. Clean(t) => paid'[t] = paid[t] + (Cost - Hold) /\ paid[t] \in Int
      BY <1>3, <1>5, RowFields DEF PaidBy
    <3> QED BY <1>1, <2>2, <3>1, <3>2, <3>3, <3>4, VideoAssumption DEF TaskInv, Money, Base
  <2>8. Metered(t)' /\ KlingMoney(t)'
    BY <1>1 DEF Metered, KlingMoney
  <2>9. Cost # 0
    BY VideoAssumption
  <2> QED BY <1>1, <1>2, <1>5, <2>1, <2>2, <2>4, <2>7, <2>8, <2>9, WorksFields, PaysInv
<1>6. CASE /\ call[h].answer = "succeed" /\ Blamed(t, {"unpaid"})
           /\ Now(h, t, "save", call[h].row.status, call[h].row.quota, call[h].answer)
  <2>1. Acts(h, t, "save", call[h].row.status, call[h].row.quota, call[h].answer)
    BY <1>1, <1>6 DEF Acts
  <2>2. ~Clean(t)'
    BY <1>6 DEF Blamed, Clean, Excuses, Causes
  <2> QED BY <1>1, <1>2, <2>1, <2>2, BlamedInv
<1> QED BY <1>1, <1>4, <1>5, <1>6, SettleOut

-----------------------------------------------------------------------------
(* Kling's callbacks.                                                      *)

LEMMA SettleKlingInv ==
    ASSUME VideoTyped, NEW h \in Handlers, NEW t \in TaskIds, TaskInv(t),
           Works(h, t), Settle(h), kind = "kling"
    PROVE  TaskInv(t)'
<1>1. /\ call[h].step = "settle" /\ call[h].task = t
      /\ UNCHANGED <<kind, redis, work, making, row>>
  BY SettleOut DEF Works
<1>2. row[t].quota # 0 /\ call[h].row.quota # 0 /\ Cost # 0
  BY <1>1, WorksFields, VideoAssumption DEF Informed
<1>3. call[h].answer = "succeed" /\ call[h].row.status \notin Ended
  BY <1>1 DEF TaskInv, Callbacks, Final
<1>4. CASE /\ UNCHANGED causes /\ PaidBy(t, Cost)
           /\ Now(h, t, "save", call[h].row.status, Cost, call[h].answer)
  <2>1. Acts(h, t, "save", call[h].row.status, Cost, call[h].answer)
    BY <1>1, <1>4 DEF Acts
  <2>2. Clean(t)' <=> Clean(t)
    BY <1>4 DEF Clean
  <2>3. /\ Works(h, t)' /\ call'[h].step = "save" /\ call'[h].answer = "succeed"
        /\ \A g \in Handlers : g # h => call'[g] = call[g] /\ (Works(g, t)' <=> Works(g, t))
    BY <1>3, <2>1, ActsWorks DEF Acts, Now
  <2>4. /\ Paid(h, t)' /\ ~Paid(h, t)
        /\ \A g \in Handlers : g # h => (Paid(g, t)' <=> Paid(g, t))
    BY <1>1, <2>3 DEF Paid, Works
  <2>5. KlingMoney(t)'
    <3>1. ASSUME Clean(t)', \A f, g \in Handlers : Paid(f, t)' /\ Paid(g, t)' => f = g, ~Final(row'[t])
          PROVE  paid'[t] = Cost
      <4>1. \A g \in Handlers : ~Paid(g, t)
        BY <2>4, <3>1
      <4>2. paid[t] = 0
        BY <1>1, <2>2, <3>1, <4>1 DEF TaskInv, KlingMoney
      <4> QED BY <1>4, <4>2, VideoAssumption DEF PaidBy
    <3> QED BY <1>1, <2>4, <3>1 DEF KlingMoney
  <2>6. Metered(t)' /\ UnderLock(t)' /\ Money(t)'
    BY <1>1 DEF Metered, UnderLock, Money
  <2> QED BY <1>1, <1>2, <1>3, <2>1, <2>2, <2>5, <2>6, WorksFields, PaysInv
<1>5. CASE /\ Blamed(t, {"unpaid"})
           /\ Now(h, t, "save", call[h].row.status, Cost, call[h].answer)
  <2>1. Acts(h, t, "save", call[h].row.status, Cost, call[h].answer)
    BY <1>1, <1>5 DEF Acts
  <2>2. ~Clean(t)'
    BY <1>5 DEF Blamed, Clean, Excuses, Causes
  <2> QED BY <1>1, <1>2, <1>3, <2>1, <2>2, WorksFields, BlamedInv
<1> QED BY <1>1, <1>3, <1>4, <1>5, SettleOut

\* Saves of a Kling callback, or of the request that made its task.
LEMMA KlingSaveInv ==
    ASSUME VideoTyped, NEW h \in Handlers, NEW t \in TaskIds, TaskInv(t), Works(h, t), KlingSave(h)
    PROVE  TaskInv(t)'
<1>1. /\ kind = "kling" /\ call[h].step = "save" /\ call[h].task = t
      /\ RowSaved(h, t, call[h].answer, call[h].row.quota)
      /\ UNCHANGED <<kind, redis, work, making, paid>>
      /\ Acts(h, t, "notify", call[h].answer, call[h].row.quota, call[h].answer)
  BY KlingSaveOut DEF Works, Saves, SavedQuota, Acts
<1>2. row'[t].status = call[h].answer /\ row'[t].quota = call[h].row.quota
  BY <1>1 DEF RowSaved
<1>3. row[t].quota # 0 /\ call[h].row.quota # 0 /\ call[h].answer # "expired"
  BY <1>1, WorksFields DEF Informed
<1>4. call[h].row.status \notin Ended
  BY <1>1 DEF TaskInv, Callbacks, Final
<1>5. Clean(t)' => Clean(t) /\ row[t].status \notin Ended
  BY <1>1, <1>4, SavedClean DEF InLock
<1>6. /\ Works(h, t)' /\ call'[h].step = "notify" /\ call'[h].answer = call[h].answer
      /\ call'[h].row.status = call[h].answer /\ call'[h].row.quota = call[h].row.quota
      /\ \A g \in Handlers : g # h => call'[g] = call[g] /\ (Works(g, t)' <=> Works(g, t))
  BY <1>1, ActsWorks DEF Acts, Now
<1>7. Presence(t)' /\ OneQuota(t)' /\ Expiry(t)' /\ NativeStatus(t)'
  <2>1. ~Unborn(t)'
    BY <1>1, <1>3 DEF TaskInv, Presence, Unborn
  <2> QED BY <1>1, <1>2, <1>3, <1>6, <2>1 DEF TaskInv, Presence, OneQuota, Expiry, NativeStatus, Unsent, Informed
<1>8. Told(t)'
  <2>1. Reading(t)' = Reading(t)
    BY <1>1 DEF Reading
  <2> QED BY <1>1, <1>5, <1>6, <2>1 DEF TaskInv, Told, Said
<1>9. Seen(t)' /\ Metered(t)' /\ UnderLock(t)' /\ Money(t)'
  BY <1>1 DEF Seen, Metered, UnderLock, Money
<1>10. OneRefund(t)'
  <2>1. \A g \in Handlers : ~Refunds(g, t)'
    BY <1>1, <1>6 DEF Refunds, Works, VideoTyped, Paths
  <2> QED BY <2>1 DEF OneRefund
<1>11. Callbacks(t)'
  BY <1>1, <1>2, <1>5, <1>6 DEF TaskInv, Callbacks, Final
<1>12. KlingMoney(t)'
  <2>1. /\ ~Paid(h, t)' /\ (Paid(h, t) <=> call[h].answer = "succeed")
        /\ \A g \in Handlers : g # h => (Paid(g, t)' <=> Paid(g, t))
    BY <1>1, <1>6 DEF Paid, Works
  <2>2. ASSUME Clean(t)', Final(row'[t]), ~(\E g \in Handlers : Paid(g, t)')
        PROVE  paid'[t] = IF row'[t].status = "succeed" THEN Cost ELSE 0
    <3>1. \A f, g \in Handlers : Paid(f, t) /\ Paid(g, t) => f = g
      BY <2>1, <2>2
    <3>2. paid[t] = IF \E g \in Handlers : Paid(g, t) THEN Cost ELSE 0
      BY <1>1, <1>5, <2>2, <3>1 DEF TaskInv, KlingMoney, Final
    <3>3. (\E g \in Handlers : Paid(g, t)) <=> call[h].answer = "succeed"
      BY <2>1, <2>2
    <3> QED BY <1>1, <1>2, <3>2, <3>3
  <2>3. ASSUME Clean(t)', ~Final(row'[t]), \A f, g \in Handlers : Paid(f, t)' /\ Paid(g, t)' => f = g
        PROVE  paid'[t] = IF \E g \in Handlers : Paid(g, t)' THEN Cost ELSE 0
    <3>1. call[h].answer # "succeed" /\ ~Paid(h, t)
      BY <1>2, <2>1, <2>3 DEF Final, Ended
    <3>2. \A g \in Handlers : Paid(g, t)' <=> Paid(g, t)
      BY <2>1, <3>1
    <3> QED BY <1>1, <1>5, <2>3, <3>2 DEF TaskInv, KlingMoney, Final
  <2> QED BY <2>2, <2>3 DEF KlingMoney
<1> QED BY <1>7, <1>8, <1>9, <1>10, <1>11, <1>12 DEF TaskInv

LEMMA NotifyInv ==
    ASSUME VideoTyped, NEW h \in Handlers, NEW t \in TaskIds, TaskInv(t), Works(h, t),
           NotifyUserCallback(h)
    PROVE  TaskInv(t)'
<1>1. kind = "kling" /\ call[h].step = "notify" /\ call[h].task = t
  BY NotifyOut DEF Works
<1>2. CASE Leaves(h)
  BY <1>2, LeavesInv
<1>3. CASE SavesAndGoes(h)
  <2>1. /\ RowSaved(h, t, call[h].answer, call[h].row.quota) /\ Gone(h)
        /\ UNCHANGED <<kind, redis, work, making, paid>>
    BY <1>1, <1>3 DEF SavesAndGoes, Saves, SavedQuota
  <2>2. row'[t].status = call[h].answer /\ row'[t].quota = call[h].row.quota
    BY <2>1 DEF RowSaved
  <2>3. row[t].quota # 0 /\ call[h].row.quota # 0 /\ call[h].answer # "expired"
    BY <1>1, WorksFields DEF Informed
  \* A save that is not blamed changes neither the end nor that there is one.
  <2>4. Clean(t)' => Clean(t) /\ (call[h].answer = row[t].status \/
                                    (row[t].status \notin Ended /\ call[h].answer \notin Ended))
    <3>1. call[h].row.status = call[h].answer
      BY <1>1 DEF TaskInv, Callbacks
    <3>2. Clean(t) /\ call[h].answer \in Ended => row[t].status \in Ended
      BY <1>1 DEF TaskInv, Callbacks, Final
    <3> QED BY <1>1, <2>1, <3>1, <3>2, SavedClean DEF InLock
  <2>5. /\ ~Works(h, t)'
        /\ \A g \in Handlers : Works(g, t)' => Works(g, t) /\ call'[g] = call[g] /\ g # h
        /\ \A g \in Handlers : Works(g, t) /\ g # h => Works(g, t)' /\ call'[g] = call[g]
    BY <2>1, IdleFields DEF Gone, Works
  <2>6. Presence(t)' /\ OneQuota(t)' /\ Expiry(t)' /\ NativeStatus(t)'
    <3>1. ~Unborn(t)'
      BY <1>1, <2>1, <2>3 DEF TaskInv, Presence, Unborn
    <3> QED BY <1>1, <2>1, <2>2, <2>3, <2>5, <3>1
            DEF TaskInv, Presence, OneQuota, Expiry, NativeStatus, Unsent, Informed
  <2>7. Told(t)'
    <3>1. Reading(t)' = Reading(t)
      BY <2>1 DEF Reading
    <3> QED BY <1>1, <2>1, <2>4, <2>5, <3>1 DEF TaskInv, Told, Said
  <2>8. Seen(t)' /\ Metered(t)' /\ UnderLock(t)' /\ Money(t)'
    BY <1>1, <2>1 DEF Seen, Metered, UnderLock, Money
  <2>9. OneRefund(t)'
    <3>1. \A g \in Handlers : ~Refunds(g, t)'
      BY <1>1, <2>5 DEF Refunds, Works, VideoTyped, Paths
    <3> QED BY <3>1 DEF OneRefund
  <2>10. Callbacks(t)'
    BY <1>1, <2>1, <2>2, <2>4, <2>5 DEF TaskInv, Callbacks, Final
  <2>11. KlingMoney(t)'
    <3>1. \A g \in Handlers : Paid(g, t)' <=> Paid(g, t)
      BY <1>1, <2>5 DEF Paid, Works
    <3>2. Clean(t)' => /\ Final(row'[t]) <=> Final(row[t])
                       /\ row'[t].status = "succeed" <=> row[t].status = "succeed"
      BY <2>2, <2>4 DEF Final, Ended
    <3> QED BY <1>1, <2>1, <2>4, <3>1, <3>2 DEF TaskInv, KlingMoney
  <2> QED BY <2>6, <2>7, <2>8, <2>9, <2>10, <2>11 DEF TaskInv
<1> QED BY <1>2, <1>3, NotifyOut

-----------------------------------------------------------------------------
(* The refund.                                                             *)

LEMMA RefundedInv ==
    ASSUME VideoTyped, NEW h \in Handlers, NEW t \in TaskIds, TaskInv(t), Works(h, t), Refund(h),
           UNCHANGED causes, PaidBy(t, -Compensation(h)), Gone(h)
    PROVE  TaskInv(t)'
<1>1. /\ call[h].step = "refund" /\ call[h].task = t /\ kind \notin {"kling", "still"}
      /\ UNCHANGED <<kind, redis, work, making, row, causes>>
  BY DEF Refund, Works, VideoTyped, Paths
<1>2. /\ ~Works(h, t)'
      /\ \A g \in Handlers : Works(g, t)' => Works(g, t) /\ call'[g] = call[g] /\ g # h
      /\ \A g \in Handlers : Works(g, t) /\ g # h => Works(g, t)' /\ call'[g] = call[g]
  BY <1>1, IdleFields DEF Gone, Works
<1>3. /\ Clean(t)' <=> Clean(t)
      /\ Final(row[t])' <=> Final(row[t])
      /\ Reading(t)' = Reading(t)
  BY <1>1 DEF Clean, Reading, Final
<1>4. Presence(t)' /\ OneQuota(t)' /\ Expiry(t)' /\ NativeStatus(t)'
  BY <1>1, <1>2 DEF TaskInv, Presence, OneQuota, Expiry, NativeStatus, Unsent, Unborn, Informed
<1>5. Told(t)' /\ Seen(t)'
  BY <1>1, <1>2, <1>3 DEF TaskInv, Told, Seen, Said, Then, Final
<1>6. Refunds(h, t) /\ (Clean(t) => row[t].status = "failed" /\ \A g \in Handlers : Refunds(g, t) => g = h)
  BY <1>1 DEF TaskInv, OneRefund, Refunds, Works
<1>7. Clean(t) => ~Refunding(t)'
  BY <1>2, <1>6 DEF Refunding, Refunds
<1>8. OneRefund(t)'
  BY <1>3, <1>7 DEF OneRefund, Refunding
<1>9. Metered(t)' /\ UnderLock(t)' /\ Callbacks(t)' /\ KlingMoney(t)'
  BY <1>1, <1>2, <1>3 DEF TaskInv, Metered, UnderLock, Callbacks, KlingMoney, Final
<1>10. Clean(t) => Compensation(h) = IF kind = "picture" THEN DefaultImageQuota ELSE Hold
  <2>1. row[t].quota # 0 /\ call[h].row.quota # 0
    BY <1>1, WorksFields DEF Informed
  <2>2. kind # "xai" => row[t].quota = Hold /\ call[h].row.quota = Hold
    BY <1>1, <2>1, WorksFields
  <2>3. kind = "xai" /\ Clean(t) => row[t].quota = Hold
    BY <1>6, <2>1 DEF TaskInv, UnderLock
  <2> QED BY <1>1, <2>2, <2>3 DEF Compensation
<1>11. \A g \in Handlers : Paid(g, t)' <=> Paid(g, t)
  BY <1>1, <1>2 DEF Paid, Works
<1>12. Money(t)'
  <2>1. Corrected(t)' <=> Corrected(t)
    BY <1>1, <1>11 DEF Corrected
  <2>2. Clean(t) => GivenBack(t)' /\ ~GivenBack(t)
    BY <1>1, <1>6, <1>7 DEF GivenBack, Refunding
  <2>3. Base(t)' = Base(t) /\ Base(t) \in Int
    BY <1>1, VideoAssumption DEF Base
  <2>4. Clean(t) => paid'[t] = paid[t] - (IF kind = "picture" THEN DefaultImageQuota ELSE Hold)
    BY <1>1, <1>10, RowFields, VideoAssumption DEF PaidBy
  <2> QED BY <1>1, <1>3, <2>1, <2>2, <2>3, <2>4, VideoAssumption DEF TaskInv, Money
<1> QED BY <1>4, <1>5, <1>8, <1>9, <1>12 DEF TaskInv

LEMMA RefundInv ==
    ASSUME VideoTyped, NEW h \in Handlers, NEW t \in TaskIds, TaskInv(t), Works(h, t), Refund(h)
    PROVE  TaskInv(t)'
<1>1. CASE Leaves(h)
  BY <1>1, LeavesInv
<1>2. CASE ~Leaves(h)
  <2>1. UNCHANGED causes /\ PaidBy(t, -Compensation(h)) /\ Gone(h)
    BY <1>2, RefundOut DEF Works
  <2> QED BY <2>1, RefundedInv
<1> QED BY <1>1, <1>2

-----------------------------------------------------------------------------
(* The steps of the request that makes a task, of the provider and of the  *)
(* clock: the handlers stay where they are.                                *)

LEMMA CallStays ==
    ASSUME UNCHANGED <<kind, redis, call>>
    PROVE  \A h \in Handlers : \A t \in TaskIds :
              /\ Works(h, t)' <=> Works(h, t)
              /\ Informed(h)' <=> Informed(h)
              /\ Refunds(h, t)' <=> Refunds(h, t)
              /\ Paid(h, t)' <=> Paid(h, t)
BY DEF Works, Informed, Refunds, Paid

LEMMA UnbornAlone ==
    ASSUME NEW t \in TaskIds, TaskInv(t), Unborn(t)
    PROVE  /\ row[t].status = "none" /\ row[t].quota = 0
           /\ \A h \in Handlers : ~Works(h, t)
BY DEF TaskInv, Presence

\* A task nobody is at work on yet.
LEMMA YoungInv ==
    ASSUME NEW t \in TaskIds, TaskInv(t), Unborn(t), UNCHANGED <<kind, redis, call, causes>>,
           Unsent(t)' => work'[t] = "none",
           Unborn(t)' => row'[t] = row[t],
           \/ row'[t] = row[t]
           \/ /\ row'[t].quota = Hold
              /\ \/ row'[t].status \in {"pending", "submitted", "processing"}
                 \/ kind = "still" /\ row'[t].status = "failed"
              /\ kind = "native" => row'[t].status = "processing",
           kind = "native" /\ making'[t] # "new" => work'[t] # "none",
           work'[t] = work[t] \/ work[t] = "none",
           kind # "kling" /\ Clean(t) => paid'[t] = paid[t] + (Base(t)' - Base(t)),
           kind = "kling" => paid'[t] = paid[t],
           Base(t) \in Int, Base(t)' \in Int
    PROVE  TaskInv(t)'
<1>1. /\ row[t].status = "none" /\ row[t].quota = 0
      /\ \A h \in Handlers : ~Works(h, t) /\ ~Works(h, t)'
  BY UnbornAlone, CallStays
<1>2. row'[t].status \in {"none", "pending", "submitted", "processing"} \/ (kind = "still" /\ row'[t].status = "failed")
  BY <1>1
<1>3. kind' = kind /\ causes' = causes /\ (Clean(t)' <=> Clean(t))
  BY DEF Clean
<1>4. Presence(t)' /\ OneQuota(t)' /\ Expiry(t)' /\ NativeStatus(t)'
  BY <1>1, <1>2, <1>3, VideoAssumption DEF Presence, OneQuota, Expiry, NativeStatus
<1>5. Told(t)' /\ Seen(t)' /\ OneRefund(t)' /\ Callbacks(t)'
  BY <1>1, <1>2, <1>3 DEF Told, Seen, OneRefund, Callbacks, Refunds, Final, Ended
<1>6. Metered(t)'
  BY <1>1, <1>2, <1>3 DEF TaskInv, Metered
<1>7. UnderLock(t)'
  BY <1>1, <1>3 DEF UnderLock
<1>8. \A h \in Handlers : ~Refunds(h, t) /\ ~Refunds(h, t)' /\ ~Paid(h, t) /\ ~Paid(h, t)'
  BY <1>1 DEF Refunds, Paid
<1>9. Money(t)'
  <2>1. /\ Corrected(t)' <=> Corrected(t)
        /\ ~GivenBack(t)' /\ ~GivenBack(t)
    BY <1>1, <1>2, <1>3, <1>8 DEF Corrected, GivenBack
  <2>2. paid[t] \in Int \/ ~(kind # "kling" /\ Clean(t))
    BY VideoAssumption DEF TaskInv, Money
  <2> QED BY <1>3, <2>1, <2>2, VideoAssumption DEF TaskInv, Money
<1>10. KlingMoney(t)'
  BY <1>1, <1>2, <1>3, <1>8 DEF TaskInv, KlingMoney, Final, Ended
<1> QED BY <1>4, <1>5, <1>6, <1>7, <1>9, <1>10 DEF TaskInv

LEMMA BaseTyped ==
    ASSUME NEW t
    PROVE  Base(t) \in Int /\ Base(t)' \in Int
BY VideoAssumption DEF Base

LEMMA SentInv ==
    ASSUME VideoTyped, NEW t \in TaskIds, TaskInv(t), SendVideo(t) \/ SendImage(t)
    PROVE  TaskInv(t)'
<1>1. /\ kind # "kling" /\ making[t] = "new" /\ making'[t] = "sent" /\ work'[t] = "running"
      /\ UNCHANGED <<kind, redis, row, paid, call, causes>>
  BY DEF SendVideo, SendImage, Sent, Images, VideoTyped, VideoTypeOK
<1>2. Unborn(t) /\ ~Unsent(t)' /\ Base(t)' = Base(t) /\ work[t] = "none"
  BY <1>1 DEF Unborn, Unsent, Base, TaskInv, Presence
<1>3. paid'[t] = paid[t] + (Base(t)' - Base(t))
  BY <1>1, <1>2, RowFields, BaseTyped
<1> QED BY <1>1, <1>2, <1>3, BaseTyped, YoungInv

LEMMA InsertInv ==
    ASSUME VideoTyped, NEW t \in TaskIds, TaskInv(t), CreateVideoLog(t) \/ CreateImageLog(t)
    PROVE  TaskInv(t)'
<1>1. /\ UNCHANGED <<kind, redis, work, paid, call, causes>> /\ kind # "kling"
      /\ making[t] = IF kind \in RowFirst THEN "sent" ELSE "charged"
      /\ making'[t] = IF kind \in RowFirst THEN "inserted" ELSE "made"
  BY DEF CreateVideoLog, CreateImageLog, Insert, Images, VideoTyped, VideoTypeOK
<1>2. \/ row'[t] = row[t]
      \/ /\ row'[t].quota = Hold
         /\ \/ row'[t].status \in {"pending", "submitted", "processing"}
            \/ kind = "still" /\ row'[t].status = "failed"
         /\ kind = "native" => row'[t].status = "processing"
  BY DEF CreateVideoLog, CreateImageLog, Insert, Images, VideoTyped, VideoTypeOK
<1>3. Unborn(t) /\ ~Unborn(t)' /\ ~Unsent(t)' /\ Base(t)' = Base(t)
  BY <1>1 DEF Unborn, Unsent, Base, RowFirst, General
<1>4. kind = "native" => work'[t] # "none"
  BY <1>1 DEF TaskInv, NativeStatus
<1>5. paid'[t] = paid[t] + (Base(t)' - Base(t))
  BY <1>1, <1>3, RowFields, BaseTyped
<1> QED BY <1>1, <1>2, <1>3, <1>4, <1>5, BaseTyped, YoungInv

LEMMA KlingCreateInv ==
    ASSUME VideoTyped, NEW t \in TaskIds, TaskInv(t), KlingCreate(t)
    PROVE  TaskInv(t)'
<1>1. /\ UNCHANGED <<kind, redis, work, paid, call, causes>> /\ kind = "kling"
      /\ making[t] = "new" /\ making'[t] = "inserted"
      /\ row'[t].status = "pending" /\ row'[t].quota = Hold
  BY DEF KlingCreate, VideoTyped, VideoTypeOK
<1>2. Unborn(t) /\ ~Unborn(t)' /\ work[t] = "none"
  BY <1>1 DEF Unborn, Unsent, TaskInv, Presence, RowFirst, General
<1> QED BY <1>1, <1>2, BaseTyped, YoungInv

\* The hold is taken, or the task is known to be unpaid.
LEMMA TakeHoldInv ==
    ASSUME VideoTyped, NEW t \in TaskIds, TaskInv(t), TakeHold(t)
    PROVE  TaskInv(t)'
<1>1. /\ UNCHANGED <<kind, redis, work, row, call>> /\ kind # "kling"
      /\ making[t] = IF kind \in RowFirst THEN "inserted" ELSE "sent"
      /\ making'[t] = IF kind \in RowFirst THEN "made" ELSE "charged"
      /\ \/ PaidBy(t, Hold) /\ UNCHANGED causes
         \/ Blamed(t, {"unpaid"})
  BY PayPays, BlameBlames, VideoAssumption DEF TakeHold, Causes, VideoTyped, VideoTypeOK
<1>2. /\ Clean(t)' => Clean(t) /\ causes' = causes /\ paid'[t] = paid[t] + Hold
      /\ Reading(t)' = Reading(t)
      /\ Final(row[t])' <=> Final(row[t])
  BY <1>1 DEF Blamed, PaidBy, Clean, Excuses, Causes, Reading
<1>3. \A h \in Handlers : /\ Works(h, t)' <=> Works(h, t)
                          /\ Informed(h)' <=> Informed(h)
                          /\ Refunds(h, t)' <=> Refunds(h, t)
                          /\ Paid(h, t)' <=> Paid(h, t)
  BY <1>1, CallStays
<1>4. (Unborn(t)' => Unborn(t)) /\ ~Unsent(t)' /\ making[t] # "new"
  BY <1>1 DEF Unborn, Unsent, RowFirst, General
<1>5. Presence(t)' /\ OneQuota(t)' /\ Expiry(t)' /\ NativeStatus(t)'
  BY <1>1, <1>3, <1>4 DEF TaskInv, Presence, OneQuota, Expiry, NativeStatus
<1>6. Told(t)' /\ Seen(t)' /\ OneRefund(t)' /\ Callbacks(t)' /\ KlingMoney(t)'
  BY <1>1, <1>2, <1>3 DEF TaskInv, Told, Seen, OneRefund, Callbacks, KlingMoney, Said, Then, Final
<1>7. Metered(t)' /\ UnderLock(t)'
  BY <1>1, <1>2, <1>3 DEF TaskInv, Metered, UnderLock, Final
<1>8. Money(t)'
  <2>1. Clean(t)' => /\ Corrected(t)' <=> Corrected(t)
                     /\ GivenBack(t)' <=> GivenBack(t)
    BY <1>1, <1>2, <1>3 DEF Corrected, GivenBack, Refunding
  <2>2. Base(t) = 0 /\ Base(t)' = Hold
    BY <1>1 DEF Base
  <2> QED BY <1>1, <1>2, <2>1, <2>2, VideoAssumption DEF TaskInv, Money
<1> QED BY <1>5, <1>6, <1>7, <1>8 DEF TaskInv

\* The provider's work on the task goes on; what is known of its end stays true.
LEMMA WorkInv ==
    ASSUME VideoTyped, NEW t \in TaskIds, TaskInv(t), UNCHANGED <<kind, redis, row, paid, call, causes>>,
           Unsent(t)' => work'[t] = "none",
           Unborn(t)' => Unborn(t),
           kind = "native" /\ making'[t] # "new" => work'[t] # "none",
           Base(t)' = Base(t),
           work'[t] # work[t] => Reading(t) \notin Ended \/ work'[t] = "forgotten",
           work'[t] # work[t] => work[t] # "succeed" \/ kind = "wan",
           work[t] = "forgotten" => work'[t] = "forgotten"
    PROVE  TaskInv(t)'
<1>1. \A h \in Handlers : /\ Works(h, t)' <=> Works(h, t)
                          /\ Informed(h)' <=> Informed(h)
                          /\ Refunds(h, t)' <=> Refunds(h, t)
                          /\ Paid(h, t)' <=> Paid(h, t)
  BY CallStays
<1>2. (Clean(t)' <=> Clean(t)) /\ (Final(row[t])' <=> Final(row[t]))
  BY DEF Clean
<1>3. Presence(t)' /\ OneQuota(t)' /\ Expiry(t)' /\ NativeStatus(t)'
  BY <1>1 DEF TaskInv, Presence, OneQuota, Expiry, NativeStatus
<1>4. Seen(t)' /\ OneRefund(t)' /\ Callbacks(t)' /\ KlingMoney(t)' /\ UnderLock(t)'
  BY <1>1, <1>2 DEF TaskInv, Seen, OneRefund, Callbacks, KlingMoney, UnderLock, Then, Final
<1>5. Metered(t)'
  BY <1>1, <1>2 DEF TaskInv, Metered
<1>6. Told(t)'
  <2>1. CASE work'[t] = work[t]
    <3>1. Reading(t)' = Reading(t)
      BY <2>1 DEF Reading
    <3> QED BY <1>1, <1>2, <2>1, <3>1 DEF TaskInv, Told, Said
  <2>2. CASE work'[t] = "forgotten"
    <3>1. Reading(t)' = "failed"
      BY <2>2 DEF Reading
    <3> QED BY <2>2, <3>1 DEF Told, Said
  <2>3. CASE work'[t] # work[t] /\ work'[t] # "forgotten"
    <3>1. work[t] # "forgotten" /\ Reading(t) \notin Ended
      BY <2>3
    <3>2. Clean(t) => /\ \A h \in Handlers : Works(h, t) => call[h].answer \notin Ended
                      /\ kind \notin {"kling", "still"} => row[t].status \notin Ended
      BY <3>1 DEF TaskInv, Told, Said, Final
    <3> QED BY <1>1, <1>2, <3>2 DEF Told, Final, Ended
  <2> QED BY <2>1, <2>2, <2>3
<1>7. Money(t)'
  <2>1. (Corrected(t)' <=> Corrected(t)) /\ (GivenBack(t)' <=> GivenBack(t))
    BY <1>1 DEF Corrected, GivenBack, Refunding
  <2> QED BY <1>2, <2>1 DEF TaskInv, Money
<1> QED BY <1>3, <1>4, <1>5, <1>6, <1>7 DEF TaskInv

LEMMA ProviderInv ==
    ASSUME VideoTyped, NEW t \in TaskIds, TaskInv(t), ProviderEnds(t) \/ Forget(t)
    PROVE  TaskInv(t)'
<1>1. UNCHANGED <<kind, redis, making, row, paid, call, causes>>
  BY DEF ProviderEnds, Forget
<1>2. /\ Base(t)' = Base(t) /\ (Unborn(t)' <=> Unborn(t)) /\ (Unsent(t)' <=> Unsent(t))
      /\ Unsent(t) => work[t] = "none"
  BY <1>1 DEF Base, Unborn, Unsent, TaskInv, Presence
<1>3. CASE ProviderEnds(t)
  <2>1. work[t] = "running" /\ work'[t] \in Ended
    BY <1>3 DEF ProviderEnds, Outcomes, Ended, VideoTyped, VideoTypeOK
  <2>2. Reading(t) \notin Ended
    BY <2>1 DEF Reading, Ended
  <2> QED BY <1>1, <1>2, <2>1, <2>2, WorkInv DEF Ended
<1>4. CASE Forget(t)
  <2>1. kind = "wan" /\ work[t] \in Ended /\ work'[t] = "forgotten"
    BY <1>4 DEF Forget, VideoTyped, VideoTypeOK
  <2> QED BY <1>1, <1>2, <2>1, WorkInv DEF Ended
<1> QED BY <1>3, <1>4

LEMMA KlingSendInv ==
    ASSUME VideoTyped, NEW t \in TaskIds, TaskInv(t), KlingSend(t)
    PROVE  TaskInv(t)'
<1>1. /\ UNCHANGED <<kind, redis, row, paid, call, causes>> /\ kind = "kling"
      /\ making[t] = "inserted" /\ making'[t] \in {"sent", "refused"}
      /\ work'[t] \in {work[t], "running"}
  BY DEF KlingSend, VideoTyped, VideoTypeOK
<1>2. work[t] = "none" /\ ~Unsent(t)' /\ ~Unborn(t)' /\ Base(t)' = Base(t)
  BY <1>1 DEF Unsent, Unborn, Base, TaskInv, Presence, RowFirst, General
<1>3. Reading(t) \notin Ended
  BY <1>2 DEF Reading, Ended
<1> QED BY <1>1, <1>2, <1>3, WorkInv

\* The request saves the row of before it was sent: over an end only with blame.
LEMMA KlingSaveMadeInv ==
    ASSUME VideoTyped, NEW t \in TaskIds, TaskInv(t), KlingSaveMade(t)
    PROVE  TaskInv(t)'
<1> DEFINE state == IF making[t] = "sent" THEN "submitted" ELSE "failed"
           had == [status |-> "pending", quota |-> Hold]
           C == Overwrites(t, had, state)
<1>1. /\ UNCHANGED <<kind, redis, work, paid, call>> /\ kind = "kling"
      /\ making[t] \in {"sent", "refused"} /\ making'[t] = "made"
      /\ row'[t].status = state /\ row'[t].quota = Hold /\ Blamed(t, C)
  BY BlameBlames DEF KlingSaveMade, VideoTyped, VideoTypeOK, Overwrites, Causes
<1>2. Final(row[t]) => "overwritten" \in C
  BY DEF Overwrites, Final, Ended
<1>3. C \subseteq {"overwritten"}
  BY DEF Overwrites
<1>4. state \in {"submitted", "failed"}
  OBVIOUS
<1> HIDE DEF C, state
<1>5. Clean(t)' => Clean(t) /\ ~Final(row[t])
  BY <1>1, <1>2 DEF Blamed, Clean, Excuses, Causes
<1>6. \A h \in Handlers : /\ Works(h, t)' <=> Works(h, t)
                          /\ Informed(h)' <=> Informed(h)
                          /\ Refunds(h, t)' <=> Refunds(h, t)
                          /\ Paid(h, t)' <=> Paid(h, t)
  BY <1>1, CallStays
<1>7. ~Unborn(t)' /\ ~Unsent(t)' /\ Reading(t)' = Reading(t)
  BY <1>1 DEF Unborn, Unsent, RowFirst, General, Reading
<1>8. Presence(t)' /\ OneQuota(t)' /\ Expiry(t)' /\ NativeStatus(t)'
  BY <1>1, <1>4, <1>6, <1>7, VideoAssumption DEF TaskInv, Presence, OneQuota, Expiry, NativeStatus
<1>9. Told(t)'
  BY <1>1, <1>5, <1>6, <1>7 DEF TaskInv, Told, Said
<1>10. OneRefund(t)'
  BY <1>1, <1>6 DEF OneRefund, Refunds, VideoTyped, Paths, Works
<1>11. Seen(t)' /\ Metered(t)' /\ UnderLock(t)' /\ Money(t)'
  BY <1>1 DEF Seen, Metered, UnderLock, Money
<1>12. Callbacks(t)'
  BY <1>1, <1>5, <1>6 DEF TaskInv, Callbacks, Final
<1>13. KlingMoney(t)'
  BY <1>1, <1>4, <1>5, <1>6 DEF TaskInv, KlingMoney, Final, Ended
<1> QED BY <1>8, <1>9, <1>10, <1>11, <1>12, <1>13 DEF TaskInv

\* A lock runs out: if somebody is in it, nothing more is claimed of the task.
LEMMA ExpiresInv ==
    ASSUME VideoTyped, NEW t \in TaskIds, TaskInv(t), LockExpires(t)
    PROVE  TaskInv(t)'
<1>1. /\ UNCHANGED <<kind, redis, work, making, row, paid, call>>
      /\ causes' = causes \/ Blamed(t, {"lockLost"})
  BY BlameBlames DEF LockExpires, Causes
<1>2. Clean(t)' => Clean(t) /\ causes'[t] = causes[t]
  BY <1>1 DEF Blamed, Clean, Excuses, Causes
<1>3. \A h \in Handlers : /\ Works(h, t)' <=> Works(h, t)
                          /\ Informed(h)' <=> Informed(h)
                          /\ Refunds(h, t)' <=> Refunds(h, t)
                          /\ Paid(h, t)' <=> Paid(h, t)
  BY <1>1, CallStays
<1>4. /\ Reading(t)' = Reading(t) /\ Base(t)' = Base(t)
      /\ (Unborn(t)' <=> Unborn(t)) /\ (Unsent(t)' <=> Unsent(t))
  BY <1>1 DEF Reading, Base, Unborn, Unsent
<1>5. Presence(t)' /\ OneQuota(t)' /\ Expiry(t)' /\ NativeStatus(t)'
  BY <1>1, <1>3, <1>4 DEF TaskInv, Presence, OneQuota, Expiry, NativeStatus
<1>6. Told(t)' /\ Seen(t)' /\ OneRefund(t)' /\ Callbacks(t)' /\ KlingMoney(t)'
  BY <1>1, <1>2, <1>3, <1>4 DEF TaskInv, Told, Seen, OneRefund, Callbacks, KlingMoney, Said, Then, Final
<1>7. Metered(t)' /\ UnderLock(t)'
  BY <1>1, <1>2, <1>3 DEF TaskInv, Metered, UnderLock, Final
<1>8. Money(t)'
  <2>1. Clean(t)' => /\ Corrected(t)' <=> Corrected(t)
                     /\ GivenBack(t)' <=> GivenBack(t)
    BY <1>1, <1>2, <1>3 DEF Corrected, GivenBack, Refunding
  <2> QED BY <1>1, <1>2, <1>4, <2>1 DEF TaskInv, Money
<1> QED BY <1>5, <1>6, <1>7, <1>8 DEF TaskInv

-----------------------------------------------------------------------------
(* What a handler's step leaves alone, and what becomes of the lock.       *)

Local(h) ==
    /\ UNCHANGED <<kind, redis, work, making>>
    /\ \A s \in TaskIds : redis /\ "unguarded" \in causes'[s] => "unguarded" \in causes[s]
    /\ \A g \in Handlers : g # h => call'[g] = call[g]
    /\ call'[h].step = "idle" \/ call'[h].task = call[h].task
    /\ \A s \in TaskIds : s # call[h].task =>
          row'[s] = row[s] /\ paid'[s] = paid[s] /\ causes'[s] = causes[s]
    /\ \A s \in TaskIds : causes[s] \subseteq causes'[s]
    /\ \/ call'[h].step = "idle" /\ Unlocked(h)
       \/ UNCHANGED lock /\ \A s \in TaskIds : InLock(h, s)' => InLock(h, s)
       \/ /\ Taken(h) /\ call'[h].task = call[h].task /\ call[h].task \in TaskIds
          /\ \/ redis
             \/ "unguarded" \in causes'[call[h].task]
             \/ \A g \in Handlers : InLock(g, call[h].task) => g = h

LEMMA LeavesLocal ==
    ASSUME VideoTyped, NEW h \in Handlers, Leaves(h)
    PROVE  Local(h)
<1>1. \A s \in TaskIds : /\ causes[s] \subseteq causes'[s]
                         /\ "unguarded" \in causes'[s] => "unguarded" \in causes[s]
                         /\ s # call[h].task => causes'[s] = causes[s]
  BY DEF Leaves, Elsewhere, Failures
<1> QED BY <1>1, IdleFields DEF Leaves, Gone, Local

LEMMA SavedGrows ==
    ASSUME NEW h \in Handlers, NEW state, NEW amount, RowSaved(h, call[h].task, state, amount)
    PROVE  \A s \in TaskIds : /\ causes[s] \subseteq causes'[s]
                              /\ "unguarded" \in causes'[s] => "unguarded" \in causes[s]
                              /\ s # call[h].task => row'[s] = row[s] /\ causes'[s] = causes[s]
BY DEF RowSaved, Elsewhere

LEMMA SavesLocal ==
    ASSUME VideoTyped, NEW h \in Handlers, call[h].step # "idle",
           SavesAndGoes(h) \/ (SavesAndRefunds(h) /\ (kind = "xai" => call[h].step = "save"))
    PROVE  Local(h)
<1>1. CASE SavesAndGoes(h)
  BY <1>1, SavedGrows, IdleFields DEF SavesAndGoes, Saves, Gone, Local
<1>2. CASE SavesAndRefunds(h) /\ (kind = "xai" => call[h].step = "save")
  BY <1>2, SavedGrows DEF SavesAndRefunds, Saves, Now, InLock, Local
<1> QED BY <1>1, <1>2

LEMMA PlainLocal ==
    ASSUME NEW h \in Handlers, NEW step, NEW state, NEW amount, NEW reply,
           Now(h, call[h].task, step, state, amount, reply), UNCHANGED <<kind, redis, work, making, row, lock>>,
           \A s \in TaskIds : s # call[h].task => paid'[s] = paid[s],
           causes' = causes \/ \E C : "unguarded" \notin C /\ Blamed(call[h].task, C),
           kind = "xai" /\ step \in {"locked", "settle", "save", "refund"} =>
               call[h].step \in {"locked", "settle", "save", "refund"}
    PROVE  Local(h)
<1>1. \A s \in TaskIds : /\ causes[s] \subseteq causes'[s]
                         /\ "unguarded" \in causes'[s] => "unguarded" \in causes[s]
                         /\ s # call[h].task => causes'[s] = causes[s]
  BY DEF Blamed
<1> QED BY <1>1 DEF Now, InLock, Local

LEMMA ApplyLocal ==
    ASSUME VideoTyped, NEW h \in Handlers, Apply(h)
    PROVE  Local(h) /\ call[h].step # "idle"
<1>1. CASE Meter(h)
  <2>1. \E C : "unguarded" \notin C /\ Blamed(call[h].task, C)
    <3> DEFINE C == IF "metered" \in causes[call[h].task] THEN {"remetered"} ELSE {"metered"}
    <3>1. Blamed(call[h].task, C) \/ Blamed(call[h].task, {"unpaid"})
      BY <1>1, MeterOut
    <3>2. "unguarded" \notin C /\ "unguarded" \notin {"unpaid"}
      OBVIOUS
    <3> HIDE DEF C
    <3> QED BY <3>1, <3>2
  <2>2. /\ kind = "metered" /\ call[h].step = "answered" /\ UNCHANGED <<kind, redis, work, making, row, lock>>
        /\ \A s \in TaskIds : s # call[h].task => paid'[s] = paid[s]
        /\ Now(h, call[h].task, "metered", call[h].row.status, call[h].row.quota, call[h].answer)
    BY <1>1, MeterOut DEF PaidBy
  <2> QED BY <2>1, <2>2, PlainLocal
<1>2. CASE Read(h)
  BY <1>2, ReadOut, LeavesLocal, PlainLocal DEF Untouched
<1>3. CASE PassOn(h)
  BY <1>3, NoAnswerLeaves, LeavesLocal DEF PassOn, Reads
<1>4. CASE UpdateImage(h) \/ UpdateDirect(h)
  BY <1>4, DirectOut, SavesLocal
<1>5. CASE UpdateMissing(h)
  <2>1. CASE Leaves(h)
    BY <1>5, <2>1, MissingOut, LeavesLocal
  <2>2. CASE /\ RowSaved(h, call[h].task, "processing", call[h].row.quota)
             /\ Gone(h) /\ UNCHANGED <<kind, redis, work, making, paid, lock>>
    BY <1>5, <2>2, MissingOut, SavedGrows, IdleFields, UnlockUnlocks DEF Gone, Local
  <2> QED BY <1>5, <2>1, <2>2, MissingOut
<1>6. CASE UpdateGeneral(h)
  BY <1>6, GeneralOut, LeavesLocal, SavesLocal DEF General
<1>7. CASE UpdateNative(h)
  BY <1>7, NativeOut, LeavesLocal, SavesLocal
<1>8. CASE UpdateXaiRunning(h)
  BY <1>8, XaiRunningOut, SavesLocal
<1>9. CASE Lock(h)
  <2>1. CASE Leaves(h)
    BY <1>9, <2>1, LockOut, LeavesLocal
  <2>2. CASE /\ UNCHANGED <<kind, redis, work, making, row, paid>>
             /\ Blamed(call[h].task, Meeting(h)) /\ Taken(h)
             /\ Now(h, call[h].task, "locked", call[h].row.status, call[h].row.quota, call[h].answer)
    <3>1. /\ redis => Meeting(h) = {}
          /\ \/ redis \/ "unguarded" \in Meeting(h)
             \/ \A g \in Handlers : InLock(g, call[h].task) => g = h
      BY DEF Meeting
    <3>2. /\ \A s \in TaskIds : /\ causes[s] \subseteq causes'[s]
                                /\ s # call[h].task => causes'[s] = causes[s]
                                /\ redis => causes'[s] = causes[s]
          /\ call[h].task \in TaskIds /\ call[h].step # "idle"
      BY <1>9, <2>2, <3>1, LockOut, CallFields DEF Blamed
    <3>3. "unguarded" \in Meeting(h) => "unguarded" \in causes'[call[h].task]
      BY <2>2 DEF Blamed
    <3> QED BY <2>2, <3>1, <3>2, <3>3 DEF Now, Local
  <2> QED BY <1>9, <2>1, <2>2, LockOut
<1>10. CASE Recheck(h)
  BY <1>10, RecheckOut, LeavesLocal, PlainLocal DEF Untouched
<1>11. CASE Settle(h)
  <2>1. /\ call[h].step = "settle" /\ UNCHANGED <<kind, redis, work, making, row, lock>>
        /\ \E state, amount, reply : Now(h, call[h].task, "save", state, amount, reply)
    BY <1>11, SettleOut
  <2>2. \A s \in TaskIds : s # call[h].task => paid'[s] = paid[s]
    BY <1>11, SettleOut DEF Untouched, PaidBy
  <2>3. causes' = causes \/ \E C : "unguarded" \notin C /\ Blamed(call[h].task, C)
    <3>1. causes' = causes \/ Blamed(call[h].task, {"unpaid"})
      BY <1>11, SettleOut DEF Untouched
    <3>2. "unguarded" \notin {"unpaid"}
      OBVIOUS
    <3> QED BY <3>1, <3>2
  <2> QED BY <2>1, <2>2, <2>3, PlainLocal
<1>12. CASE SaveXai(h)
  BY <1>12, SaveXaiOut, SavesLocal
<1>13. CASE KlingApply(h)
  <2>1. /\ kind = "kling" /\ call[h].step = "read" /\ UNCHANGED <<kind, redis, work, making, row, paid, lock>>
        /\ \E step, state, amount, reply : Now(h, call[h].task, step, state, amount, reply)
    BY <1>13, KlingApplyOut
  <2>2. causes' = causes \/ \E C : "unguarded" \notin C /\ Blamed(call[h].task, C)
    <3>1. causes' = causes \/ Blamed(call[h].task, {"unbilled"})
      BY <1>13, KlingApplyOut
    <3>2. "unguarded" \notin {"unbilled"}
      OBVIOUS
    <3> QED BY <3>1, <3>2
  <2> QED BY <2>1, <2>2, PlainLocal
<1>14. CASE KlingSave(h)
  BY <1>14, KlingSaveOut, SavedGrows DEF Saves, Now, InLock, Local
<1>15. CASE NotifyUserCallback(h)
  BY <1>15, NotifyOut, LeavesLocal, SavesLocal
<1>16. CASE Refund(h)
  BY <1>16, RefundOut, LeavesLocal, IdleFields DEF PaidBy, Gone, Local
<1> QED BY <1>1, <1>2, <1>3, <1>4, <1>5, <1>6, <1>7, <1>8, <1>9, <1>10, <1>11, <1>12, <1>13,
          <1>14, <1>15, <1>16 DEF Apply

LEMMA AnswerLocal ==
    ASSUME VideoTyped, NEW h \in Handlers,
           ProviderAnswers(h) \/ NoAnswer(h) \/ ErrorAnswer(h) \/ HandlerDies(h) \/ SaveFails(h)
    PROVE  Local(h) /\ call[h].step # "idle"
<1>1. CASE ProviderAnswers(h)
  <2> DEFINE step == IF kind \in ReadsFirst THEN "read" ELSE "answered"
  <2>1. Now(h, call[h].task, step, call[h].row.status, call[h].row.quota, Reading(call[h].task))
    BY <1>1, AnswerMoves
  <2>2. step \in {"read", "answered"}
    OBVIOUS
  <2> HIDE DEF step
  <2> QED BY <1>1, <2>1, <2>2, PlainLocal DEF ProviderAnswers
<1>2. CASE NoAnswer(h)
  BY <1>2, NoAnswerLeaves, LeavesLocal DEF NoAnswer
<1>3. CASE ErrorAnswer(h)
  <2>1. call[h].task \in TaskIds
    BY <1>3, CallFields DEF ErrorAnswer
  <2>2. causes' = causes \/ \E C : "unguarded" \notin C /\ Blamed(call[h].task, C)
    <3>1. causes' = causes \/ Blamed(call[h].task, {"misread"})
      BY <1>3, <2>1, ErrorMoves, BlameBlames DEF Causes
    <3>2. "unguarded" \notin {"misread"}
      OBVIOUS
    <3> QED BY <3>1, <3>2
  <2> QED BY <1>3, <2>2, ErrorMoves, PlainLocal DEF ErrorAnswer
<1>4. CASE HandlerDies(h)
  BY <1>4, DiesLeaves, LeavesLocal DEF HandlerDies
<1>5. CASE SaveFails(h)
  <2> DEFINE step == IF kind = "kling" THEN "notify" ELSE "refund"
  <2>1. call[h].step = "save"
    BY <1>5, FailsOut
  <2>2. CASE Leaves(h)
    BY <2>1, <2>2, LeavesLocal
  <2>3. CASE /\ UNCHANGED <<kind, redis, work, making, row, paid, lock>>
             /\ Blamed(call[h].task, {"unsaved"})
             /\ Now(h, call[h].task, step, call[h].answer, call[h].row.quota, call[h].answer)
    <3>1. "unguarded" \notin {"unsaved"}
      OBVIOUS
    <3> HIDE DEF step
    <3> QED BY <2>1, <2>3, <3>1, PlainLocal
  <2> QED BY <1>5, <2>2, <2>3, FailsOut
<1> QED BY <1>1, <1>2, <1>3, <1>4, <1>5

\* A task somebody else is at work on stays as it is.
LEMMA LocalSame ==
    ASSUME NEW h \in Handlers, NEW t \in TaskIds, Local(h), call[h].step # "idle", ~Works(h, t)
    PROVE  Same(t)
BY DEF Local, Works, Same

\* Who is in a lock goes on to hold it, or has met another one.
LEMMA LocalLock ==
    ASSUME VideoTyped, NEW h \in Handlers, NEW t \in TaskIds, Local(h), LockHeld(t)
    PROVE  LockHeld(t)'
<1>1. redis' = redis /\ kind' = kind
  BY DEF Local
<1>2. redis => "unguarded" \notin causes'[t]
  BY DEF Local, LockHeld
<1>3. ASSUME Guarded(t)', NEW g \in Handlers, InLock(g, t)'
      PROVE  Holds(g, t)'
  <2>1. Guarded(t)
    BY <1>3 DEF Guarded, Local
  <2>2. \A f \in Handlers : f # h => (InLock(f, t)' <=> InLock(f, t))
    BY <1>1 DEF Local, InLock
  <2>3. \A f \in Handlers : InLock(f, t) => Holds(f, t)
    BY <2>1 DEF LockHeld
  <2>4. CASE call'[h].step = "idle" /\ Unlocked(h)
    <3>1. ~InLock(h, t)'
      BY <2>4 DEF InLock
    <3>2. g # h /\ InLock(g, t)
      BY <1>3, <2>2, <3>1
    <3>3. Holds(g, t) /\ \A f \in Handlers : InLock(f, t)' => f = g
      BY <2>2, <2>3, <3>1, <3>2 DEF Holds
    <3>4. lock[t] = g => lock'[t] = g
      BY <2>4, <3>2 DEF Unlocked
    <3> QED BY <1>1, <3>3, <3>4 DEF Holds
  <2>5. CASE UNCHANGED lock /\ \A s \in TaskIds : InLock(h, s)' => InLock(h, s)
    <3>1. \A f \in Handlers : InLock(f, t)' => InLock(f, t)
      BY <2>2, <2>5
    <3> QED BY <1>1, <1>3, <2>3, <2>5, <3>1 DEF Holds
  <2>6. CASE Taken(h) /\ call'[h].task = call[h].task /\ call[h].task # t
    <3>1. ~InLock(h, t)' /\ lock'[t] = lock[t]
      BY <2>6 DEF InLock, Taken
    <3>2. \A f \in Handlers : InLock(f, t)' => InLock(f, t)
      BY <2>2, <3>1
    <3> QED BY <1>1, <1>3, <2>3, <3>1, <3>2 DEF Holds
  <2>7. CASE /\ Taken(h) /\ call'[h].task = call[h].task /\ call[h].task = t
             /\ \/ redis
                \/ "unguarded" \in causes'[call[h].task]
                \/ \A f \in Handlers : InLock(f, call[h].task) => f = h
    <3>1. redis => \A f \in Handlers : ~InLock(f, t)
      BY <2>3, <2>7, VideoAssumption DEF Holds, Taken
    <3>2. \A f \in Handlers : InLock(f, t) => f = h
      BY <1>3, <2>7, <3>1 DEF Guarded
    <3>3. \A f \in Handlers : InLock(f, t)' => f = h
      BY <2>2, <3>2
    <3>4. redis => lock'[t] = h
      BY <2>7 DEF Taken
    <3> QED BY <1>1, <1>3, <3>3, <3>4 DEF Holds
  <2> QED BY <2>4, <2>5, <2>6, <2>7 DEF Local
<1> QED BY <1>1, <1>2, <1>3 DEF LockHeld

\* Everything but a handler's own step leaves the handlers alone.
Outside(s) == Make(s) \/ ProviderEnds(s) \/ Forget(s) \/ DeleteChannel(s) \/ LockExpires(s)

LEMMA OutsideInv ==
    ASSUME VideoTyped, NEW t \in TaskIds, TaskInv(t), Outside(t)
    PROVE  TaskInv(t)'
<1>1. CASE DeleteChannel(t)
  BY <1>1, SameInv DEF DeleteChannel, Same, Works
<1> QED BY <1>1, SentInv, InsertInv, KlingCreateInv, TakeHoldInv, KlingSendInv, KlingSaveMadeInv,
          ProviderInv, ExpiresInv DEF Outside, Make

LEMMA OutsideSame ==
    ASSUME VideoTyped, NEW s \in TaskIds, NEW t \in TaskIds, s # t, Outside(s)
    PROVE  Same(t)
<1>1. kind' = kind /\ call' = call
  BY DEF Outside, Make, SendVideo, SendImage, Sent, TakeHold, CreateVideoLog, CreateImageLog, Insert,
         KlingCreate, KlingSend, KlingSaveMade, ProviderEnds, Forget, DeleteChannel, LockExpires
<1>2. work'[t] = work[t] /\ making'[t] = making[t]
  BY DEF Outside, Make, SendVideo, SendImage, Sent, TakeHold, CreateVideoLog, CreateImageLog, Insert,
         KlingCreate, KlingSend, KlingSaveMade, ProviderEnds, Forget, DeleteChannel, LockExpires,
         VideoTyped, VideoTypeOK
<1>3. row'[t] = row[t]
  BY DEF Outside, Make, SendVideo, SendImage, Sent, TakeHold, CreateVideoLog, CreateImageLog, Insert,
         KlingCreate, KlingSend, KlingSaveMade, ProviderEnds, Forget, DeleteChannel, LockExpires,
         VideoTyped, VideoTypeOK
<1>4. paid'[t] = paid[t] /\ causes'[t] = causes[t]
  BY DEF Outside, Make, SendVideo, SendImage, Sent, TakeHold, CreateVideoLog, CreateImageLog, Insert,
         KlingCreate, KlingSend, KlingSaveMade, ProviderEnds, Forget, DeleteChannel, LockExpires,
         Pay, Blame, VideoTyped, VideoTypeOK
<1> QED BY <1>1, <1>2, <1>3, <1>4 DEF Same, Works

LEMMA OutsideLock ==
    ASSUME VideoTyped, NEW s \in TaskIds, NEW t \in TaskIds, Outside(s), LockHeld(t)
    PROVE  LockHeld(t)'
<1>1. kind' = kind /\ redis' = redis /\ call' = call
  BY DEF Outside, Make, SendVideo, SendImage, Sent, TakeHold, CreateVideoLog, CreateImageLog, Insert,
         KlingCreate, KlingSend, KlingSaveMade, ProviderEnds, Forget, DeleteChannel, LockExpires
<1>2. /\ "lockLost" \in causes[t] => "lockLost" \in causes'[t]
      /\ "unguarded" \in causes'[t] <=> "unguarded" \in causes[t]
  BY DEF Outside, Make, SendVideo, SendImage, Sent, TakeHold, CreateVideoLog, CreateImageLog, Insert,
         KlingCreate, KlingSend, KlingSaveMade, ProviderEnds, Forget, DeleteChannel, LockExpires,
         Blame, Overwrites, VideoTyped, VideoTypeOK
<1>3. ASSUME Guarded(t)', NEW h \in Handlers, InLock(h, t)'
      PROVE  Holds(h, t)'
  <2>1. Guarded(t)
    BY <1>2, <1>3 DEF Guarded
  <2>2. \A g \in Handlers : InLock(g, t)' <=> InLock(g, t)
    BY <1>1 DEF InLock
  <2>3. InLock(h, t) /\ Holds(h, t)
    BY <1>3, <2>1, <2>2 DEF LockHeld
  <2>4. redis => lock'[t] = lock[t]
    <3>1. CASE LockExpires(s) /\ s = t
      <4>1. redis => Blame(t, {"lockLost"})
        BY <2>3, <3>1 DEF LockExpires, Holds
      <4> QED BY <1>3, <4>1 DEF Blame, Guarded, VideoTyped, VideoTypeOK
    <3>2. CASE LockExpires(s) /\ s # t
      BY <3>2 DEF LockExpires, VideoTyped, VideoTypeOK
    <3>3. CASE ~LockExpires(s)
      BY <3>3 DEF Outside, Make, SendVideo, SendImage, Sent, TakeHold, CreateVideoLog, CreateImageLog,
             Insert, KlingCreate, KlingSend, KlingSaveMade, ProviderEnds, Forget, DeleteChannel
    <3> QED BY <3>1, <3>2, <3>3
  <2> QED BY <1>1, <2>2, <2>3, <2>4 DEF Holds
<1> QED BY <1>1, <1>2, <1>3 DEF LockHeld

\* A handler begins.
Begins(h, s) == ClientAsks(h, s) \/ PollerAsks(h, s) \/ Callback(h, s)

LEMMA BeginsOut ==
    ASSUME VideoTyped, NEW h \in Handlers, NEW s \in TaskIds, Begins(h, s)
    PROVE  /\ Untouched /\ UNCHANGED lock /\ call[h].step = "idle"
           /\ \E step \in {"asking", "answered"} : \E state, amount, reply :
                 Now(h, s, step, state, amount, reply)
<1>1. CASE Ask(h, s)
  BY <1>1, AskMoves DEF Ask, Untouched
<1>2. CASE Callback(h, s)
  BY <1>2, CallbackMoves DEF Callback, Untouched
<1> QED BY <1>1, <1>2 DEF Begins, ClientAsks, PollerAsks

LEMMA BeginsInv ==
    ASSUME VideoTyped, NEW h \in Handlers, NEW s \in TaskIds, NEW t \in TaskIds, Begins(h, s),
           TaskInv(t), LockHeld(t)
    PROVE  TaskInv(t)' /\ LockHeld(t)'
<1>1. /\ Untouched /\ UNCHANGED lock /\ call[h].step = "idle"
      /\ call'[h].step \in {"asking", "answered"} /\ call'[h].task = s
      /\ \A g \in Handlers : g # h => call'[g] = call[g]
  BY BeginsOut DEF Now
<1>2. LockHeld(t)'
  <2>1. \A g \in Handlers : InLock(g, t)' <=> InLock(g, t)
    BY <1>1 DEF InLock, Untouched
  <2> QED BY <1>1, <2>1 DEF LockHeld, Guarded, Holds, Untouched
<1>3. CASE s = t
  BY <1>2, <1>3, AskInv, CallbackInv DEF Begins
<1>4. CASE s # t
  <2>1. Same(t)
    BY <1>1, <1>4 DEF Same, Works, Untouched
  <2> QED BY <1>2, <2>1, SameInv
<1> QED BY <1>3, <1>4

\* A handler goes on.
LEMMA ApplyInv ==
    ASSUME VideoTyped, NEW h \in Handlers, NEW t \in TaskIds, Works(h, t), Apply(h),
           TaskInv(t), LockHeld(t)
    PROVE  TaskInv(t)'
<1>1. CASE PassOn(h)
  BY <1>1, NoAnswerLeaves, LeavesInv
<1>2. CASE Settle(h)
  <2>1. kind \in {"xai", "kling"}
    BY <1>2 DEF Settle, VideoTyped, Paths
  <2> QED BY <1>2, <2>1, SettleXaiInv, SettleKlingInv
<1>3. CASE Meter(h) \/ Read(h) \/ UpdateImage(h) \/ UpdateDirect(h) \/ UpdateMissing(h) \/ UpdateGeneral(h)
  BY <1>3, MeterInv, ReadInv, DirectInv, MissingInv, GeneralInv
<1>4. CASE UpdateNative(h) \/ UpdateXaiRunning(h) \/ Lock(h) \/ Recheck(h) \/ SaveXai(h)
  BY <1>4, NativeInv, XaiRunningInv, LockInv, RecheckInv, SaveXaiInv
<1>5. CASE KlingApply(h) \/ KlingSave(h) \/ NotifyUserCallback(h) \/ Refund(h)
  BY <1>5, KlingApplyInv, KlingSaveInv, NotifyInv, RefundInv
<1> QED BY <1>1, <1>2, <1>3, <1>4, <1>5 DEF Apply

LEMMA HandlerInv ==
    ASSUME VideoTyped, NEW h \in Handlers, NEW t \in TaskIds, TaskInv(t), LockHeld(t),
           \/ ProviderAnswers(h) \/ NoAnswer(h) \/ ErrorAnswer(h)
           \/ HandlerDies(h) \/ SaveFails(h) \/ Apply(h)
    PROVE  TaskInv(t)' /\ LockHeld(t)'
<1>1. Local(h) /\ call[h].step # "idle"
  BY AnswerLocal, ApplyLocal
<1>2. LockHeld(t)'
  BY <1>1, LocalLock
<1>3. CASE Works(h, t)
  BY <1>2, <1>3, AnswerInv, NoAnswerLeaves, DiesLeaves, LeavesInv, ErrorInv, FailsInv, ApplyInv
<1>4. CASE ~Works(h, t)
  BY <1>1, <1>2, <1>4, LocalSame, SameInv
<1> QED BY <1>3, <1>4

\* The inductive invariant.
VideoInv == VideoTyped /\ \A t \in TaskIds : TaskInv(t) /\ LockHeld(t)

LEMMA VideoInvInit == VideoInit => VideoInv
<1> SUFFICES ASSUME VideoInit, NEW t \in TaskIds PROVE TaskInv(t) /\ LockHeld(t)
  BY VideoTypedInit DEF VideoInv
<1>1. /\ work[t] = "none" /\ making[t] = "new" /\ row[t] = NoRow /\ paid[t] = 0 /\ causes[t] = {}
      /\ \A h \in Handlers : call[h] = Idle
  BY DEF VideoInit
<1>2. /\ row[t].status = "none" /\ row[t].quota = 0
      /\ \A h \in Handlers : ~Works(h, t) /\ ~Refunds(h, t) /\ ~Paid(h, t) /\ ~InLock(h, t)
  BY <1>1, IdleFields DEF NoRow, Works, Refunds, Paid, InLock
<1>3. Presence(t) /\ OneQuota(t) /\ Expiry(t) /\ NativeStatus(t)
  BY <1>1, <1>2 DEF Presence, OneQuota, Expiry, NativeStatus
<1>4. Told(t) /\ Seen(t) /\ OneRefund(t) /\ Callbacks(t) /\ Metered(t) /\ UnderLock(t)
  BY <1>1, <1>2 DEF Told, Seen, OneRefund, Callbacks, Metered, UnderLock, Final, Ended
<1>5. Money(t)
  <2>1. ~Corrected(t) /\ ~GivenBack(t) /\ Base(t) = 0
    BY <1>1, <1>2 DEF Corrected, GivenBack, Base
  <2> QED BY <1>1, <2>1 DEF Money
<1>6. KlingMoney(t) /\ LockHeld(t)
  BY <1>1, <1>2 DEF KlingMoney, LockHeld, Final, Ended
<1> QED BY <1>3, <1>4, <1>5, <1>6 DEF TaskInv

LEMMA VideoInvNext == VideoInv /\ [VideoNext]_videoVars => VideoInv'
<1> SUFFICES ASSUME VideoInv, [VideoNext]_videoVars, NEW t \in TaskIds
             PROVE  TaskInv(t)' /\ LockHeld(t)'
  BY VideoTypedNext DEF VideoInv
<1>1. VideoTyped /\ TaskInv(t) /\ LockHeld(t)
  BY DEF VideoInv
<1>2. CASE UNCHANGED videoVars
  <2>1. Same(t)
    BY <1>2 DEF videoVars, Same, Works
  <2>2. \A h \in Handlers : InLock(h, t)' <=> InLock(h, t)
    BY <1>2 DEF videoVars, InLock
  <2>3. LockHeld(t)'
    BY <1>1, <1>2, <2>2 DEF videoVars, LockHeld, Guarded, Holds
  <2> QED BY <1>1, <2>1, <2>3, SameInv
<1>3. ASSUME NEW s \in TaskIds, Outside(s) PROVE TaskInv(t)' /\ LockHeld(t)'
  <2>1. LockHeld(t)'
    BY <1>1, <1>3, OutsideLock
  <2>2. TaskInv(t)'
    BY <1>1, <1>3, OutsideInv, OutsideSame, SameInv
  <2> QED BY <2>1, <2>2
<1>4. ASSUME NEW h \in Handlers, NEW s \in TaskIds, Begins(h, s) PROVE TaskInv(t)' /\ LockHeld(t)'
  BY <1>1, <1>4, BeginsInv
<1>5. ASSUME NEW h \in Handlers,
             \/ ProviderAnswers(h) \/ NoAnswer(h) \/ ErrorAnswer(h)
             \/ HandlerDies(h) \/ SaveFails(h) \/ Apply(h)
      PROVE  TaskInv(t)' /\ LockHeld(t)'
  BY <1>1, <1>5, HandlerInv
<1> QED BY <1>2, <1>3, <1>4, <1>5 DEF VideoNext, Outside, Begins

LEMMA VideoInvAlways == VideoSpec => []VideoInv
BY VideoInvInit, VideoInvNext, PTL DEF VideoSpec

\* Where there is Redis, two handlers are in the lock of the same xAI task only when it
\* has run out under one of them (UpdateNativeVideoTaskStatus: RedisLockAcquire, which
\* grants it to everyone where there is none, and RedisLockRelease).
THEOREM OneSettlerHolds == VideoSpec => []OneSettler
<1>1. VideoInv => OneSettler
  BY DEF VideoInv, LockHeld, Guarded, Holds, OneSettler
<1> QED BY <1>1, VideoInvAlways, PTL

\* What a settled task has cost.
LEMMA SettledDue ==
    ASSUME VideoInv, NEW t \in TaskIds, Settled(t), Clean(t)
    PROVE  paid[t] = Due(t)
<1>1. /\ making[t] = "made" /\ row[t].status \in Ended /\ Base(t) = Hold
      /\ \A h \in Handlers : ~Works(h, t) /\ ~Refunds(h, t) /\ ~Paid(h, t)
  BY DEF Settled, Final, Works, Refunds, Paid, Base
<1>2. VideoTyped /\ TaskInv(t)
  BY DEF VideoInv
<1>3. kind # "xai" => row[t].status # "expired"
  BY <1>2 DEF TaskInv, Expiry
<1>4. CASE kind = "kling"
  <2>1. paid[t] = IF row[t].status = "succeed" THEN Cost ELSE 0
    BY <1>1, <1>2, <1>4 DEF TaskInv, KlingMoney, Final
  <2> QED BY <1>1, <1>3, <1>4, <2>1 DEF Due, Ended
<1>5. CASE kind # "kling"
  <2>1. paid[t] = Hold + (IF Corrected(t) THEN Cost - Hold ELSE 0)
                  - (IF GivenBack(t) THEN IF kind = "picture" THEN DefaultImageQuota ELSE Hold
                     ELSE 0)
    BY <1>1, <1>2, <1>5 DEF TaskInv, Money
  <2>2. GivenBack(t) <=> kind # "still" /\ row[t].status = "failed"
    BY <1>1 DEF GivenBack, Refunding
  <2>3. Corrected(t) <=> kind \in {"xai", "metered"} /\ row[t].status = "succeed"
    <3>1. kind = "metered" /\ "metered" \in causes[t] => row[t].status = "succeed"
      <4> SUFFICES ASSUME kind = "metered", "metered" \in causes[t] PROVE row[t].status = "succeed"
        OBVIOUS
      <4>1. work[t] = "succeed"
        BY <1>2 DEF TaskInv, Metered
      <4>2. Said(t, row[t].status)
        BY <1>1, <1>2 DEF TaskInv, Told, Final
      <4> QED BY <4>1, <4>2 DEF Said, Reading
    <3>2. kind = "metered" /\ row[t].status = "succeed" => "metered" \in causes[t]
      BY <1>2 DEF TaskInv, Metered
    <3> QED BY <1>1, <3>1, <3>2 DEF Corrected
  <2> QED BY <1>1, <1>3, <1>5, <2>1, <2>2, <2>3, VideoAssumption DEF Due, Ended
<1> QED BY <1>4, <1>5

\* Whatever polls, callbacks, answers and requests meet, a task that has ended has
\* taken exactly its price and its row says how it ended, unless one of the mishaps
\* has happened to it that its history names (the handlers' guards, their order of
\* charge, save and refund, and xAI's lock; Doubao's single correction).
THEOREM SettledExactlyHolds == VideoSpec => []SettledExactly
<1>1. ASSUME VideoInv PROVE SettledExactly
  <2> SUFFICES ASSUME NEW t \in TaskIds, Settled(t), Clean(t)
               PROVE  /\ paid[t] = Due(t)
                      /\ kind \in {"kling", "still"} \/ work[t] = "forgotten" \/ row[t].status = Reading(t)
    BY DEF SettledExactly, Clean
  <2>1. kind \in {"kling", "still"} \/ work[t] = "forgotten" \/ row[t].status = Reading(t)
    BY <1>1 DEF VideoInv, TaskInv, Told, Said, Settled
  <2> QED BY <1>1, <2>1, SettledDue
<1> QED BY <1>1, VideoInvAlways, PTL
====
