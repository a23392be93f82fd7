------------------------------ MODULE FluxTask -------------------------------
(***************************************************************************)
(* Flux image tasks on BFL and Replicate channels: the request that        *)
(* creates one (controller/flux.go, relay/channel/flux/adaptor.go), and    *)
(* the three racing ways its result arrives: webhooks, a client's query    *)
(* of the source, and the reconciler (controller/flux_reconciler.go).      *)
(*                                                                         *)
(* A statement of the database is one step; what a goroutine read before   *)
(* it, or before a call to the upstream or to the mirror, is kept by the   *)
(* goroutine and used, possibly stale, later.                              *)
(***************************************************************************)
EXTENDS Integers, FiniteSets

CONSTANTS
    Tasks,      \* attempts at an image: each has one row in images
    Replicate,  \* those on a Replicate channel; the others are on BFL
    NoTask,     \* job of an idle goroutine
    Workers,    \* goroutines serving a webhook, a query or a reconciliation
    Quotas,     \* quotas the creation can estimate
    Price,      \* quota computed again when the row holds none
    QuerySlots, \* fluxQueryConcurrency
    MaxJobs,    \* bound: webhooks, queries and reconciliations
    MaxFaults   \* bound: database faults and crashes

ASSUME FluxTaskAssumption ==
    /\ Replicate \subseteq Tasks /\ NoTask \notin Tasks
    /\ Quotas \subseteq Nat /\ Price \in Nat
    /\ QuerySlots \in Nat \ {0}
    /\ MaxJobs \in Nat /\ MaxFaults \in Nat

VARIABLES
    status, quota,  \* columns of images
    known,      \* tasks whose task_id is in their row
    req,        \* progress of the request that creates the task
    answer,     \* what the upstream answered, while the request handles it
    upstream,   \* the prediction at BFL or Replicate
    old,        \* rows created more than fluxReconcileExpireSecs ago
    at, job,    \* how far a worker is, and for which task
    news,       \* upstream status in the worker's notification or poll
    seen,       \* quota in the row the worker read
    inflight,   \* fluxInflight: tasks being reconciled
    charged,    \* history: quota taken from the user for the task
    jobs, faults    \* bounded environment counters

rowVars == <<status, quota, known>>
workVars == <<at, job, news, seen>>
vars == <<rowVars, req, answer, upstream, old, workVars, inflight, charged,
          jobs, faults>>

-----------------------------------------------------------------------------
Waiting  == {"pending", "submitted", "processing"}
Terminal == {"success", "failed"}
Ends     == {"ready", "empty", "failed"}    \* how a prediction can end

Init ==
    /\ status = [t \in Tasks |-> "none"] /\ quota = [t \in Tasks |-> 0]
    /\ known = {}
    /\ req = [t \in Tasks |-> "new"] /\ answer = [t \in Tasks |-> "none"]
    /\ upstream = [t \in Tasks |-> "none"]
    /\ old = {}
    /\ at = [k \in Workers |-> "idle"]
    /\ job = [k \in Workers |-> NoTask] /\ news = [k \in Workers |-> "none"]
    /\ seen = [k \in Workers |-> 0]
    /\ inflight = {}
    /\ charged = [t \in Tasks |-> 0]
    /\ jobs = 0 /\ faults = 0

\* Mutant: the statement forgets WHERE status NOT IN ('success', 'failed').
CanSetAlways(t) == status[t] # "none"

\* The condition of UpdateIfNotTerminal and UpdateProcessingIfNotTerminal.
CanSet(t) == status[t] \in Waiting

\* UpdateIfNotTerminal: the row ends, or it had ended before.
SetTerminal(t, s, q) ==
    IF CanSet(t)
    THEN /\ status' = [status EXCEPT ![t] = s]
         /\ quota' = [quota EXCEPT ![t] = q]
         /\ known' = known \cup {t}
    ELSE UNCHANGED rowVars

\* The quota of the row read, or a computed one for a row that has none.
QuotaOr(q) == IF q > 0 THEN q ELSE Price

\* Mutant: the statement and the charge each compute their own quota.
ChargeQuotaEstimated(t, q) == charged' = [charged EXCEPT ![t] = @ + Price]

\* ChargeOnSuccess: a quota of zero is refused.
ChargeQuota(t, q) == charged' = [charged EXCEPT ![t] = @ + q]

Fault ==
    /\ faults < MaxFaults
    /\ faults' = faults + 1

-----------------------------------------------------------------------------
(* relayFluxHelper: the request that creates the task.                     *)

\* CreatePendingRecord, before anything is checked or sent.
Create(t) ==
    /\ req[t] = "new"
    /\ req' = [req EXCEPT ![t] = "checking"]
    /\ status' = [status EXCEPT ![t] = "pending"]
    /\ UNCHANGED <<quota, known, answer, upstream, old, workVars, inflight,
                   charged, jobs, faults>>

\* DoRequest reaches the upstream, which starts to work.
Send(t) ==
    /\ req[t] = "checking"
    /\ req' = [req EXCEPT ![t] = "sent"]
    /\ upstream' = [upstream EXCEPT ![t] = "running"]
    /\ UNCHANGED <<rowVars, answer, old, workVars, inflight, charged, jobs, faults>>

\* The request is refused here (form, balance) or there, or the connection
\* breaks: updateRecordToFailed.  The upstream may be working all the same.
RequestFails(t) ==
    /\ req[t] \in {"checking", "sent"}
    /\ req' = [req EXCEPT ![t] = "ended"]
    /\ status' = [status EXCEPT ![t] = "failed"]
    /\ UNCHANGED <<quota, known, answer, upstream, old, workVars, inflight,
                   charged, jobs, faults>>

\* The upstream accepts; Replicate waits up to 60 s for the prediction's end.
Answer(t) ==
    /\ req[t] = "sent"
    /\ req' = [req EXCEPT ![t] = "answered"]
    /\ answer' = [answer EXCEPT ![t] =
                    IF t \in Replicate THEN upstream[t] ELSE "running"]
    /\ UNCHANGED <<rowVars, upstream, old, workVars, inflight, charged, jobs, faults>>

\* Save of status "submitted", the task_id and an estimate.  A canceled
\* prediction comes without an error and is taken for a queued one.
SaveSubmitted(t) ==
    /\ req[t] = "answered" /\ answer[t] \in {"running", "failed"}
    /\ req' = [req EXCEPT ![t] = "ended"]
    /\ status' = [status EXCEPT ![t] = "submitted"]
    /\ \E q \in Quotas : quota' = [quota EXCEPT ![t] = q]
    /\ known' = known \cup {t}
    /\ answer' = [answer EXCEPT ![t] = "none"]
    /\ UNCHANGED <<upstream, old, workVars, inflight, charged, jobs, faults>>

\* Replicate answered with an error, or with success and no image.
SaveFailed(t) ==
    /\ req[t] = "answered" /\ answer[t] \in {"failed", "empty"}
    /\ req' = [req EXCEPT ![t] = "ended"]
    /\ status' = [status EXCEPT ![t] = "failed"]
    /\ known' = IF answer[t] = "failed" THEN known \cup {t} ELSE known
    /\ answer' = [answer EXCEPT ![t] = "none"]
    /\ UNCHANGED <<quota, upstream, old, workVars, inflight, charged, jobs, faults>>

\* handleReplicateSuccess: the image came with the answer.
SyncSuccess(t) ==
    /\ req[t] = "answered" /\ answer[t] = "ready"
    /\ req' = [req EXCEPT ![t] = IF CanSet(t) THEN "charging" ELSE "ended"]
    /\ \E q \in Quotas : SetTerminal(t, "success", q)
    /\ answer' = [answer EXCEPT ![t] = "none"]
    /\ UNCHANGED <<upstream, old, workVars, inflight, charged, jobs, faults>>

SyncCharge(t) ==
    /\ req[t] = "charging"
    /\ req' = [req EXCEPT ![t] = "ended"]
    /\ ChargeQuota(t, quota[t])
    /\ UNCHANGED <<rowVars, answer, upstream, old, workVars, inflight, jobs, faults>>

\* A statement of the request fails; the error is logged and the client gets
\* the upstream's answer.
SaveLost(t) ==
    /\ req[t] \in {"answered", "charging"}
    /\ Fault
    /\ req' = [req EXCEPT ![t] = "ended"]
    /\ answer' = [answer EXCEPT ![t] = "none"]
    /\ UNCHANGED <<rowVars, upstream, old, workVars, inflight, charged, jobs>>

-----------------------------------------------------------------------------
(* The upstream and the clock.                                             *)

Finish(t) ==
    /\ upstream[t] = "running"
    /\ \E e \in Ends : upstream' = [upstream EXCEPT ![t] = e]
    /\ UNCHANGED <<rowVars, req, answer, old, workVars, inflight, charged, jobs, faults>>

-----------------------------------------------------------------------------
(* Webhooks and queries: HandleCallback, HandleReplicateCallback.          *)

Begin(k, where, t, n) ==
    /\ at[k] = "idle" /\ jobs < MaxJobs
    /\ at' = [at EXCEPT ![k] = where]
    /\ job' = [job EXCEPT ![k] = t]
    /\ news' = [news EXCEPT ![k] = n]
    /\ jobs' = jobs + 1

End(k) ==
    /\ at' = [at EXCEPT ![k] = "idle"]
    /\ job' = [job EXCEPT ![k] = NoTask]
    /\ news' = [news EXCEPT ![k] = "none"]
    /\ seen' = [seen EXCEPT ![k] = 0]

\* A notification about a prediction the upstream knows: late, repeated or
\* overtaken by another one, but never of an end that is not the end.
Webhook(k, t) ==
    /\ upstream[t] # "none"
    /\ \E n \in {"running", upstream[t]} : Begin(k, "called", t, n)
    /\ UNCHANGED <<rowVars, req, answer, upstream, old, seen, inflight, charged, faults>>

\* GetFlux with from_source: QueryResult asks the upstream and plays its
\* answer as a callback when it is final and the row is not.
Query(k, t) ==
    /\ t \in known /\ upstream[t] \in Ends /\ status[t] \notin Terminal
    /\ Begin(k, "called", t, upstream[t])
    /\ UNCHANGED <<rowVars, req, answer, upstream, old, seen, inflight, charged, faults>>

\* A BFL callback skips a success, a Replicate callback any end.
Skips(t) == status[t] = "success" \/ (t \in Replicate /\ status[t] = "failed")

\* The row is read; found without its task_id in three tries, it is a 404.
ReadRow(k) ==
    LET t == job[k] IN
    /\ at[k] = "called"
    /\ IF t \notin known \/ Skips(t)
       THEN End(k)
       ELSE /\ at' = [at EXCEPT ![k] = "read"]
            /\ seen' = [seen EXCEPT ![k] = quota[t]]
            /\ UNCHANGED <<job, news>>
    /\ UNCHANGED <<rowVars, req, answer, upstream, old, inflight, charged, jobs, faults>>

\* BFL does not look for the image; Replicate fails a success without one.
Succeeds(t, n) == n = "ready" \/ (n = "empty" /\ t \notin Replicate)

\* Success, after the mirror: the winner of the statement charges.
CallbackSucceeds(k) ==
    LET t == job[k] IN
    /\ at[k] = "read" /\ Succeeds(t, news[k])
    /\ SetTerminal(t, "success", QuotaOr(seen[k]))
    /\ IF CanSet(t)
       THEN /\ at' = [at EXCEPT ![k] = "charging"]
            /\ seen' = [seen EXCEPT ![k] = QuotaOr(seen[k])]
            /\ UNCHANGED <<job, news>>
       ELSE End(k)
    /\ UNCHANGED <<req, answer, upstream, old, inflight, charged, jobs, faults>>

\* Failure, or a Replicate success without an image; nothing was charged.
CallbackFails(k) ==
    LET t == job[k] IN
    /\ at[k] = "read" /\ news[k] \in {"failed", "empty"} /\ ~Succeeds(t, news[k])
    /\ SetTerminal(t, "failed", seen[k])
    /\ End(k)
    /\ UNCHANGED <<req, answer, upstream, old, inflight, charged, jobs, faults>>

\* Mutant: the row read before is saved whole (image.Update).
ProcessingSaves(k) ==
    LET t == job[k] IN
    /\ at[k] = "read" /\ news[k] = "running"
    /\ status' = [status EXCEPT ![t] = "processing"]
    /\ quota' = [quota EXCEPT ![t] = seen[k]]
    /\ End(k)
    /\ UNCHANGED <<known, req, answer, upstream, old, inflight, charged, jobs, faults>>

\* UpdateProcessingIfNotTerminal: only the status.
CallbackProcessing(k) ==
    LET t == job[k] IN
    /\ at[k] = "read" /\ news[k] = "running"
    /\ status' = IF CanSet(t) THEN [status EXCEPT ![t] = "processing"] ELSE status
    /\ End(k)
    /\ UNCHANGED <<quota, known, req, answer, upstream, old, inflight, charged,
                   jobs, faults>>

Charge(k) ==
    /\ at[k] = "charging"
    /\ ChargeQuota(job[k], seen[k])
    /\ End(k)
    /\ UNCHANGED <<rowVars, req, answer, upstream, old, inflight, jobs, faults>>

-----------------------------------------------------------------------------
(* The reconciler.                                                         *)

\* Mutant: a webhook has set "processing" and the row is forgotten.
StuckSubmitted(t) == status[t] = "submitted" /\ t \in known

\* Rows ExpireStuckFluxImages and GetStuckFluxImages look for.
Stuck(t) == status[t] \in {"submitted", "processing"} /\ t \in known

\* A row can be too old as soon as it is one of these, and its age means nothing
\* before.
Age(t) ==
    /\ Stuck(t) /\ t \notin old
    /\ old' = old \cup {t}
    /\ UNCHANGED <<rowVars, req, answer, upstream, workVars, inflight, charged,
                   jobs, faults>>

\* ExpireStuckFluxImages: one UPDATE for all rows that are too old.
Expire ==
    LET late == {t \in old : Stuck(t)} IN
    /\ late # {}
    /\ status' = [t \in Tasks |-> IF t \in late THEN "failed" ELSE status[t]]
    /\ UNCHANGED <<quota, known, req, answer, upstream, old, workVars, inflight,
                   charged, jobs, faults>>

\* A row of GetStuckFluxImages and the goroutine started for it.
List(k, t) ==
    /\ Stuck(t) /\ t \notin old
    /\ Begin(k, "listed", t, "none")
    /\ seen' = [seen EXCEPT ![k] = quota[t]]
    /\ UNCHANGED <<rowVars, req, answer, upstream, old, inflight, charged, faults>>

\* tryAcquireInflight.
TryAcquire(k) ==
    /\ job[k] \notin inflight
    /\ inflight' = inflight \cup {job[k]}

Acquire(k) ==
    /\ at[k] = "listed"
    /\ TryAcquire(k)
    /\ at' = [at EXCEPT ![k] = "acquired"]
    /\ UNCHANGED <<rowVars, req, answer, upstream, old, job, news, seen,
                   charged, jobs, faults>>

\* Another goroutine reconciles the task.
Duplicate(k) ==
    /\ at[k] = "listed" /\ job[k] \in inflight
    /\ End(k)
    /\ UNCHANGED <<rowVars, req, answer, upstream, old, inflight, charged, jobs, faults>>

\* A slot of fluxQuerySem, then the upstream's status.
Poll(k) ==
    /\ at[k] = "acquired"
    /\ Cardinality({j \in Workers : at[j] = "polled"}) < QuerySlots
    /\ at' = [at EXCEPT ![k] = "polled"]
    /\ news' = [news EXCEPT ![k] = upstream[job[k]]]
    /\ UNCHANGED <<rowVars, req, answer, upstream, old, job, seen, inflight,
                   charged, jobs, faults>>

\* Slot and task are given back, whatever the reconciliation came to.
Release(k) ==
    /\ End(k)
    /\ inflight' = inflight \ {job[k]}

\* The poll failed or is of no use: next tick.  A failed BFL task is left to
\* its expiry, and so is a success without an image.
Leave(k) ==
    /\ at[k] = "polled"
    /\ Release(k)
    /\ UNCHANGED <<rowVars, req, answer, upstream, old, charged, jobs, faults>>

\* applyFluxBFLSuccess, applyFluxReplicateSuccess: the same statement as the
\* callback's, and no charge after it.
ReconcileSucceeds(k) ==
    /\ at[k] = "polled" /\ news[k] = "ready"
    /\ SetTerminal(job[k], "success", seen[k])
    /\ Release(k)
    /\ UNCHANGED <<req, answer, upstream, old, charged, jobs, faults>>

\* applyFluxReplicateFailed.
ReconcileFails(k) ==
    /\ at[k] = "polled" /\ news[k] = "failed" /\ job[k] \in Replicate
    /\ SetTerminal(job[k], "failed", seen[k])
    /\ Release(k)
    /\ UNCHANGED <<req, answer, upstream, old, charged, jobs, faults>>

-----------------------------------------------------------------------------
(* Faults, and the whole.                                                  *)

\* A statement of a callback fails: 500, or a charge that is only logged.
CallbackFault(k) ==
    /\ at[k] \in {"called", "read", "charging"}
    /\ Fault
    /\ End(k)
    /\ UNCHANGED <<rowVars, req, answer, upstream, old, inflight, charged, jobs>>

\* The process stops and starts again; nothing is resumed.
Crash ==
    /\ Fault
    /\ req' = [t \in Tasks |-> IF req[t] = "new" THEN "new" ELSE "ended"]
    /\ at' = [k \in Workers |-> "idle"]
    /\ job' = [k \in Workers |-> NoTask] /\ news' = [k \in Workers |-> "none"]
    /\ seen' = [k \in Workers |-> 0]
    /\ inflight' = {}
    /\ answer' = [t \in Tasks |-> "none"]
    /\ UNCHANGED <<rowVars, upstream, old, charged, jobs>>

RequestStep(t) ==
    \/ Create(t) \/ Send(t) \/ RequestFails(t) \/ Answer(t) \/ SaveSubmitted(t)
    \/ SaveFailed(t) \/ SyncSuccess(t) \/ SyncCharge(t)

WorkerStep(k) ==
    \/ ReadRow(k) \/ CallbackSucceeds(k) \/ CallbackFails(k)
    \/ CallbackProcessing(k) \/ Charge(k)
    \/ Acquire(k) \/ Duplicate(k) \/ Poll(k) \/ Leave(k)
    \/ ReconcileSucceeds(k) \/ ReconcileFails(k)

\* Nothing is left to do.
Done ==
    /\ \A k \in Workers : at[k] = "idle"
    /\ \A t \in Tasks : req[t] = "ended" /\ ~Stuck(t)
    /\ UNCHANGED vars

Next ==
    \/ \E t \in Tasks : RequestStep(t) \/ SaveLost(t) \/ Finish(t) \/ Age(t)
    \/ \E k \in Workers, t \in Tasks : Webhook(k, t) \/ Query(k, t) \/ List(k, t)
    \/ \E k \in Workers : WorkerStep(k) \/ CallbackFault(k)
    \/ Expire \/ Crash \/ Done

Spec == Init /\ [][Next]_vars

\* Time passes, and the reconciler, when it is switched on, ticks every 30 s
\* and expires rows before it starts any goroutine.  Nobody else need act.
FairSpec == Spec /\ WF_vars(Expire) /\ \A t \in Tasks : WF_vars(Age(t))

-----------------------------------------------------------------------------
TypeOK ==
    /\ status \in [Tasks -> Waiting \cup Terminal \cup {"none"}]
    /\ quota \in [Tasks -> Nat] /\ known \subseteq Tasks
    /\ req \in [Tasks -> {"new", "checking", "sent", "answered", "charging", "ended"}]
    /\ answer \in [Tasks -> Ends \cup {"none", "running"}]
    /\ upstream \in [Tasks -> Ends \cup {"none", "running"}]
    /\ old \subseteq Tasks
    /\ at \in [Workers -> {"idle", "called", "read", "charging",
                           "listed", "acquired", "polled"}]
    /\ job \in [Workers -> Tasks \cup {NoTask}]
    /\ news \in [Workers -> Ends \cup {"none", "running"}]
    /\ seen \in [Workers -> Nat]
    /\ inflight \subseteq Tasks
    /\ charged \in [Tasks -> Nat]
    /\ jobs \in 0..MaxJobs /\ faults \in 0..MaxFaults

\* Webhooks, queries, the reconciler and the request race for one row; the
\* user pays at most once, what the row says, and only for an image
\* (model/image.go:48).
ChargedAsRecorded ==
    \A t \in Tasks : charged[t] # 0 => status[t] = "success" /\ charged[t] = quota[t]

\* A result never changes again: a late "processing" does not reopen a task, a
\* late failure does not undo a success, nothing rewrites what was charged
\* (adaptor.go:815, adaptor.go:836).
ResultsAreFinal ==
    [][\A t \in Tasks : status[t] \in Terminal =>
         status'[t] = status[t] /\ quota'[t] = quota[t]]_vars

\* A task in fluxInflight has exactly one goroutine working on it, so that an
\* image is mirrored by one at a time and no task is locked out of
\* reconciliation (flux_reconciler.go:36).
InflightHasOneWorker ==
    \A t \in Tasks :
        Cardinality({k \in Workers : job[k] = t /\ at[k] \in {"acquired", "polled"}})
          = IF t \in inflight THEN 1 ELSE 0

\* A task the client was given an id for ends, even when no webhook arrives
\* and nobody asks (flux_reconciler.go:95).
SubmittedEnds ==
    \A t \in Tasks : t \in known ~> status[t] \in Terminal

\* Whoever turns a task into a success charges it: once no goroutine is at
\* work on it and nothing has failed, a success with a price is paid
\* (model/image.go:50).
\* It does not hold: README, section 6.
WinnerCharges ==
    \A t \in Tasks :
        status[t] = "success" /\ quota[t] > 0 /\ faults = 0 /\ req[t] # "charging"
          /\ (\A k \in Workers : job[k] = t => at[k] # "charging")
        => charged[t] > 0

-----------------------------------------------------------------------------
(* Every task is billed as TaskBilling says.                               *)

ChargeDue(t) == \/ req[t] = "charging"
                \/ \E k \in Workers : job[k] = t /\ at[k] = "charging"

BillOf(t) ==
    CASE status[t] = "failed" -> [state |-> "failed", amount |-> 0]
      [] status[t] = "success" /\ charged[t] > 0 ->
            [state |-> "charged", amount |-> charged[t]]
      [] status[t] = "success" /\ charged[t] = 0 /\ ChargeDue(t) ->
            [state |-> "due", amount |-> quota[t]]
      [] status[t] = "success" /\ charged[t] = 0 /\ ~ChargeDue(t) ->
            [state |-> "free", amount |-> 0]
      [] OTHER -> [state |-> "open", amount |-> 0]

Billing == INSTANCE TaskBilling WITH
             Amounts <- Quotas \cup {Price}, bill <- [t \in Tasks |-> BillOf(t)]

\* FluxTask implements the bill: it is opened once, falls due once, and is
\* paid in full or given up.
ImplementsBilling == Billing!Spec
=============================================================================
