---------------------------- MODULE MetricsLease ----------------------------
(***************************************************************************)
(* The metrics worker (model/metrics_v2_worker.go): every instance runs    *)
(* one, a lease in the database lets one of them scan, and the holder      *)
(* counts the logs of each five-minute bucket page by page, publishes the  *)
(* bucket with its rollups, and comes back for two later passes.  The      *)
(* administrator's rebuild of a bucket and the deletion of old logs        *)
(* (model/metrics_v2_cleanup.go) take the same lease.                      *)
(*                                                                         *)
(* Time is abstract: buckets 0 .. Last - 1 are over and past their grace   *)
(* of 120 s, and a lease or a delay may run out at any moment.  The owner, *)
(* a fresh UUID, and the generation say the same and are the actor that    *)
(* acquired last.  One model and one source; sums are additive, so a sum   *)
(* is how often each log is in it.  Nothing is old enough yet (35 days)    *)
(* for cleanupMetricsV2 to delete.                                         *)
(***************************************************************************)
EXTENDS Integers, FiniteSets, FiniteSetsExt

CONSTANTS
    Workers,    \* instances that run StartMetricsV2Worker
    Admins,     \* requests that rebuild a bucket or delete logs
    Nobody,     \* owner = ""
    Logs,       \* logs, numbered in the order (created_at, id)
    BucketOf,   \* the bucket of each log
    Last,       \* bound: the buckets are 0 .. Last - 1
    Page,       \* logs read or deleted at once (100, 500)
    Rollups,    \* resolutions above five minutes (an hour, a day)
    Size,       \* buckets in a row of each resolution
    MaxEvents   \* bound: database errors, crashes, leases that run out on a live
                \* holder, pauses, rebuilds and deletions, taken together

Fine == "5m"
Passes == 3
Buckets == 0 .. Last - 1
Actors == Workers \cup Admins

ASSUME MetricsLeaseAssumption ==
    /\ Workers \cap Admins = {} /\ Nobody \notin Actors
    /\ Last \in Nat /\ Page \in Nat \ {0}
    /\ IsFiniteSet(Logs) /\ Logs \subseteq Nat \ {0}
    \* What holds of any finite set of numbers.
    /\ \A L \in (SUBSET Logs) \ {{}} : \E lo, hi \in L : \A l \in L : lo <= l /\ l <= hi
    /\ \A R \in (SUBSET Rollups) \ {{}} : \E r \in R : \A q \in R : Size[q] <= Size[r]
    /\ BucketOf \in [Logs -> Buckets]
    /\ Fine \notin Rollups /\ Size \in [Rollups -> Nat \ {0}]
    /\ MaxEvents \in Nat

VARIABLES
    log,        \* of each log: not written yet, in the table, deleted
    state,      \* the row of metrics_v2_state
    job,        \* rows of metrics_v2_jobs
    stage,      \* metrics_v2_stage: how often each log is in its bucket's sums
    rows,       \* metrics_v2_buckets: the same, per resolution
    snap,       \* the row of metrics_v2_snapshots
    at,         \* where each actor is
    s,          \* the state row an actor read when it took the lease, kept up to date by hand
    mine,       \* the job an actor read, its page of logs, the turn of its loop
    events,     \* how many of them there were
    since       \* history: the logs in the table when the pass over a bucket began

vars == <<log, state, job, stage, rows, snap, at, s, mine,
          events, since>>

-----------------------------------------------------------------------------
Resolutions == {Fine} \cup Rollups
There == {l \in Logs : log[l] = "there"}
LogsOf(b) == {l \in Logs : BucketOf[l] = b}
None == [l \in Logs |-> 0]

NoJob == [there |-> FALSE, cursor |-> 0, pass |-> 0, final |-> FALSE]
NewJob == [NoJob EXCEPT !.there = TRUE]

NoWork == [b |-> 0, pass |-> 0, page |-> {}, odd |-> FALSE]
NoView == [cov |-> 0, next |-> 0, final |-> 0]

\* The row is created by the first acquisition; its three marks are equal.
Init ==
    /\ log = [l \in Logs |-> "unwritten"]
    /\ state = [owner |-> Nobody, live |-> FALSE, cov |-> 0, next |-> 0, final |-> 0,
                paused |-> FALSE]
    /\ job = [b \in Buckets |-> NoJob]
    /\ stage = None
    /\ rows = [r \in Resolutions |-> None]
    /\ snap = [there |-> FALSE, dirty |-> FALSE, asOf |-> 0, cov |-> 0, shown |-> None]
    /\ at = [a \in Actors |-> "idle"]
    /\ s = [a \in Actors |-> NoView]
    /\ mine = [a \in Actors |-> NoWork]
    /\ events = 0
    /\ since = [b \in Buckets |-> {}]

tables == <<log, state, job, stage, rows, snap, since>>

Goto(a, phase) == at' = [at EXCEPT ![a] = phase]

\* The actor is done; what it remembered is gone.
Leave(a) ==
    /\ Goto(a, "idle")
    /\ s' = [s EXCEPT ![a] = NoView]
    /\ mine' = [mine EXCEPT ![a] = NoWork]

Event ==
    /\ events < MaxEvents
    /\ events' = events + 1

-----------------------------------------------------------------------------
(* The lease.                                                              *)

\* Mutant: the fence only asks that the lease has not run out.
FenceLiveOnly(a) == state.live

\* metricsFence: this generation still holds the lease, which is extended.
Fence(a) == state.owner = a /\ state.live

\* WHERE lease_until <= now
Free == ~state.live

\* acquireMetricsLease: the conditional UPDATE.  Who finds the lease taken
\* gives up and changes nothing.
Acquire(a) ==
    /\ at[a] = "idle" /\ Free
    /\ \/ a \in Workers /\ UNCHANGED events
       \/ a \in Admins /\ Event
    /\ state' = [state EXCEPT !.owner = a, !.live = TRUE]
    /\ Goto(a, "acquired")
    /\ UNCHANGED <<log, job, stage, rows, snap, s, mine, since>>

\* The SELECT after it; the row may be another owner's by now.
View == [cov |-> state.cov, next |-> state.next, final |-> state.final]

EnterRefused(a) ==
    /\ at[a] = "acquired" /\ state.owner # a
    /\ Leave(a)
    /\ UNCHANGED <<tables, events>>

\* runMetricsV2Cycle up to its loop.
EnterCycle(w) ==
    /\ at[w] = "acquired" /\ state.owner = w
    /\ s' = [s EXCEPT ![w] = View]
    /\ \/ /\ Event
          /\ Goto(w, "pausing")
       \/ /\ Goto(w, IF state.paused THEN "resuming" ELSE "scan")
          /\ UNCHANGED events
    /\ UNCHANGED <<tables, mine>>

\* The UPDATEs of a pause and of a resumption ask for the owner, not the time.
Pause(w) ==
    /\ at[w] = "pausing"
    /\ state' = IF state.owner = w THEN [state EXCEPT !.paused = TRUE] ELSE state
    /\ Goto(w, "release")
    /\ UNCHANGED <<log, job, stage, rows, snap, s, mine, events, since>>

\* Coverage starts anew at the next whole bucket, after every published one.
Resume(w) ==
    /\ at[w] = "resuming"
    /\ \E c \in s[w].next + 1 .. Last + 1 :
        /\ state' = IF state.owner = w
                    THEN [state EXCEPT !.paused = FALSE, !.cov = c] ELSE state
        /\ s' = [s EXCEPT ![w].cov = c]
    /\ Goto(w, "scan")
    /\ UNCHANGED <<log, job, stage, rows, snap, mine, events, since>>

\* The deferred UPDATE, which the cycle's timeout can cancel.
Release(a) ==
    /\ at[a] = "release"
    /\ \/ /\ state' = IF state.owner = a THEN [state EXCEPT !.owner = Nobody, !.live = FALSE]
                      ELSE state
          /\ UNCHANGED events
       \/ Event /\ UNCHANGED state
    /\ Leave(a)
    /\ UNCHANGED <<log, job, stage, rows, snap, since>>

-----------------------------------------------------------------------------
(* The loop of runMetricsV2Cycle.                                          *)

\* Mutant: jobs strictly above finalized_before.
DueAbove(w) == {b \in Buckets : job[b].there /\ ~job[b].final /\ s[w].final < b}

\* Every other turn a job whose time has come goes before the next new
\* bucket; which jobs those are depends on delays that are not modelled.
Due(w) == {b \in Buckets : job[b].there /\ ~job[b].final /\ s[w].final <= b}
New(w) == {b \in Buckets : b = s[w].next}
Choice(w) == New(w) \cup (IF mine[w].odd THEN {} ELSE Due(w))

\* WHERE (created_at, id) > cursor ORDER BY created_at, id LIMIT 100
NextPage(b, cursor) ==
    LET left == {l \in LogsOf(b) \cap There : l > cursor}
    IN  {l \in left : Cardinality({k \in left : k < l}) < Page}

\* The job row is created if need be and read, then a page of its logs; an
\* empty page ends the pass.  None of it asks for the lease.
Scan(w) ==
    /\ at[w] = "scan"
    /\ \E b \in Choice(w) :
        LET row == IF job[b].there THEN job[b] ELSE NewJob
            page == NextPage(b, row.cursor)
        IN  /\ job' = [job EXCEPT ![b] = row]
            /\ mine' = [mine EXCEPT ![w].b = b, ![w].pass = row.pass, ![w].page = page]
            /\ Goto(w, IF page = {} THEN "publish" ELSE "commit")
            /\ since' = IF state.owner = w /\ row.cursor = 0
                        THEN [since EXCEPT ![b] = LogsOf(b) \cap There] ELSE since
    /\ UNCHANGED <<log, state, stage, rows, snap, s, events>>

\* Nothing to do yet, or twenty seconds are over.
StopLoop(w) ==
    /\ at[w] = "scan"
    /\ Goto(w, "advance")
    /\ UNCHANGED <<tables, s, mine, events>>

\* A transaction of a has committed: a goes on, or has run into its timeout
\* and takes the commit for a failure.
Committed(a, phase) ==
    \/ Goto(a, phase) /\ UNCHANGED events
    \/ Goto(a, "release") /\ Event

\* A transaction rolls back: the lease is lost, or the database fails.
RolledBack(a) ==
    \/ ~Fence(a) /\ UNCHANGED events
    \/ Fence(a) /\ Event

\* scanMetricsPage: the page joins the stage and the cursor moves, in one
\* transaction.
CommitPage(w) ==
    LET m == mine[w] IN
    /\ at[w] = "commit" /\ Fence(w)
    /\ Committed(w, "scan")
    /\ stage' = [l \in Logs |-> stage[l] + (IF l \in m.page THEN 1 ELSE 0)]
    /\ job' = [job EXCEPT ![m.b].cursor = Max(m.page)]
    /\ mine' = [mine EXCEPT ![w] = [NoWork EXCEPT !.odd = ~m.odd]]
    /\ UNCHANGED <<log, state, rows, snap, s, since>>

\* Mutant: the rollups get the whole bucket again on every pass.
CorrectedByAll(r, l) == rows[r][l] + stage[l]

\* The rollups are corrected by what is new: new - old.
Corrected(r, l) == rows[r][l] + stage[l] - rows[Fine][l]

\* Mutant: only the sums that changed make the snapshot dirty.
DirtiedByChange(w, b) == \E l \in LogsOf(b) : stage[l] # rows[Fine][l]

\* The bucket has or had a sum for the source, or the window moves on.
Dirtied(w, b) ==
    \/ \E l \in LogsOf(b) : stage[l] # 0 \/ rows[Fine][l] # 0
    \/ b = s[w].next /\ snap.there /\ snap.asOf < b + 1

\* publishMetricsBucket.  A third pass closes the job; next_bucket moves when
\* this is the next bucket by what the cycle remembers.
PublishBucket(w) ==
    LET m == mine[w]  b == m.b  own == LogsOf(m.b) IN
    /\ at[w] = "publish" /\ Fence(w)
    /\ Committed(w, "scan")
    /\ rows' = [r \in Resolutions |-> [l \in Logs |->
                  CASE l \notin own -> rows[r][l]
                    [] l \in own /\ r = Fine -> stage[l]
                    [] OTHER -> Corrected(r, l)]]
    /\ snap' = [snap EXCEPT !.dirty = @ \/ Dirtied(w, b),
                            !.there = @ \/ \E l \in own : stage[l] # 0 \/ rows[Fine][l] # 0]
    /\ job' = [job EXCEPT ![b] = [@ EXCEPT !.pass = m.pass + 1, !.cursor = 0,
                                           !.final = m.pass + 1 >= Passes]]
    /\ stage' = [l \in Logs |-> IF l \in own THEN 0 ELSE stage[l]]
    /\ state' = IF b = s[w].next THEN [state EXCEPT !.next = b + 1] ELSE state
    /\ s' = IF b = s[w].next /\ at'[w] = "scan" THEN [s EXCEPT ![w].next = b + 1] ELSE s
    /\ mine' = [mine EXCEPT ![w] = [NoWork EXCEPT !.odd = ~m.odd]]
    /\ UNCHANGED <<log, since>>

\* The page or the publication fails and leaves nothing behind but a later
\* next_run, if the lease is still held; the cycle ends.
WorkFails(w) ==
    /\ at[w] \in {"commit", "publish"}
    /\ RolledBack(w)
    /\ Goto(w, "release")
    /\ UNCHANGED <<tables, s, mine>>

-----------------------------------------------------------------------------
(* After the loop.                                                         *)

\* n is the first bucket from there on whose job is not closed.
ClosedUpTo(from, n) ==
    /\ \A b \in from .. n - 1 : job[b].final
    /\ n < Last => ~job[n].final

\* advanceMetricsFinalized.  Jobs are closed and opened only by the holder of
\* the lease, so what it reads before its transaction still stands in it.
Advance(w) ==
    /\ at[w] = "advance"
    /\ \E n \in s[w].final .. Last :
        /\ ClosedUpTo(s[w].final, n)
        /\ n # s[w].final => Fence(w)
        /\ state' = IF n # s[w].final THEN [state EXCEPT !.final = n] ELSE state
        /\ s' = [s EXCEPT ![w].final = n]
    /\ Goto(w, "snapshots")
    /\ UNCHANGED <<log, job, stage, rows, snap, mine, events, since>>

\* The whole rows inside [from, to) that hold bucket b, by their resolution.
Holding(b, from, to) ==
    {r \in Rollups : LET start == b - (b % Size[r])
                     IN  from <= start /\ start + Size[r] <= to}

\* rangeSum of buildMetricsSnapshot takes the coarsest of them.
Shown(l, from, to) ==
    LET b == BucketOf[l]  whole == Holding(b, from, to) IN
    CASE ~(from <= b /\ b < to) -> 0
      [] from <= b /\ b < to /\ whole = {} -> rows[Fine][l]
      [] OTHER -> rows[CHOOSE r \in whole : \A q \in whole : Size[q] <= Size[r]][l]

\* publishMetricsSnapshots, then cleanupMetricsV2 with nothing to delete.
PublishSnapshot(w) ==
    /\ at[w] = "snapshots"
    /\ \/ ~snap.dirty /\ UNCHANGED snap
       \/ /\ snap.dirty /\ Fence(w)
          /\ snap' = [snap EXCEPT !.dirty = FALSE, !.asOf = s[w].next, !.cov = s[w].cov,
                        !.shown = [l \in Logs |-> Shown(l, s[w].cov, s[w].next)]]
    /\ Goto(w, "release")
    /\ UNCHANGED <<log, state, job, stage, rows, s, mine, events, since>>

EndFails(w) ==
    /\ at[w] \in {"advance", "snapshots"}
    /\ RolledBack(w)
    /\ Goto(w, "release")
    /\ UNCHANGED <<tables, s, mine>>

-----------------------------------------------------------------------------
(* metrics_v2_cleanup.go.                                                  *)

\* Covered, published and not sealed.
Open(a, b) == s[a].cov <= b /\ s[a].final <= b /\ b < s[a].next

EnterAdmin(a) ==
    /\ at[a] = "acquired" /\ state.owner = a
    /\ s' = [s EXCEPT ![a] = View]
    /\ \E b \in Buckets, task \in {"rebuild", "delete"} :
        /\ mine' = [mine EXCEPT ![a].b = b]
        /\ Goto(a, task)
    /\ UNCHANGED <<tables, events>>

\* RebuildMetricsV2Bucket: the stage is emptied, the job starts over.
Rebuild(a) ==
    LET b == mine[a].b IN
    /\ at[a] = "rebuild"
    /\ \/ /\ Open(a, b) /\ Fence(a)
          /\ stage' = [l \in Logs |-> IF BucketOf[l] = b THEN 0 ELSE stage[l]]
          /\ job' = [job EXCEPT ![b] = [@ EXCEPT !.cursor = 0, !.pass = 0, !.final = FALSE]]
       \/ ~(Open(a, b) /\ Fence(a)) /\ UNCHANGED <<stage, job>>
    /\ Goto(a, "release")
    /\ UNCHANGED <<log, state, rows, snap, s, mine, events, since>>

\* Mutant: logs are deleted up to where buckets are published.
BelowPublished(a) == IF mine[a].b + 1 > s[a].next THEN s[a].next ELSE mine[a].b + 1

\* The target asked for, at most finalized_before.
Below(a) == IF mine[a].b + 1 > s[a].final THEN s[a].final ELSE mine[a].b + 1

\* deleteLogsWithMetricsGuard: a batch a step, until one is not full.
DeleteLogs(a) ==
    LET old == {l \in There : BucketOf[l] < Below(a)}
        batch == {l \in old : Cardinality({k \in old : k < l}) < Page}
    IN
    /\ at[a] = "delete"
    /\ \/ /\ Fence(a)
          /\ log' = [l \in Logs |-> IF l \in batch THEN "deleted" ELSE log[l]]
          /\ Goto(a, IF Cardinality(batch) < Page THEN "release" ELSE "delete")
       \/ ~Fence(a) /\ Goto(a, "release") /\ UNCHANGED log
    /\ UNCHANGED <<state, job, stage, rows, snap, s, mine, events, since>>

-----------------------------------------------------------------------------
(* Around the workers.                                                     *)

\* A call's log is inserted, at the earliest while its bucket lasts.
WriteLog(l) ==
    /\ log[l] = "unwritten"
    /\ log' = [log EXCEPT ![l] = "there"]
    /\ UNCHANGED <<state, job, stage, rows, snap, at, s, mine, events, since>>

\* Sixty seconds pass since the last fence: of an actor that is gone, or of
\* one that is merely slow.
Expire ==
    /\ state.live
    /\ \/ at[state.owner] = "idle" /\ UNCHANGED events
       \/ at[state.owner] # "idle" /\ Event
    /\ state' = [state EXCEPT !.live = FALSE]
    /\ UNCHANGED <<log, job, stage, rows, snap, at, s, mine, since>>

\* The process stops; what is in the database stays.
Crash(a) ==
    /\ at[a] # "idle" /\ Event
    /\ Leave(a)
    /\ UNCHANGED <<tables>>

CycleStep(w) ==
    \/ Acquire(w) \/ EnterRefused(w) \/ EnterCycle(w) \/ Pause(w) \/ Resume(w)
    \/ Scan(w) \/ StopLoop(w) \/ CommitPage(w) \/ PublishBucket(w) \/ WorkFails(w)
    \/ Advance(w) \/ PublishSnapshot(w) \/ EndFails(w) \/ Release(w)

AdminStep(a) ==
    \/ Acquire(a) \/ EnterRefused(a) \/ EnterAdmin(a) \/ Rebuild(a) \/ DeleteLogs(a)
    \/ Release(a)

ExpireAbandoned == Expire /\ at[state.owner] = "idle"

Next ==
    \/ \E w \in Workers : CycleStep(w)
    \/ \E a \in Admins : AdminStep(a)
    \/ \E a \in Actors : Crash(a)
    \/ \E l \in Logs : WriteLog(l)
    \/ Expire

Spec == Init /\ [][Next]_vars

\* StartMetricsV2Worker loops for ever and every query has a timeout; requests
\* end; time passes.  A worker that is refused the lease again and again still
\* sees the holder's work done, so weak fairness is enough.
FairSpec ==
    /\ Spec
    /\ \A w \in Workers : WF_vars(CycleStep(w))
    /\ \A a \in Admins : WF_vars(at[a] # "idle" /\ AdminStep(a))
    /\ \A w \in Workers : SF_vars(Scan(w))
    /\ WF_vars(ExpireAbandoned)

-----------------------------------------------------------------------------
Phases == {"idle", "acquired", "pausing", "resuming", "scan", "commit", "publish",
           "advance", "snapshots", "rebuild", "delete", "release"}

TypeOK ==
    /\ log \in [Logs -> {"unwritten", "there", "deleted"}]
    /\ state \in [owner : Actors \cup {Nobody}, live : BOOLEAN, cov : 0 .. Last + 1,
                  next : 0 .. Last, final : 0 .. Last, paused : BOOLEAN]
    /\ job \in [Buckets -> [there : BOOLEAN, cursor : Logs \cup {0}, pass : Nat,
                            final : BOOLEAN]]
    /\ stage \in [Logs -> Nat]
    /\ rows \in [Resolutions -> [Logs -> Int]]
    /\ snap \in [there : BOOLEAN, dirty : BOOLEAN, asOf : 0 .. Last, cov : 0 .. Last + 1,
                 shown : [Logs -> Int]]
    /\ at \in [Actors -> Phases]
    /\ s \in [Actors -> [cov : 0 .. Last + 1, next : 0 .. Last, final : 0 .. Last]]
    /\ mine \in [Actors -> [b : Nat, pass : Nat, page : SUBSET Logs, odd : BOOLEAN]]
    /\ events \in Nat
    /\ since \in [Buckets -> SUBSET Logs]

\* A log is never counted twice, in the stage of a pass or in a published
\* sum, whoever held the lease while its page was read and committed; the
\* stage holds nothing past the cursor (metrics_v2_worker.go:132-170).
CountedOnce ==
    \A l \in Logs :
        /\ stage[l] \in {0, 1}
        /\ stage[l] = 1 => l <= job[BucketOf[l]].cursor
        /\ \A r \in Resolutions : rows[r][l] \in {0, 1}

\* Hours and days say what the five-minute buckets say, after any number of
\* passes, rebuilds and failed publications (metrics_v2_worker.go:178).
RollupsAgree == \A r \in Rollups : rows[r] = rows[Fine]

\* A snapshot that is not marked dirty shows the published buckets, all of
\* them and as they are now, from its coverage on (metrics_v2_worker.go:267-303).
SnapshotIsCurrent ==
    snap.there /\ ~snap.dirty =>
        /\ snap.asOf = state.next
        /\ \A l \in Logs : snap.shown[l] =
             IF snap.cov <= BucketOf[l] /\ BucketOf[l] < snap.asOf THEN rows[Fine][l] ELSE 0

\* Every bucket is counted three times and sealed, which is what lets old logs
\* be deleted (metrics_v2_worker.go:388-413).
EveryBucketCloses == <>(state.final = Last)

-----------------------------------------------------------------------------
(* The workers, the lease and the pages together count as one worker does. *)

Board == INSTANCE MetricsBoard WITH
            there   <- There,
            counted <- rows[Fine],
            passes  <- [b \in Buckets |-> job[b].pass],
            closed  <- state.final

\* A pass counts every log that was there when it began and none twice, no
\* bucket is sealed before three passes, and only logs of sealed buckets are
\* deleted (docs/source-metrics-v2.md, model/metrics_v2_cleanup.go:27).
ImplementsBoard == Board!BoardSpec
=============================================================================
