------------------------- MODULE MetricsLeaseProofs --------------------------
(* Theorems about MetricsLease, for every set of workers, requests and logs. *)
EXTENDS MetricsLease, FiniteSetTheorems, TLAPS

\* Between its SELECT and its release, unless a commit was taken for a failure.
Inside == {"resuming", "scan", "commit", "publish", "advance", "snapshots", "rebuild",
           "delete"}

\* What the owner remembers of the state row is what is in it.
ViewInv ==
    /\ \A a \in Actors : at[a] \in Inside /\ state.owner = a =>
         s[a].next = state.next /\ s[a].final = state.final /\ s[a].cov = state.cov
    /\ \A a \in Actors : s[a].next <= state.next

\* Jobs exist up to the next bucket; closed ones have had their three passes.
JobInv ==
    /\ state.final <= state.next
    /\ \A b \in Buckets :
         /\ ~job[b].there => job[b] = NoJob
         /\ job[b].there => b <= state.next
         /\ job[b].final => job[b].there /\ job[b].pass >= Passes /\ b < state.next

\* What the stage holds was counted once, is behind the cursor of an open
\* bucket, and is still in the table.
StageInv ==
    \A l \in Logs :
        /\ stage[l] \in {0, 1}
        /\ stage[l] = 1 => /\ l <= job[BucketOf[l]].cursor
                           /\ log[l] = "there"
                           /\ state.final <= BucketOf[l]
                           /\ ~job[BucketOf[l]].final

\* The page the owner has read goes on from the cursor and leaves out no log
\* that the pass has to count; an empty page leaves none.
WorkInv ==
    \A a \in Actors : at[a] \in {"commit", "publish"} /\ state.owner = a =>
        LET m == mine[a] IN
        /\ m.b \in Buckets /\ m.pass = job[m.b].pass
        /\ job[m.b].there /\ ~job[m.b].final /\ state.final <= m.b
        /\ at[a] = "commit" => m.page # {}
        /\ at[a] = "publish" => m.page = {}
        /\ \A l \in m.page : /\ BucketOf[l] = m.b /\ log[l] = "there"
                             /\ job[m.b].cursor < l
        /\ \A l \in since[m.b] :
             \/ l <= job[m.b].cursor
             \/ l \in m.page
             \/ m.page # {} /\ \A k \in m.page : k < l

\* Behind the cursor, every log the pass has to count is in the stage; none of
\* them is deleted while the bucket is open.
SinceInv ==
    \A b \in Buckets : \A l \in since[b] :
        /\ BucketOf[l] = b
        /\ state.final <= b => log[l] = "there"
        /\ l <= job[b].cursor => stage[l] = 1

RowsInv == RollupsAgree /\ \A r \in Resolutions, l \in Logs : rows[r][l] \in {0, 1}

IInv == TypeOK /\ ViewInv /\ JobInv /\ StageInv /\ WorkInv /\ SinceInv /\ RowsInv
        /\ SnapshotIsCurrent

-----------------------------------------------------------------------------
(* Facts about constants and helpers.                                      *)

LEMMA LogsAreNumbers ==
    \A l \in Logs : l \in Nat /\ l > 0 /\ BucketOf[l] \in Buckets
<1>1. Logs \subseteq Nat \ {0} /\ BucketOf \in [Logs -> Buckets]
  BY MetricsLeaseAssumption
<1> QED  BY <1>1

LEMMA Bounds == Last \in Nat /\ MaxEvents \in Nat /\ Nobody \notin Actors /\ Workers \subseteq Actors
BY MetricsLeaseAssumption DEF Actors

LEMMA MaxOfPage ==
    ASSUME NEW L \in SUBSET Logs, L # {}
    PROVE  Max(L) \in L /\ \A l \in L : l <= Max(L)
<1>1. PICK hi \in L : \A l \in L : l <= hi  BY MetricsLeaseAssumption
<1>2. \E x \in L : \A y \in L : x >= y  BY <1>1, MetricsLeaseAssumption
<1> QED  BY <1>2, MetricsLeaseAssumption DEF Max

\* A page is the first logs after the cursor, and empty only if there are none.
LEMMA PageIsPrefix ==
    ASSUME NEW b \in Buckets, NEW c \in Nat, TypeOK
    PROVE  LET left == {l \in LogsOf(b) \cap There : l > c} IN
           /\ NextPage(b, c) \subseteq left
           /\ NextPage(b, c) = {} => left = {}
           /\ \A l \in left : \A k \in NextPage(b, c) : l <= k => l \in NextPage(b, c)
<1> DEFINE left == {l \in LogsOf(b) \cap There : l > c}
           Under(l) == {k \in left : k < l}
<1>1. left \in SUBSET Logs  BY DEF LogsOf, There
<1>2. NextPage(b, c) = {l \in left : Cardinality(Under(l)) < Page}  BY DEF NextPage
<1>3. IsFiniteSet(left)
  <2>1. IsFiniteSet(Logs)  BY MetricsLeaseAssumption
  <2> QED  BY <1>1, <2>1, FS_Subset
<1>4. ASSUME NextPage(b, c) = {}, left # {}
      PROVE  FALSE
  <2>1. PICK lo \in left : \A l \in left : lo <= l
    BY <1>1, <1>4, MetricsLeaseAssumption
  <2>2. Under(lo) = {}  BY <1>1, <2>1, LogsAreNumbers
  <2>3. Cardinality(Under(lo)) = 0  BY <2>2, FS_EmptySet
  <2>4. Page > 0  BY MetricsLeaseAssumption
  <2> QED  BY <1>2, <1>4, <2>3, <2>4
<1>5. ASSUME NEW l \in left, NEW k \in NextPage(b, c), l <= k
      PROVE  l \in NextPage(b, c)
  <2>1. Under(l) \subseteq Under(k)  BY <1>1, <1>2, <1>5, LogsAreNumbers
  <2>2. IsFiniteSet(Under(k)) /\ IsFiniteSet(Under(l))  BY <1>3, FS_Subset
  <2>3. Cardinality(Under(l)) <= Cardinality(Under(k))  BY <2>1, <2>2, FS_Subset
  <2>4. Cardinality(Under(l)) \in Nat /\ Cardinality(Under(k)) \in Nat
    BY <2>2, FS_CardinalityType
  <2>5. Page \in Nat  BY MetricsLeaseAssumption
  <2> QED  BY <1>2, <2>3, <2>4, <2>5
<1> QED  BY <1>2, <1>4, <1>5

-----------------------------------------------------------------------------
(* The invariant holds at the start.                                       *)

LEMMA InvInit == Init => IInv
<1> USE MetricsLeaseAssumption
<1> SUFFICES ASSUME Init PROVE IInv  OBVIOUS
<1>1. TypeOK
  BY DEF Init, TypeOK, None, NoJob, NoView, NoWork, Phases, Buckets, Resolutions
<1>2. ViewInv  BY DEF Init, ViewInv, Inside, NoView
<1>3. JobInv  BY DEF Init, JobInv, NoJob
<1>4. StageInv  BY DEF Init, StageInv, None
<1>5. WorkInv  BY DEF Init, WorkInv
<1>6. SinceInv  BY DEF Init, SinceInv
<1>7. RowsInv  BY DEF Init, RowsInv, RollupsAgree, None, Resolutions, Fine
<1>8. SnapshotIsCurrent  BY DEF Init, SnapshotIsCurrent
<1> QED  BY <1>1, <1>2, <1>3, <1>4, <1>5, <1>6, <1>7, <1>8 DEF IInv

-----------------------------------------------------------------------------
(* Steps that leave the jobs, the stage and the sums alone.                *)

LeaseStep(a) ==
    \/ Acquire(a) \/ EnterRefused(a) \/ EnterCycle(a) \/ EnterAdmin(a) \/ Pause(a)
    \/ Resume(a) \/ Release(a) \/ StopLoop(a) \/ WorkFails(a) \/ EndFails(a) \/ Crash(a)

StateType == [owner : Actors \cup {Nobody}, live : BOOLEAN, cov : 0 .. Last + 1,
              next : 0 .. Last, final : 0 .. Last, paused : BOOLEAN]
ViewType == [cov : 0 .. Last + 1, next : 0 .. Last, final : 0 .. Last]
JobType == [there : BOOLEAN, cursor : Logs \cup {0}, pass : Nat, final : BOOLEAN]
WorkType == [b : Nat, pass : Nat, page : SUBSET Logs, odd : BOOLEAN]

\* The changes the lease steps make keep the types.
LEMMA LeaseValues ==
    ASSUME TypeOK
    PROVE  /\ state \in StateType
           /\ \A o \in Actors \cup {Nobody}, l \in BOOLEAN :
                [state EXCEPT !.owner = o, !.live = l] \in StateType
           /\ \A p \in BOOLEAN : [state EXCEPT !.paused = p] \in StateType
           /\ \A p \in BOOLEAN, c \in 0 .. Last + 1 :
                [state EXCEPT !.paused = p, !.cov = c] \in StateType
           /\ \A a \in Actors, b \in Nat : [mine[a] EXCEPT !.b = b] \in WorkType
           /\ \A a \in Actors, c \in 0 .. Last + 1 : [s[a] EXCEPT !.cov = c] \in ViewType
           /\ s \in [Actors -> ViewType] /\ NoView \in ViewType
           /\ mine \in [Actors -> WorkType] /\ NoWork \in WorkType
<1>1. state \in StateType  BY DEF TypeOK, StateType
<1>2. \A a \in Actors : mine[a] \in WorkType  BY DEF TypeOK, WorkType
<1>3. s \in [Actors -> ViewType]  BY DEF TypeOK, ViewType
<1>4. \A a \in Actors, c \in 0 .. Last + 1 : [s[a] EXCEPT !.cov = c] \in ViewType
  BY <1>3 DEF ViewType
<1>5. NoView \in ViewType  BY Bounds DEF NoView, ViewType
<1>6. mine \in [Actors -> WorkType]  BY DEF TypeOK, WorkType
<1> QED  BY <1>1, <1>2, <1>3, <1>4, <1>5, <1>6 DEF StateType, WorkType, NoWork

LEMMA LeaseType ==
    ASSUME TypeOK, NEW a \in Actors, LeaseStep(a)
    PROVE  TypeOK'
<1> USE Bounds DEF TypeOK, Goto, Leave, Event, tables, Phases, NoView, NoWork,
        View
<1>1. CASE Acquire(a)
  <2>1. state' \in StateType  BY <1>1, LeaseValues DEF Acquire
  <2>2. events' \in Nat  BY <1>1 DEF Acquire
  <2> QED  BY <1>1, <2>1, <2>2 DEF Acquire, StateType
<1>2. CASE EnterRefused(a)  BY <1>2 DEF EnterRefused
<1>3. CASE EnterCycle(a)  BY <1>3 DEF EnterCycle
<1>4. CASE EnterAdmin(a)
  <2>1. PICK b \in Buckets, task \in {"rebuild", "delete"} :
         mine' = [mine EXCEPT ![a].b = b] /\ Goto(a, task)
    BY <1>4 DEF EnterAdmin
  <2>2. b \in Nat  BY DEF Buckets
  <2>3. mine' \in [Actors -> WorkType]
    <3>1. mine' = [mine EXCEPT ![a] = [mine[a] EXCEPT !.b = b]]  BY <2>1
    <3>2. [mine[a] EXCEPT !.b = b] \in WorkType  BY <2>2, LeaseValues
    <3>3. mine \in [Actors -> WorkType]  BY DEF WorkType
    <3> HIDE DEF TypeOK
    <3> QED  BY <3>1, <3>2, <3>3
  <2>4. at' \in [Actors -> Phases]  BY <2>1 DEF Phases
  <2>5. s' \in [Actors -> [cov : 0 .. Last + 1, next : 0 .. Last, final : 0 .. Last]]
    BY <1>4 DEF EnterAdmin
  <2> QED  BY <1>4, <2>3, <2>4, <2>5 DEF EnterAdmin, WorkType
<1>5. CASE Pause(a)  BY <1>5 DEF Pause
<1>6. CASE Resume(a)
  <2> PICK c \in s[a].next + 1 .. Last + 1 :
         /\ state' = IF state.owner = a
                     THEN [state EXCEPT !.paused = FALSE, !.cov = c] ELSE state
         /\ s' = [s EXCEPT ![a].cov = c]
    BY <1>6 DEF Resume
  <2>1. c \in 0 .. Last + 1  OBVIOUS
  <2>2. state' \in StateType  BY <2>1, LeaseValues
  <2>3. s' \in [Actors -> ViewType]
    <3>1. s' = [s EXCEPT ![a] = [s[a] EXCEPT !.cov = c]]  OBVIOUS
    <3>2. [s[a] EXCEPT !.cov = c] \in ViewType  BY <2>1, LeaseValues
    <3>3. s \in [Actors -> ViewType]  BY LeaseValues
    <3> HIDE DEF TypeOK
    <3> QED  BY <3>1, <3>2, <3>3
  <2> QED  BY <1>6, <2>2, <2>3 DEF Resume, StateType, ViewType
<1>7. CASE Release(a)
  <2>1. state' \in StateType
    <3>1. \/ state' = state
          \/ state' = [state EXCEPT !.owner = Nobody, !.live = FALSE]
      BY <1>7 DEF Release
    <3> HIDE DEF TypeOK
    <3> QED  BY <3>1, LeaseValues
  <2>2. events' \in Nat  BY <1>7 DEF Release
  <2>3. mine' \in [Actors -> WorkType]  BY <1>7, LeaseValues DEF Release, WorkType
  <2>4. s' \in [Actors -> [cov : 0 .. Last + 1, next : 0 .. Last, final : 0 .. Last]]
    BY <1>7 DEF Release
  <2> QED  BY <1>7, <2>1, <2>2, <2>3, <2>4 DEF Release, StateType, WorkType
<1>8. CASE StopLoop(a)  BY <1>8 DEF StopLoop
<1>9. CASE WorkFails(a)  BY <1>9 DEF WorkFails, RolledBack
<1>10. CASE EndFails(a)  BY <1>10 DEF EndFails, RolledBack
<1>11. CASE Crash(a)  BY <1>11 DEF Crash
<1> QED  BY <1>1, <1>2, <1>3, <1>4, <1>5, <1>6, <1>7, <1>8, <1>9, <1>10, <1>11 DEF LeaseStep

LEMMA LeaseFrame ==
    ASSUME TypeOK, ViewInv, NEW a \in Actors, LeaseStep(a)
    PROVE  /\ ViewInv'
           /\ UNCHANGED <<log, job, stage, rows, snap, since, state.next, state.final>>
           /\ \A c \in Actors : at'[c] \in {"commit", "publish"} /\ state'.owner = c =>
                at[c] = at'[c] /\ state.owner = c /\ mine'[c] = mine[c]
<1> USE Bounds DEF TypeOK, ViewInv, Inside, Goto, Leave, Event, tables, NoView,
        NoWork, View
<1>1. CASE Acquire(a)  BY <1>1 DEF Acquire
<1>2. CASE EnterRefused(a)  BY <1>2 DEF EnterRefused
<1>3. CASE EnterCycle(a)  BY <1>3 DEF EnterCycle
<1>4. CASE EnterAdmin(a)
  <2> PICK b \in Buckets, task \in {"rebuild", "delete"} :
         mine' = [mine EXCEPT ![a].b = b] /\ Goto(a, task)
    BY <1>4 DEF EnterAdmin
  <2>1. s' = [s EXCEPT ![a] = View] /\ UNCHANGED <<tables, events>>
    BY <1>4 DEF EnterAdmin
  <2>2. ViewInv'  BY <2>1
  <2>3. \A c \in Actors : at'[c] \in {"commit", "publish"} => c # a  OBVIOUS
  <2>4. \A c \in Actors : c # a => at'[c] = at[c] /\ mine'[c] = mine[c]  OBVIOUS
  <2> QED  BY <2>1, <2>2, <2>3, <2>4
<1>5. CASE Pause(a)  BY <1>5 DEF Pause
<1>6. CASE Resume(a)
  <2> PICK c \in s[a].next + 1 .. Last + 1 :
         /\ state' = IF state.owner = a
                     THEN [state EXCEPT !.paused = FALSE, !.cov = c] ELSE state
         /\ s' = [s EXCEPT ![a].cov = c]
    BY <1>6 DEF Resume
  <2> QED  BY <1>6 DEF Resume
<1>7. CASE Release(a)
  <2>1. state' = state \/ state' = [state EXCEPT !.owner = Nobody, !.live = FALSE]
    BY <1>7 DEF Release
  <2>2. UNCHANGED <<state.next, state.final, state.cov>>
        /\ \A c \in Actors : state'.owner = c => state.owner = c
    <3>1. state \in StateType  BY LeaseValues
    <3> HIDE DEF TypeOK
    <3> QED  BY <2>1, <3>1 DEF StateType
  <2> QED  BY <1>7, <2>2 DEF Release
<1>8. CASE StopLoop(a)  BY <1>8 DEF StopLoop
<1>9. CASE WorkFails(a)  BY <1>9 DEF WorkFails, RolledBack
<1>10. CASE EndFails(a)  BY <1>10 DEF EndFails, RolledBack
<1>11. CASE Crash(a)  BY <1>11 DEF Crash
<1> QED  BY <1>1, <1>2, <1>3, <1>4, <1>5, <1>6, <1>7, <1>8, <1>9, <1>10, <1>11 DEF LeaseStep

LEMMA LeaseInv ==
    ASSUME IInv, NEW a \in Actors, LeaseStep(a)
    PROVE  IInv'
<1>1. TypeOK' /\ ViewInv'  BY LeaseType, LeaseFrame DEF IInv
<1>2. UNCHANGED <<log, job, stage, rows, snap, since, state.next, state.final>>
  BY LeaseFrame DEF IInv
<1>3. JobInv' /\ StageInv' /\ SinceInv'
  BY <1>2 DEF IInv, JobInv, StageInv, SinceInv
<1>4. RowsInv' /\ SnapshotIsCurrent'
  BY <1>2 DEF IInv, RowsInv, RollupsAgree, SnapshotIsCurrent
<1>5. WorkInv'
  <2> SUFFICES ASSUME NEW c \in Actors, at'[c] \in {"commit", "publish"}, state'.owner = c
      PROVE  LET m == mine[c] IN
             (/\ m.b \in Buckets /\ m.pass = job[m.b].pass
              /\ job[m.b].there /\ ~job[m.b].final /\ state.final <= m.b
              /\ at[c] = "commit" => m.page # {}
              /\ at[c] = "publish" => m.page = {}
              /\ \A l \in m.page : /\ BucketOf[l] = m.b /\ log[l] = "there"
                                   /\ job[m.b].cursor < l
              /\ \A l \in since[m.b] :
                   \/ l <= job[m.b].cursor
                   \/ l \in m.page
                   \/ m.page # {} /\ \A k \in m.page : k < l)'
    BY DEF WorkInv
  <2>1. at[c] = at'[c] /\ state.owner = c /\ mine'[c] = mine[c]
    BY LeaseFrame DEF IInv
  <2> QED  BY <1>2, <2>1 DEF IInv, WorkInv
<1> QED  BY <1>1, <1>3, <1>4, <1>5 DEF IInv

-----------------------------------------------------------------------------
(* A scan, with or without the lease.                                      *)

\* What a scan of bucket b does.
ScanOf(w, b) ==
    LET row == IF job[b].there THEN job[b] ELSE NewJob
        page == NextPage(b, row.cursor)
    IN  /\ job' = [job EXCEPT ![b] = row]
        /\ mine' = [mine EXCEPT ![w].b = b, ![w].pass = row.pass, ![w].page = page]
        /\ at' = [at EXCEPT ![w] = IF page = {} THEN "publish" ELSE "commit"]
        /\ since' = IF state.owner = w /\ row.cursor = 0
                    THEN [since EXCEPT ![b] = LogsOf(b) \cap There] ELSE since

\* The row of a job that is not there reads like a new one.
LEMMA ScanFacts ==
    ASSUME IInv, NEW w \in Actors, NEW b \in Choice(w), ScanOf(w, b)
    PROVE  /\ b \in Buckets /\ b <= state.next
           /\ job' = [job EXCEPT ![b].there = TRUE]
           /\ mine' = [mine EXCEPT ![w].b = b, ![w].pass = job[b].pass,
                                   ![w].page = NextPage(b, job[b].cursor)]
           /\ at' = [at EXCEPT ![w] = IF NextPage(b, job[b].cursor) = {} THEN "publish"
                                      ELSE "commit"]
           /\ since' = IF state.owner = w /\ job[b].cursor = 0
                       THEN [since EXCEPT ![b] = LogsOf(b) \cap There] ELSE since
<1>1. b \in Buckets  BY DEF Choice, New, Due
<1>2. b <= state.next
  BY DEF Choice, New, Due, IInv, ViewInv, JobInv
<1>3. job[b] \in [there : BOOLEAN, cursor : Logs \cup {0}, pass : Nat, final : BOOLEAN]
  BY <1>1 DEF IInv, TypeOK
<1>4. (IF job[b].there THEN job[b] ELSE NewJob) = [job[b] EXCEPT !.there = TRUE]
  <2>1. CASE job[b].there  BY <1>3, <2>1
  <2>2. CASE ~job[b].there
    <3>1. job[b] = NoJob  BY <1>1, <2>2 DEF IInv, JobInv
    <3> QED  BY <2>2, <3>1 DEF NewJob
  <2> QED  BY <1>3, <2>1, <2>2
<1>5. /\ (IF job[b].there THEN job[b] ELSE NewJob).cursor = job[b].cursor
      /\ (IF job[b].there THEN job[b] ELSE NewJob).pass = job[b].pass
  BY <1>3, <1>4
<1>6. job' = [job EXCEPT ![b] = [job[b] EXCEPT !.there = TRUE]]
  BY <1>4 DEF ScanOf
<1>7. job' = [job EXCEPT ![b].there = TRUE]  BY <1>6
<1> QED  BY <1>1, <1>2, <1>5, <1>7 DEF ScanOf

LEMMA ScanInv ==
    ASSUME IInv, NEW w \in Actors, at[w] = "scan", NEW b \in Choice(w), ScanOf(w, b),
           UNCHANGED <<log, state, stage, rows, snap, s, events>>
    PROVE  IInv'
<1> DEFINE page == NextPage(b, job[b].cursor)
<1> USE LogsAreNumbers, Bounds
<1>1. /\ b \in Buckets /\ b <= state.next
      /\ job' = [job EXCEPT ![b].there = TRUE]
      /\ mine' = [mine EXCEPT ![w].b = b, ![w].pass = job[b].pass, ![w].page = page]
      /\ at' = [at EXCEPT ![w] = IF page = {} THEN "publish" ELSE "commit"]
      /\ since' = IF state.owner = w /\ job[b].cursor = 0
                  THEN [since EXCEPT ![b] = LogsOf(b) \cap There] ELSE since
  BY ScanFacts
<1>2. TypeOK  BY DEF IInv
<1>3. job[b].cursor \in Nat /\ job[b].pass \in Nat  BY <1>1, <1>2 DEF TypeOK
<1> DEFINE left == {l \in LogsOf(b) \cap There : l > job[b].cursor}
<1>4. /\ page \subseteq left
      /\ page = {} => left = {}
      /\ \A l \in left : \A k \in page : l <= k => l \in page
  BY <1>1, <1>2, <1>3, PageIsPrefix
<1>5. page \subseteq Logs /\ LogsOf(b) \cap There \in SUBSET Logs
  BY <1>4 DEF LogsOf, There
<1> HIDE DEF page
<1>6. TypeOK'
  <2>1. job' \in [Buckets -> [there : BOOLEAN, cursor : Logs \cup {0}, pass : Nat,
                             final : BOOLEAN]]
    <3>1. job' = [job EXCEPT ![b] = [job[b] EXCEPT !.there = TRUE]]  BY <1>1
    <3>2. job \in [Buckets -> JobType]  BY <1>2 DEF TypeOK, JobType
    <3>3. job[b] \in JobType  BY <1>1, <3>2
    <3>4. [job[b] EXCEPT !.there = TRUE] \in JobType  BY ONLY <3>3 DEF JobType
    <3> QED  BY <3>1, <3>2, <3>4 DEF JobType
  <2>2. at' \in [Actors -> Phases]  BY <1>1, <1>2 DEF TypeOK, Phases
  <2>3. mine' \in [Actors -> WorkType]
    <3>1. mine' = [mine EXCEPT ![w] = [mine[w] EXCEPT !.b = b, !.pass = job[b].pass,
                                                      !.page = page]]
      BY <1>1
    <3>2. mine \in [Actors -> WorkType]  BY <1>2, LeaseValues
    <3>3. b \in Nat  BY <1>1 DEF Buckets
    <3>4. [mine[w] EXCEPT !.b = b, !.pass = job[b].pass, !.page = page] \in WorkType
      BY <1>3, <1>5, <3>2, <3>3 DEF WorkType
    <3> QED  BY <3>1, <3>2, <3>4
  <2>4. since' \in [Buckets -> SUBSET Logs]  BY <1>1, <1>2, <1>5 DEF TypeOK
  <2> QED  BY <1>2, <2>1, <2>2, <2>3, <2>4 DEF TypeOK, WorkType
<1>7. ViewInv'
  BY <1>1, <1>2 DEF IInv, ViewInv, Inside, TypeOK
<1>8. \A c \in Buckets : /\ job'[c].cursor = job[c].cursor /\ job'[c].pass = job[c].pass
                         /\ job'[c].final = job[c].final
                         /\ c # b => job'[c] = job[c]
                         /\ job'[b].there
                         /\ job[c].there => job'[c].there
  BY <1>1, <1>2 DEF TypeOK
<1>9. JobInv'
  BY <1>1, <1>8 DEF IInv, JobInv
<1>10. StageInv'
  <2>1. \A l \in Logs : BucketOf[l] \in Buckets  OBVIOUS
  <2> QED  BY <1>8, <2>1 DEF IInv, StageInv
<1>11. SinceInv'
  <2>1. ASSUME NEW c \in Buckets, NEW l \in since'[c]
        PROVE  /\ BucketOf[l] = c
               /\ state.final <= c => log[l] = "there"
               /\ l <= job[c].cursor => stage[l] = 1
    <3>1. CASE since' = since  BY <2>1, <3>1 DEF IInv, SinceInv
    <3>2. CASE since' # since
      <4>1. job[b].cursor = 0 /\ since' = [since EXCEPT ![b] = LogsOf(b) \cap There]
        BY <1>1, <3>2
      <4>2. CASE c # b  BY <1>2, <2>1, <4>1, <4>2 DEF IInv, SinceInv, TypeOK
      <4>3. CASE c = b
        <5>1. l \in LogsOf(b) \cap There  BY <1>1, <1>2, <2>1, <4>1, <4>3 DEF TypeOK
        <5>2. l \in Logs /\ l > 0  BY <5>1 DEF LogsOf
        <5> QED  BY <4>1, <4>3, <5>1, <5>2 DEF LogsOf, There
      <4> QED  BY <4>2, <4>3
    <3> QED  BY <3>1, <3>2
  <2> QED  BY <1>8, <2>1 DEF SinceInv
<1>12. RowsInv' /\ SnapshotIsCurrent'
  BY DEF IInv, RowsInv, RollupsAgree, SnapshotIsCurrent
<1>13. WorkInv'
  <2> SUFFICES ASSUME NEW c \in Actors, at'[c] \in {"commit", "publish"}, state'.owner = c
      PROVE  LET m == mine[c] IN
             (/\ m.b \in Buckets /\ m.pass = job[m.b].pass
              /\ job[m.b].there /\ ~job[m.b].final /\ state.final <= m.b
              /\ at[c] = "commit" => m.page # {}
              /\ at[c] = "publish" => m.page = {}
              /\ \A l \in m.page : /\ BucketOf[l] = m.b /\ log[l] = "there"
                                   /\ job[m.b].cursor < l
              /\ \A l \in since[m.b] :
                   \/ l <= job[m.b].cursor
                   \/ l \in m.page
                   \/ m.page # {} /\ \A k \in m.page : k < l)'
    BY DEF WorkInv
  <2>1. CASE c # w
    <3>1. mine'[c] = mine[c] /\ at'[c] = at[c] /\ since' = since
      BY <1>1, <1>2, <2>1 DEF TypeOK
    <3> QED  BY <1>8, <2>1, <3>1 DEF IInv, WorkInv
  <2>2. CASE c = w
    <3>1. /\ mine'[w].b = b /\ mine'[w].pass = job[b].pass /\ mine'[w].page = page
          /\ at'[w] = IF page = {} THEN "publish" ELSE "commit"
      BY <1>1, <1>2 DEF TypeOK
    <3>2. s[w].next = state.next /\ s[w].final = state.final
      BY <2>2 DEF IInv, ViewInv, Inside
    <3>3. ~job[b].final /\ state.final <= b
      <4>1. state.final \in Nat /\ state.next \in Nat /\ b \in Nat
        BY <1>1, <1>2 DEF TypeOK, Buckets
      <4>2. state.final <= state.next /\ (job[b].final => b < state.next)
        BY <1>1 DEF IInv, JobInv
      <4> QED  BY <3>2, <4>1, <4>2 DEF Choice, New, Due
    <3>4. \A l \in page : BucketOf[l] = b /\ log[l] = "there" /\ job[b].cursor < l
      BY <1>3, <1>4 DEF LogsOf, There
    <3>5. ASSUME NEW l \in since'[b]
          PROVE  l \in Logs /\ BucketOf[l] = b /\ log[l] = "there"
      <4>1. CASE since' = since
        BY <1>1, <1>2, <3>3, <3>5, <4>1 DEF IInv, SinceInv, TypeOK
      <4>2. CASE since' = [since EXCEPT ![b] = LogsOf(b) \cap There]
        BY <1>1, <1>2, <3>5, <4>2 DEF TypeOK, LogsOf, There
      <4> QED  BY <1>1, <4>1, <4>2
    <3>6. ASSUME NEW l \in since'[b]
          PROVE  \/ l <= job[b].cursor
                 \/ l \in page
                 \/ page # {} /\ \A k \in page : k < l
      <4>1. CASE l <= job[b].cursor  BY <4>1
      <4>2. CASE ~(l <= job[b].cursor)
        <5>1. l \in left /\ l \in Nat  BY <1>3, <3>5, <3>6, <4>2 DEF LogsOf, There
        <5>2. page # {}  BY <1>4, <5>1
        <5>3. \A k \in page : k \in Nat  BY <1>5
        <5> QED  BY <1>4, <5>1, <5>2, <5>3
      <4> QED  BY <4>1, <4>2
    <3>7. at'[w] = "commit" => page # {}  BY <3>1
    <3>8. at'[w] = "publish" => page = {}  BY <3>1
    <3>9. job'[b].there /\ ~job'[b].final /\ job'[b].cursor = job[b].cursor
          /\ job'[b].pass = job[b].pass
      BY <1>1, <1>8, <3>3
    <3> QED  BY <1>1, <2>2, <3>1, <3>3, <3>4, <3>6, <3>7, <3>8, <3>9
  <2> QED  BY <2>1, <2>2
<1> QED  BY <1>6, <1>7, <1>9, <1>10, <1>11, <1>12, <1>13 DEF IInv

-----------------------------------------------------------------------------
(* The steps of the holder.                                                *)

\* A page of the stage: it was not there before, and after it the stage has
\* all of the pass up to the new cursor.
LEMMA CommitInv ==
    ASSUME IInv, NEW w \in Workers, CommitPage(w)
    PROVE  IInv'
<1> DEFINE b == mine[w].b
           page == mine[w].page
<1>1. w \in Actors  BY Bounds
<1>2. TypeOK  BY DEF IInv
<1>3. at[w] = "commit" /\ state.owner = w  BY DEF CommitPage, Fence
<1>4. /\ b \in Buckets /\ job[b].there /\ ~job[b].final /\ state.final <= b
      /\ page # {} /\ page \in SUBSET Logs
      /\ \A l \in page : BucketOf[l] = b /\ log[l] = "there" /\ job[b].cursor < l
      /\ \A l \in since[b] : \/ l <= job[b].cursor
                             \/ l \in page
                             \/ \A k \in page : k < l
  BY <1>1, <1>2, <1>3 DEF IInv, WorkInv, TypeOK
<1> DEFINE top == Max(page)
<1>5. top \in page /\ \A l \in page : l <= top  BY <1>4, MaxOfPage
<1>6. /\ stage' = [l \in Logs |-> stage[l] + (IF l \in page THEN 1 ELSE 0)]
      /\ job' = [job EXCEPT ![b].cursor = top]
      /\ mine' = [mine EXCEPT ![w] = [NoWork EXCEPT !.odd = ~mine[w].odd]]
      /\ at' = [at EXCEPT ![w] = "scan"] \/ at' = [at EXCEPT ![w] = "release"]
      /\ events' \in Nat
      /\ UNCHANGED <<log, state, rows, snap, s, since>>
  BY <1>2 DEF CommitPage, Committed, Goto, Event, TypeOK
<1> HIDE DEF top, page, b
<1>7. job[b].cursor \in Nat /\ top \in Nat /\ job[b].cursor < top
  <2>1. top \in Logs  BY <1>4, <1>5
  <2> QED  BY <1>2, <1>4, <1>5, <2>1, LogsAreNumbers DEF TypeOK
<1>8. /\ job'[b].cursor = top /\ job'[b].there /\ ~job'[b].final /\ job'[b].pass = job[b].pass
      /\ \A c \in Buckets : /\ c # b => job'[c] = job[c]
                            /\ job'[c].pass = job[c].pass /\ job'[c].final = job[c].final
                            /\ job'[c].there = job[c].there
  BY <1>2, <1>4, <1>6 DEF TypeOK
<1>9. TypeOK'
  <2>1. job' \in [Buckets -> JobType]
    <3>1. job \in [Buckets -> JobType]  BY <1>2 DEF TypeOK, JobType
    <3>2. [job[b] EXCEPT !.cursor = top] \in JobType  BY <1>4, <1>5, <3>1 DEF JobType
    <3>3. job' = [job EXCEPT ![b] = [job[b] EXCEPT !.cursor = top]]  BY <1>6
    <3> QED  BY <3>1, <3>2, <3>3
  <2>2. mine' \in [Actors -> WorkType]
    <3>1. mine \in [Actors -> WorkType] /\ NoWork \in WorkType  BY <1>2, LeaseValues
    <3>2. [NoWork EXCEPT !.odd = ~mine[w].odd] \in WorkType
      BY <1>1, <3>1 DEF WorkType
    <3> QED  BY <1>6, <3>1, <3>2
  <2>3. at' \in [Actors -> Phases]  BY <1>1, <1>2, <1>6 DEF TypeOK, Phases
  <2>4. stage' \in [Logs -> Nat]  BY <1>2, <1>6 DEF TypeOK
  <2> QED  BY <1>2, <1>6, <2>1, <2>2, <2>3, <2>4 DEF TypeOK, JobType, WorkType
<1>10. ViewInv'
  BY <1>1, <1>2, <1>3, <1>6 DEF IInv, ViewInv, Inside, TypeOK
<1>11. JobInv'
  BY <1>4, <1>6, <1>8 DEF IInv, JobInv
<1>12. ASSUME NEW l \in Logs
       PROVE  /\ stage'[l] \in {0, 1}
              /\ stage'[l] = 1 => stage[l] = 1 \/ l \in page
              /\ l \in page \/ stage[l] = 1 => stage'[l] = 1
  <2>1. stage[l] \in {0, 1}  BY <1>12 DEF IInv, StageInv
  <2>2. l \in page => stage[l] = 0
    <3> SUFFICES ASSUME l \in page, stage[l] = 1 PROVE FALSE  BY <2>1
    <3>1. l <= job[b].cursor  BY <1>4 DEF IInv, StageInv
    <3> QED  BY <1>4, <1>7, <3>1, LogsAreNumbers
  <2> QED  BY <1>6, <2>1, <2>2
<1>13. StageInv'
  <2> SUFFICES ASSUME NEW l \in Logs, stage'[l] = 1
      PROVE  /\ l <= job'[BucketOf[l]].cursor
             /\ log[l] = "there" /\ state.final <= BucketOf[l] /\ ~job'[BucketOf[l]].final
    BY <1>6, <1>12 DEF StageInv
  <2>1. CASE l \in page
    BY <1>4, <1>5, <1>8, <2>1
  <2>2. CASE stage[l] = 1
    <3>1. /\ l <= job[BucketOf[l]].cursor /\ log[l] = "there"
          /\ state.final <= BucketOf[l] /\ ~job[BucketOf[l]].final
      BY <2>2 DEF IInv, StageInv
    <3>2. l \in Nat /\ BucketOf[l] \in Buckets  BY LogsAreNumbers
    <3>3. CASE BucketOf[l] = b  BY <1>7, <1>8, <3>1, <3>2, <3>3
    <3>4. CASE BucketOf[l] # b  BY <1>8, <3>1, <3>2, <3>4
    <3> QED  BY <3>3, <3>4
  <2> QED  BY <1>12, <2>1, <2>2
<1>14. SinceInv'
  <2> SUFFICES ASSUME NEW c \in Buckets, NEW l \in since[c]
      PROVE  /\ BucketOf[l] = c
             /\ state.final <= c => log[l] = "there"
             /\ l <= job'[c].cursor => stage'[l] = 1
    BY <1>6 DEF SinceInv
  <2>1. /\ BucketOf[l] = c
        /\ state.final <= c => log[l] = "there"
        /\ l <= job[c].cursor => stage[l] = 1
    BY DEF IInv, SinceInv
  <2>2. l \in Logs /\ l \in Nat  BY <1>2, LogsAreNumbers DEF TypeOK
  <2>3. CASE c # b  BY <1>8, <1>12, <2>1, <2>2, <2>3
  <2>4. CASE c = b
    <3>1. l <= top => l <= job[b].cursor \/ l \in page
      BY <1>4, <1>5, <1>7, <2>2, <2>4
    <3> QED  BY <1>8, <1>12, <2>1, <2>2, <2>4, <3>1
  <2> QED  BY <2>3, <2>4
<1>15. RowsInv' /\ SnapshotIsCurrent'
  BY <1>6 DEF IInv, RowsInv, RollupsAgree, SnapshotIsCurrent
<1>16. WorkInv'
  <2>1. \A a \in Actors : state'.owner = a => at'[a] \in {"scan", "release"}
    BY <1>1, <1>2, <1>3, <1>6 DEF TypeOK
  <2> QED  BY <2>1 DEF WorkInv
<1> QED  BY <1>9, <1>10, <1>11, <1>13, <1>14, <1>15, <1>16 DEF IInv

\* The pass that ends has every log it has to count in the stage.
LEMMA PassComplete ==
    ASSUME IInv, NEW w \in Workers, at[w] = "publish", state.owner = w
    PROVE  LET b == mine[w].b IN
           /\ b \in Buckets /\ job[b].there /\ ~job[b].final /\ state.final <= b
           /\ mine[w].pass = job[b].pass
           /\ \A l \in since[b] : l \in Logs /\ stage[l] = 1
<1> DEFINE b == mine[w].b
<1>1. /\ b \in Buckets /\ job[b].there /\ ~job[b].final /\ state.final <= b
      /\ mine[w].pass = job[b].pass
      /\ \A l \in since[b] : l <= job[b].cursor
  BY Bounds DEF IInv, WorkInv
<1>2. \A l \in since[b] : l \in Logs  BY <1>1 DEF IInv, TypeOK
<1>3. \A l \in since[b] : stage[l] = 1  BY <1>1 DEF IInv, SinceInv
<1> QED  BY <1>1, <1>2, <1>3

\* After a publication all resolutions say of the bucket what the stage said.
LEMMA PublishedRows ==
    ASSUME IInv, NEW w \in Workers, PublishBucket(w)
    PROVE  LET own == LogsOf(mine[w].b) IN
           /\ \A r \in Resolutions, l \in Logs :
                rows'[r][l] = IF l \in own THEN stage[l] ELSE rows[r][l]
           /\ rows' \in [Resolutions -> [Logs -> Int]]
           /\ RowsInv'
<1> DEFINE own == LogsOf(mine[w].b)
<1>1. rows \in [Resolutions -> [Logs -> Int]] /\ stage \in [Logs -> Nat]
  BY DEF IInv, TypeOK
<1>2. rows' = [r \in Resolutions |-> [l \in Logs |->
                  CASE l \notin own -> rows[r][l]
                    [] l \in own /\ r = Fine -> stage[l]
                    [] OTHER -> Corrected(r, l)]]
  BY DEF PublishBucket
<1>3. \A r \in Rollups : rows[r] = rows[Fine]  BY DEF IInv, RowsInv, RollupsAgree
<1>4. Fine \in Resolutions /\ \A r \in Resolutions : r = Fine \/ r \in Rollups
  BY DEF Resolutions
<1>5. ASSUME NEW r \in Resolutions, NEW l \in Logs
      PROVE  rows'[r][l] = IF l \in own THEN stage[l] ELSE rows[r][l]
  <2>1. r # Fine => Corrected(r, l) = stage[l]
    BY <1>1, <1>3, <1>4 DEF Corrected
  <2> HIDE DEF own
  <2> QED  BY <1>2, <2>1
<1>6. rows' = [r \in Resolutions |-> [l \in Logs |-> rows'[r][l]]]  BY <1>2
<1>7. rows' \in [Resolutions -> [Logs -> Int]]
  <2>1. \A r \in Resolutions, l \in Logs : rows'[r][l] \in Int
    BY <1>1, <1>5
  <2> QED  BY <1>6, <2>1
<1>8. RollupsAgree'
  <2> SUFFICES ASSUME NEW r \in Rollups PROVE rows'[r] = rows'[Fine]
    BY DEF RollupsAgree, Fine
  <2>1. r \in Resolutions  BY DEF Resolutions
  <2>2. \A l \in Logs : rows'[r][l] = rows'[Fine][l]
    BY <1>3, <1>4, <1>5, <2>1
  <2>3. rows'[r] \in [Logs -> Int] /\ rows'[Fine] \in [Logs -> Int]
    BY <1>4, <1>7, <2>1
  <2> QED  BY <2>2, <2>3
<1>9. \A r \in Resolutions, l \in Logs : rows'[r][l] \in {0, 1}
  BY <1>5 DEF IInv, RowsInv, StageInv
<1>10. Resolutions' = Resolutions  BY DEF Resolutions, Fine
<1> QED  BY <1>5, <1>7, <1>8, <1>9, <1>10 DEF RowsInv

\* The job of bucket b starts its pass p, or is closed.
PassIs(b, p) ==
    job' = [job EXCEPT ![b] = [@ EXCEPT !.pass = p, !.cursor = 0, !.final = p >= Passes]]

LEMMA PassEnds ==
    ASSUME TypeOK, NEW b \in Buckets, NEW p, PassIs(b, p)
    PROVE  /\ job'[b].there = job[b].there /\ job'[b].cursor = 0
           /\ job'[b].pass = p /\ (job'[b].final <=> p >= Passes)
           /\ \A c \in Buckets : c # b => job'[c] = job[c]
<1>1. job \in [Buckets -> [there : BOOLEAN, cursor : Logs \cup {0}, pass : Nat, final : BOOLEAN]]
  BY DEF TypeOK
<1>2. job[b] \in [there : BOOLEAN, cursor : Logs \cup {0}, pass : Nat, final : BOOLEAN]
  BY <1>1
<1>3. job'[b] = [job[b] EXCEPT !.pass = p, !.cursor = 0, !.final = p >= Passes]
  BY <1>1 DEF PassIs
<1>4. \A c \in Buckets : c # b => job'[c] = job[c]
  BY <1>1 DEF PassIs
<1> QED  BY ONLY <1>2, <1>3, <1>4

LEMMA PublishInv ==
    ASSUME IInv, NEW w \in Workers, PublishBucket(w)
    PROVE  IInv'
<1> DEFINE b == mine[w].b
           own == LogsOf(b)
           next == b = s[w].next
<1>1. w \in Actors  BY Bounds
<1>2. TypeOK  BY DEF IInv
<1>3. at[w] = "publish" /\ state.owner = w  BY DEF PublishBucket, Fence
<1>4. /\ b \in Buckets /\ job[b].there /\ ~job[b].final /\ state.final <= b
      /\ mine[w].pass = job[b].pass
  BY <1>3, PassComplete
<1>5. s[w].next = state.next /\ s[w].final = state.final /\ b <= state.next
  BY <1>1, <1>3, <1>4 DEF IInv, ViewInv, JobInv, Inside
<1>6. /\ stage' = [l \in Logs |-> IF l \in own THEN 0 ELSE stage[l]]
      /\ job' = [job EXCEPT ![b] = [@ EXCEPT !.pass = mine[w].pass + 1, !.cursor = 0,
                                             !.final = mine[w].pass + 1 >= Passes]]
      /\ mine' = [mine EXCEPT ![w] = [NoWork EXCEPT !.odd = ~mine[w].odd]]
      /\ at' = [at EXCEPT ![w] = "scan"] \/ at' = [at EXCEPT ![w] = "release"]
      /\ state' = IF next THEN [state EXCEPT !.next = b + 1] ELSE state
      /\ s' = IF next /\ at'[w] = "scan" THEN [s EXCEPT ![w].next = b + 1] ELSE s
      /\ events' \in Nat
      /\ UNCHANGED <<log, since>>
  BY <1>2 DEF PublishBucket, Committed, Goto, Event, TypeOK
<1>7. snap' = [snap EXCEPT !.dirty = @ \/ Dirtied(w, b),
                !.there = @ \/ \E l \in own : stage[l] # 0 \/ rows[Fine][l] # 0]
  BY DEF PublishBucket
<1> HIDE DEF b
<1>8. b \in Nat /\ b + 1 \in 0 .. Last /\ mine[w].pass + 1 \in Nat
  <2>1. mine[w].pass \in Nat  BY <1>1, <1>2 DEF TypeOK
  <2> QED  BY <1>4, <2>1, Bounds DEF Buckets
<1>9. /\ job'[b].there /\ job'[b].cursor = 0 /\ job'[b].pass = job[b].pass + 1
      /\ job'[b].final <=> job[b].pass + 1 >= Passes
      /\ \A c \in Buckets : c # b => job'[c] = job[c]
  <2>1. PassIs(b, mine[w].pass + 1)
    BY <1>6 DEF PassIs
  <2>2. b \in Buckets /\ job[b].there /\ mine[w].pass = job[b].pass  BY <1>4
  <2>3. /\ job'[b].there = job[b].there /\ job'[b].cursor = 0 /\ job'[b].pass = mine[w].pass + 1
        /\ (job'[b].final <=> mine[w].pass + 1 >= Passes)
        /\ \A c \in Buckets : c # b => job'[c] = job[c]
    BY ONLY <1>2, <2>1, <2>2, PassEnds
  <2> QED  BY ONLY <2>2, <2>3
<1>10. /\ state' \in StateType /\ state'.owner = w /\ state'.final = state.final
       /\ state'.cov = state.cov
       /\ state'.next = IF next THEN b + 1 ELSE state.next
  <2>1. state \in StateType  BY <1>2, LeaseValues
  <2> QED  BY <1>3, <1>6, <1>8, <2>1 DEF StateType
<1>11. state.next \in Nat /\ state.final \in Nat  BY <1>2 DEF TypeOK
<1>12. snap' \in [there : BOOLEAN, dirty : BOOLEAN, asOf : 0 .. Last, cov : 0 .. Last + 1,
                  shown : [Logs -> Int]]
  <2>1. snap \in [there : BOOLEAN, dirty : BOOLEAN, asOf : 0 .. Last, cov : 0 .. Last + 1,
                  shown : [Logs -> Int]]
    BY <1>2 DEF TypeOK
  <2>2. (snap.dirty \/ Dirtied(w, b)) \in BOOLEAN
        /\ (snap.there \/ \E l \in own : stage[l] # 0 \/ rows[Fine][l] # 0) \in BOOLEAN
    OBVIOUS
  <2> DEFINE d == snap.dirty \/ Dirtied(w, b)
             t == snap.there \/ \E l \in own : stage[l] # 0 \/ rows[Fine][l] # 0
  <2>3. snap' = [snap EXCEPT !.dirty = d, !.there = t]  BY <1>7
  <2> HIDE DEF d, t
  <2>4. d \in BOOLEAN /\ t \in BOOLEAN  BY <2>2 DEF d, t
  <2> QED  BY <2>1, <2>3, <2>4
<1>13. TypeOK'
  <2>1. job' \in [Buckets -> JobType]
    <3> DEFINE f == mine[w].pass + 1 >= Passes
               row == [job[b] EXCEPT !.pass = mine[w].pass + 1, !.cursor = 0, !.final = f]
    <3>1. job \in [Buckets -> JobType]  BY <1>2 DEF TypeOK, JobType
    <3>2. f \in BOOLEAN  OBVIOUS
    <3>3. job' = [job EXCEPT ![b] = row]  BY <1>6
    <3> HIDE DEF f
    <3>4. row \in JobType  BY <1>4, <1>8, <3>1, <3>2 DEF JobType
    <3> HIDE DEF row
    <3> QED  BY <3>1, <3>3, <3>4
  <2>2. mine' \in [Actors -> WorkType]
    <3>1. mine \in [Actors -> WorkType] /\ NoWork \in WorkType  BY <1>2, LeaseValues
    <3>2. [NoWork EXCEPT !.odd = ~mine[w].odd] \in WorkType
      BY <1>1, <3>1 DEF WorkType
    <3> QED  BY <1>6, <3>1, <3>2
  <2>3. at' \in [Actors -> Phases]  BY <1>1, <1>2, <1>6 DEF TypeOK, Phases
  <2>4. stage' \in [Logs -> Nat]  BY <1>2, <1>6 DEF TypeOK
  <2>5. s' \in [Actors -> ViewType]
    <3>1. s \in [Actors -> ViewType]  BY <1>2, LeaseValues
    <3>2. [s[w] EXCEPT !.next = b + 1] \in ViewType  BY <1>1, <1>8, <3>1 DEF ViewType
    <3>3. s' = s \/ s' = [s EXCEPT ![w] = [s[w] EXCEPT !.next = b + 1]]  BY <1>6
    <3> QED  BY <3>1, <3>2, <3>3
  <2>6. rows' \in [Resolutions -> [Logs -> Int]]  BY PublishedRows
  <2>7. log' \in [Logs -> {"unwritten", "there", "deleted"}]
        /\ since' \in [Buckets -> SUBSET Logs]
    BY <1>2, <1>6 DEF TypeOK
  <2> QED  BY <1>6, <1>10, <1>12, <2>1, <2>2, <2>3, <2>4, <2>5, <2>6, <2>7
           DEF TypeOK, JobType, WorkType, StateType, ViewType, Resolutions, Fine
<1>14. ViewInv'
  <2>1. \A a \in Actors : s[a] \in ViewType  BY <1>2, LeaseValues
  <2>2. ASSUME NEW a \in Actors
        PROVE  s'[a].next <= state'.next
    <3>1. s[a].next <= state.next /\ s[a].next \in Nat
      BY <2>1 DEF IInv, ViewInv, ViewType
    <3>2. s'[a].next = s[a].next \/ (next /\ s'[a].next = b + 1)
      <4>1. s \in [Actors -> ViewType]  BY <1>2, LeaseValues
      <4>2. s' = s \/ (next /\ s' = [s EXCEPT ![w].next = b + 1])  BY <1>6
      <4> HIDE DEF next
      <4>3. CASE s' = s  BY <4>1, <4>3
      <4>4. CASE next /\ s' = [s EXCEPT ![w].next = b + 1]
        <5>1. CASE a = w  BY <1>1, <4>1, <4>4, <5>1 DEF ViewType
        <5>2. CASE a # w
          <6>1. s'[a] = s[a]  BY <4>1, <4>4, <5>2
          <6> QED  BY <6>1
        <5> QED  BY <5>1, <5>2
      <4> QED  BY <4>2, <4>3, <4>4
    <3>3. s[a].next <= state'.next  BY <1>5, <1>8, <1>10, <1>11, <3>1
    <3>4. CASE s'[a].next = s[a].next  BY <3>3, <3>4
    <3>5. CASE next /\ s'[a].next = b + 1  BY <1>8, <1>10, <3>5
    <3> QED  BY <3>2, <3>4, <3>5
  <2>3. ASSUME NEW a \in Actors, at'[a] \in Inside, state'.owner = a
        PROVE  s'[a].next = state'.next /\ s'[a].final = state'.final /\ s'[a].cov = state'.cov
    <3>1. a = w /\ at'[w] = "scan"  BY <1>1, <1>2, <1>6, <1>10, <2>3 DEF Inside, TypeOK
    <3>2. s[w].next = state.next /\ s[w].final = state.final /\ s[w].cov = state.cov
      BY <1>1, <1>3 DEF IInv, ViewInv, Inside
    <3>3. s \in [Actors -> ViewType]  BY <1>2, LeaseValues
    <3>4. /\ s'[w].final = s[w].final /\ s'[w].cov = s[w].cov
          /\ s'[w].next = IF next THEN b + 1 ELSE s[w].next
      BY <1>1, <1>6, <3>1, <3>3 DEF ViewType
    <3> QED  BY <1>10, <3>1, <3>2, <3>4
  <2> QED  BY <2>2, <2>3 DEF ViewInv
<1>15. JobInv'
  <2>1. state'.final <= state'.next
    BY <1>5, <1>8, <1>10, <1>11 DEF IInv, JobInv
  <2>2. ASSUME NEW c \in Buckets
        PROVE  /\ ~job'[c].there => job'[c] = NoJob
               /\ job'[c].there => c <= state'.next
               /\ job'[c].final => job'[c].there /\ job'[c].pass >= Passes /\ c < state'.next
    <3>1. c \in Nat  BY DEF Buckets
    <3>2. CASE c = b
      BY <1>5, <1>8, <1>9, <1>10, <1>11, <3>2
    <3>3. CASE c # b
      <4>1. /\ ~job[c].there => job[c] = NoJob
            /\ job[c].there => c <= state.next
            /\ job[c].final => job[c].there /\ job[c].pass >= Passes /\ c < state.next
        BY DEF IInv, JobInv
      <4> QED  BY <1>5, <1>8, <1>9, <1>10, <1>11, <3>1, <3>3, <4>1
    <3> QED  BY <3>2, <3>3
  <2> QED  BY <2>1, <2>2 DEF JobInv
<1>16. StageInv'
  <2> SUFFICES ASSUME NEW l \in Logs
      PROVE  /\ stage'[l] \in {0, 1}
             /\ stage'[l] = 1 => /\ l <= job'[BucketOf[l]].cursor
                                 /\ log[l] = "there"
                                 /\ state.final <= BucketOf[l]
                                 /\ ~job'[BucketOf[l]].final
    BY <1>6, <1>10 DEF StageInv
  <2>1. BucketOf[l] \in Buckets  BY LogsAreNumbers
  <2>2. CASE l \in own  BY <1>6, <2>2
  <2>3. CASE l \notin own
    <3>1. BucketOf[l] # b /\ stage'[l] = stage[l]  BY <1>6, <2>3 DEF LogsOf
    <3> QED  BY <1>9, <2>1, <3>1 DEF IInv, StageInv
  <2> QED  BY <2>2, <2>3
<1>17. SinceInv'
  <2> SUFFICES ASSUME NEW c \in Buckets, NEW l \in since[c]
      PROVE  /\ BucketOf[l] = c
             /\ state.final <= c => log[l] = "there"
             /\ l <= job'[c].cursor => stage'[l] = 1
    BY <1>6, <1>10 DEF SinceInv
  <2>1. /\ BucketOf[l] = c
        /\ state.final <= c => log[l] = "there"
        /\ l <= job[c].cursor => stage[l] = 1
    BY DEF IInv, SinceInv
  <2>2. l \in Logs /\ l \in Nat /\ l > 0  BY <1>2, LogsAreNumbers DEF TypeOK
  <2>3. CASE c = b  BY <1>9, <2>1, <2>2, <2>3
  <2>4. CASE c # b
    <3>1. l \notin own  BY <2>1, <2>4 DEF LogsOf
    <3> QED  BY <1>6, <1>9, <2>1, <2>2, <2>4, <3>1
  <2> QED  BY <2>3, <2>4
<1>18. WorkInv'
  <2>1. \A a \in Actors : state'.owner = a => at'[a] \in {"scan", "release"}
    BY <1>1, <1>2, <1>6, <1>10 DEF TypeOK
  <2> QED  BY <2>1 DEF WorkInv
<1>19. SnapshotIsCurrent'
  <2> SUFFICES ASSUME snap'.there, ~snap'.dirty
      PROVE  /\ snap'.asOf = state'.next
             /\ \A l \in Logs : snap'.shown[l] =
                  IF snap'.cov <= BucketOf[l] /\ BucketOf[l] < snap'.asOf
                  THEN rows'[Fine][l] ELSE 0
    BY DEF SnapshotIsCurrent, Fine
  <2> DEFINE counts == \E l \in own : stage[l] # 0 \/ rows[Fine][l] # 0
  <2>1. snap.there \in BOOLEAN /\ snap.dirty \in BOOLEAN  BY <1>2 DEF TypeOK
  <2>2. snap'.dirty = (snap.dirty \/ Dirtied(w, b)) /\ snap'.there = (snap.there \/ counts)
        /\ snap'.asOf = snap.asOf /\ snap'.cov = snap.cov /\ snap'.shown = snap.shown
    BY <1>2, <1>7 DEF TypeOK
  <2>3. ~snap.dirty /\ ~Dirtied(w, b)  BY <2>2
  <2>4. ~counts /\ ~(next /\ snap.there /\ snap.asOf < b + 1)
    BY <2>3 DEF Dirtied
  <2>5. snap.there  BY <2>2, <2>4
  <2>6. /\ snap.asOf = state.next
        /\ \A l \in Logs : snap.shown[l] =
             IF snap.cov <= BucketOf[l] /\ BucketOf[l] < snap.asOf THEN rows[Fine][l] ELSE 0
    BY <2>3, <2>5 DEF IInv, SnapshotIsCurrent
  <2>7. ~next  BY <1>5, <1>8, <2>4, <2>5, <2>6
  <2>8. \A l \in Logs : rows'[Fine][l] = rows[Fine][l]
    <3>1. Fine \in Resolutions  BY DEF Resolutions
    <3>2. \A l \in Logs : rows'[Fine][l] = IF l \in own THEN stage[l] ELSE rows[Fine][l]
      BY <3>1, PublishedRows DEF b
    <3> QED  BY <2>4, <3>2
  <2> QED  BY <1>10, <2>2, <2>6, <2>7, <2>8
<1>20. RowsInv'  BY PublishedRows
<1> QED  BY <1>13, <1>14, <1>15, <1>16, <1>17, <1>18, <1>19, <1>20 DEF IInv

\* The seal moves over closed jobs only, which have nothing in the stage.
LEMMA AdvanceInv ==
    ASSUME IInv, NEW w \in Workers, Advance(w)
    PROVE  IInv'
<1>1. w \in Actors /\ at[w] = "advance"  BY Bounds DEF Advance
<1>2. TypeOK  BY DEF IInv
<1>3. PICK n \in s[w].final .. Last :
        /\ ClosedUpTo(s[w].final, n)
        /\ n # s[w].final => Fence(w)
        /\ state' = IF n # s[w].final THEN [state EXCEPT !.final = n] ELSE state
        /\ s' = [s EXCEPT ![w].final = n]
  BY DEF Advance
<1>4. /\ at' = [at EXCEPT ![w] = "snapshots"]
      /\ UNCHANGED <<log, job, stage, rows, snap, mine, events, since>>
  BY DEF Advance, Goto
<1>5. s \in [Actors -> ViewType] /\ state \in StateType  BY <1>2, LeaseValues
<1>6. s[w].final \in 0 .. Last /\ n \in 0 .. Last  BY <1>1, <1>5, Bounds DEF ViewType
<1>7. CASE n = s[w].final
  <2>1. s' = s /\ state' = state  BY <1>1, <1>3, <1>5, <1>7 DEF ViewType
  <2>2. TypeOK'  BY <1>1, <1>2, <1>4, <2>1 DEF TypeOK, Phases
  <2>3. ViewInv'  BY <1>1, <1>2, <1>4, <2>1 DEF IInv, ViewInv, Inside, TypeOK
  <2>4. JobInv' /\ StageInv' /\ SinceInv' /\ RowsInv' /\ SnapshotIsCurrent'
    BY <1>4, <2>1 DEF IInv, JobInv, StageInv, SinceInv, RowsInv, RollupsAgree,
                      SnapshotIsCurrent
  <2>5. \A a \in Actors : at'[a] = at[a] \/ at'[a] = "snapshots"
    BY <1>1, <1>2, <1>4 DEF TypeOK
  <2>6. WorkInv'  BY <1>4, <2>1, <2>5 DEF IInv, WorkInv
  <2> QED  BY <2>2, <2>3, <2>4, <2>6 DEF IInv
<1>8. CASE n # s[w].final
  <2>1. state.owner = w /\ state' = [state EXCEPT !.final = n]
    BY <1>3, <1>8 DEF Fence
  <2>2. s[w].final = state.final /\ s[w].next = state.next /\ s[w].cov = state.cov
    BY <1>1, <2>1 DEF IInv, ViewInv, Inside
  <2>3. /\ state'.final = n /\ state'.next = state.next /\ state'.owner = w
        /\ state'.cov = state.cov /\ state' \in StateType
    BY <1>5, <1>6, <2>1 DEF StateType
  <2>4. \A b \in state.final .. n - 1 : b \in Buckets /\ job[b].final /\ b < state.next
    <3>1. \A b \in state.final .. n - 1 : b \in Buckets
      BY <1>6, <2>2, Bounds DEF Buckets
    <3>2. \A b \in state.final .. n - 1 : job[b].final
      BY <1>3, <2>2 DEF ClosedUpTo
    <3> QED  BY <3>1, <3>2 DEF IInv, JobInv
  <2>5. state.final \in Nat /\ state.next \in Nat /\ state.final < n
    BY <1>5, <1>6, <1>8, <2>2 DEF StateType
  <2>6. n <= state.next
    <3>1. n - 1 \in state.final .. n - 1  BY <1>6, <2>5
    <3> QED  BY <1>6, <2>4, <2>5, <3>1
  <2>7. /\ s' \in [Actors -> ViewType] /\ s'[w].final = n
        /\ \A a \in Actors : s'[a].next = s[a].next /\ s'[a].cov = s[a].cov
    <3>1. s' = [s EXCEPT ![w] = [s[w] EXCEPT !.final = n]]  BY <1>3
    <3>2. [s[w] EXCEPT !.final = n] \in ViewType  BY <1>1, <1>5, <1>6 DEF ViewType
    <3> QED  BY <1>1, <1>5, <3>1, <3>2 DEF ViewType
  <2>8. TypeOK'
    <3>1. at' \in [Actors -> Phases]  BY <1>1, <1>2, <1>4 DEF TypeOK, Phases
    <3> QED  BY <1>2, <1>4, <2>3, <2>7, <3>1 DEF TypeOK, StateType, ViewType
  <2>9. ViewInv'  BY <1>1, <2>2, <2>3, <2>7 DEF IInv, ViewInv
  <2>10. JobInv'  BY <1>4, <2>3, <2>6 DEF IInv, JobInv
  <2>11. StageInv'
    <3> SUFFICES ASSUME NEW l \in Logs, stage[l] = 1 PROVE n <= BucketOf[l]
      BY <1>4, <2>3 DEF IInv, StageInv
    <3>1. state.final <= BucketOf[l] /\ ~job[BucketOf[l]].final
      BY DEF IInv, StageInv
    <3>2. BucketOf[l] \in Nat  BY LogsAreNumbers DEF Buckets
    <3> QED  BY <1>6, <2>4, <2>5, <3>1, <3>2
  <2>12. SinceInv'
    <3> SUFFICES ASSUME NEW c \in Buckets, n <= c PROVE state.final <= c
      BY <1>4, <2>3 DEF IInv, SinceInv
    <3>1. c \in Nat  BY DEF Buckets
    <3> QED  BY <1>6, <2>5, <3>1
  <2>13. RowsInv' /\ SnapshotIsCurrent'
    BY <1>4, <2>3 DEF IInv, RowsInv, RollupsAgree, SnapshotIsCurrent
  <2>14. WorkInv'
    <3>1. \A a \in Actors : state'.owner = a => at'[a] = "snapshots"
      BY <1>1, <1>2, <1>4, <2>3 DEF TypeOK
    <3> QED  BY <3>1 DEF WorkInv
  <2> QED  BY <2>8, <2>9, <2>10, <2>11, <2>12, <2>13, <2>14 DEF IInv
<1> QED  BY <1>7, <1>8

\* Whatever rows it is made of, a snapshot shows what the fine rows say.
LEMMA ShownIsFine ==
    ASSUME RollupsAgree, NEW l \in Logs, NEW from, NEW to
    PROVE  Shown(l, from, to) =
             IF from <= BucketOf[l] /\ BucketOf[l] < to THEN rows[Fine][l] ELSE 0
<1> DEFINE b == BucketOf[l]
           whole == Holding(b, from, to)
           best == CHOOSE r \in whole : \A q \in whole : Size[q] <= Size[r]
<1>1. whole \in SUBSET Rollups  BY DEF Holding
<1>2. whole # {} => best \in Rollups
  <2> SUFFICES ASSUME whole # {} PROVE best \in Rollups  OBVIOUS
  <2> HIDE DEF whole
  <2>1. \E r \in whole : \A q \in whole : Size[q] <= Size[r]
    BY <1>1, MetricsLeaseAssumption
  <2> QED  BY <1>1, <2>1
<1>3. Shown(l, from, to) = CASE ~(from <= b /\ b < to) -> 0
                             [] from <= b /\ b < to /\ whole = {} -> rows[Fine][l]
                             [] OTHER -> rows[best][l]
  BY DEF Shown
<1>4. whole # {} => rows[best] = rows[Fine]  BY <1>2 DEF RollupsAgree
<1> HIDE DEF b, whole, best
<1>5. Shown(l, from, to) = IF from <= b /\ b < to THEN rows[Fine][l] ELSE 0
  <2>1. CASE ~(from <= b /\ b < to)  BY <1>3, <2>1
  <2>2. CASE from <= b /\ b < to /\ whole = {}  BY <1>3, <2>2
  <2>3. CASE from <= b /\ b < to /\ whole # {}  BY <1>3, <1>4, <2>3
  <2> QED  BY <2>1, <2>2, <2>3
<1> QED  BY <1>5 DEF b

LEMMA SnapshotInv ==
    ASSUME IInv, NEW w \in Workers, PublishSnapshot(w)
    PROVE  IInv'
<1>1. w \in Actors /\ at[w] = "snapshots"  BY Bounds DEF PublishSnapshot
<1>2. TypeOK  BY DEF IInv
<1>3. /\ at' = [at EXCEPT ![w] = "release"]
      /\ UNCHANGED <<log, state, job, stage, rows, s, mine, events, since>>
  BY DEF PublishSnapshot, Goto
<1>4. ViewInv' /\ JobInv' /\ StageInv' /\ SinceInv' /\ RowsInv'
  BY <1>1, <1>2, <1>3 DEF IInv, ViewInv, Inside, JobInv, StageInv, SinceInv, RowsInv,
                          RollupsAgree, TypeOK
<1>5. WorkInv'
  <2>1. \A a \in Actors : at'[a] = at[a] \/ at'[a] = "release"
    BY <1>1, <1>2, <1>3 DEF TypeOK
  <2> QED  BY <1>3, <2>1 DEF IInv, WorkInv
<1>6. at' \in [Actors -> Phases]  BY <1>1, <1>2, <1>3 DEF TypeOK, Phases
<1>7. CASE snap' = snap
  <2>1. TypeOK'  BY <1>2, <1>3, <1>6, <1>7 DEF TypeOK
  <2>2. SnapshotIsCurrent'  BY <1>3, <1>7 DEF IInv, SnapshotIsCurrent
  <2> QED  BY <1>4, <1>5, <2>1, <2>2 DEF IInv
<1>8. CASE /\ Fence(w)
           /\ snap' = [snap EXCEPT !.dirty = FALSE, !.asOf = s[w].next, !.cov = s[w].cov,
                         !.shown = [l \in Logs |-> Shown(l, s[w].cov, s[w].next)]]
  <2> DEFINE seen == [l \in Logs |-> Shown(l, s[w].cov, s[w].next)]
  <2>1. s[w].next = state.next  BY <1>1, <1>8 DEF Fence, IInv, ViewInv, Inside
  <2>2. \A l \in Logs : seen[l] = IF s[w].cov <= BucketOf[l] /\ BucketOf[l] < s[w].next
                                  THEN rows[Fine][l] ELSE 0
    BY ShownIsFine DEF IInv, RowsInv
  <2>3. seen \in [Logs -> Int]
    <3>1. \A l \in Logs : rows[Fine][l] \in Int
      <4>1. Fine \in Resolutions  BY DEF Resolutions
      <4> QED  BY <1>2, <4>1 DEF TypeOK
    <3>2. \A l \in Logs : seen[l] \in Int  BY <2>2, <3>1
    <3>3. seen = [l \in Logs |-> seen[l]]  OBVIOUS
    <3> HIDE DEF seen
    <3> QED  BY <3>2, <3>3
  <2>4. snap' = [snap EXCEPT !.dirty = FALSE, !.asOf = s[w].next, !.cov = s[w].cov,
                             !.shown = seen]
    BY <1>8
  <2> HIDE DEF seen
  <2>5. s[w] \in ViewType  BY <1>1, <1>2, LeaseValues
  <2>6. /\ snap' \in [there : BOOLEAN, dirty : BOOLEAN, asOf : 0 .. Last,
                     cov : 0 .. Last + 1, shown : [Logs -> Int]]
        /\ snap'.asOf = s[w].next /\ snap'.cov = s[w].cov /\ snap'.shown = seen
    BY <1>2, <2>3, <2>4, <2>5 DEF TypeOK, ViewType
  <2>7. TypeOK'  BY <1>2, <1>3, <1>6, <2>6 DEF TypeOK, Resolutions, Fine
  <2>8. SnapshotIsCurrent'
    BY <1>3, <2>1, <2>2, <2>6 DEF SnapshotIsCurrent, Fine
  <2> QED  BY <1>4, <1>5, <2>7, <2>8 DEF IInv
<1> QED  BY <1>7, <1>8 DEF PublishSnapshot

\* A rebuild empties the stage of an open bucket and starts its pass over.
LEMMA RebuildInv ==
    ASSUME IInv, NEW a \in Admins, Rebuild(a)
    PROVE  IInv'
<1> DEFINE b == mine[a].b
<1>1. a \in Actors /\ at[a] = "rebuild"  BY DEF Actors, Rebuild
<1>2. TypeOK  BY DEF IInv
<1>3. /\ at' = [at EXCEPT ![a] = "release"]
      /\ UNCHANGED <<log, state, rows, snap, s, mine, events, since>>
  BY DEF Rebuild, Goto
<1>4. at' \in [Actors -> Phases] /\ \A c \in Actors : at'[c] = IF c = a THEN "release" ELSE at[c]
  BY <1>1, <1>2, <1>3 DEF TypeOK, Phases
<1>5. ViewInv'  BY <1>3, <1>4 DEF IInv, ViewInv, Inside
<1>6. RowsInv' /\ SnapshotIsCurrent'
  BY <1>3 DEF IInv, RowsInv, RollupsAgree, SnapshotIsCurrent
<1>7. CASE UNCHANGED <<stage, job>>
  <2>1. TypeOK'  BY <1>2, <1>3, <1>4, <1>7 DEF TypeOK
  <2>2. JobInv' /\ StageInv' /\ SinceInv'
    BY <1>3, <1>7 DEF IInv, JobInv, StageInv, SinceInv
  <2>3. WorkInv'  BY <1>3, <1>4, <1>7 DEF IInv, WorkInv
  <2> QED  BY <1>5, <1>6, <2>1, <2>2, <2>3 DEF IInv
<1>8. CASE /\ Open(a, b) /\ Fence(a)
           /\ stage' = [l \in Logs |-> IF BucketOf[l] = b THEN 0 ELSE stage[l]]
           /\ job' = [job EXCEPT ![b] = [@ EXCEPT !.cursor = 0, !.pass = 0, !.final = FALSE]]
  <2>1. b \in Buckets
    <3>1. b \in Nat /\ s[a].next \in 0 .. Last  BY <1>1, <1>2 DEF TypeOK
    <3> QED  BY <1>8, <3>1, Bounds DEF Open, Buckets
  <2> DEFINE row == [job[b] EXCEPT !.cursor = 0, !.pass = 0, !.final = FALSE]
  <2>2. job \in [Buckets -> JobType]  BY <1>2 DEF TypeOK, JobType
  <2>3. /\ row \in JobType /\ row.cursor = 0 /\ ~row.final /\ row.there = job[b].there
        /\ job[b] = NoJob => row = NoJob
    <3>1. job[b] \in JobType  BY <2>1, <2>2
    <3>2. row \in JobType /\ row.cursor = 0 /\ ~row.final /\ row.there = job[b].there
      BY <3>1 DEF JobType
    <3>3. ASSUME job[b] = NoJob PROVE row = NoJob
      <4>1. NoJob.there = FALSE /\ NoJob.cursor = 0 /\ NoJob.pass = 0 /\ NoJob.final = FALSE
        BY DEF NoJob
      <4>2. row = [NoJob EXCEPT !.cursor = NoJob.cursor, !.pass = NoJob.pass,
                                !.final = NoJob.final]
        BY <3>3, <4>1
      <4> HIDE DEF row
      <4> QED  BY <4>2 DEF NoJob
    <3> QED  BY <3>2, <3>3
  <2>4. job' = [job EXCEPT ![b] = row]  BY <1>8
  <2> HIDE DEF row, b
  <2>5. job' \in [Buckets -> JobType] /\ job'[b] = row
        /\ \A c \in Buckets : c # b => job'[c] = job[c]
    BY <2>1, <2>2, <2>3, <2>4
  <2>6. stage' \in [Logs -> Nat]  BY <1>2, <1>8 DEF TypeOK
  <2>7. TypeOK'  BY <1>2, <1>3, <1>4, <2>5, <2>6 DEF TypeOK, JobType
  <2>8. JobInv'
    <3> SUFFICES ASSUME NEW c \in Buckets
        PROVE  /\ ~job'[c].there => job'[c] = NoJob
               /\ job'[c].there => c <= state.next
               /\ job'[c].final => job'[c].there /\ job'[c].pass >= Passes /\ c < state.next
      BY <1>3 DEF IInv, JobInv
    <3>1. CASE c = b  BY <2>3, <2>5, <3>1 DEF IInv, JobInv
    <3>2. CASE c # b  BY <2>5, <3>2 DEF IInv, JobInv
    <3> QED  BY <3>1, <3>2
  <2>9. StageInv'
    <3> SUFFICES ASSUME NEW l \in Logs
        PROVE  /\ stage'[l] \in {0, 1}
               /\ stage'[l] = 1 => /\ l <= job'[BucketOf[l]].cursor
                                   /\ log[l] = "there"
                                   /\ state.final <= BucketOf[l]
                                   /\ ~job'[BucketOf[l]].final
      BY <1>3 DEF StageInv
    <3>1. BucketOf[l] \in Buckets  BY LogsAreNumbers
    <3>2. CASE BucketOf[l] = b  BY <1>8, <3>2
    <3>3. CASE BucketOf[l] # b  BY <1>8, <2>5, <3>1, <3>3 DEF IInv, StageInv
    <3> QED  BY <3>2, <3>3
  <2>10. SinceInv'
    <3> SUFFICES ASSUME NEW c \in Buckets, NEW l \in since[c]
        PROVE  /\ BucketOf[l] = c
               /\ state.final <= c => log[l] = "there"
               /\ l <= job'[c].cursor => stage'[l] = 1
      BY <1>3 DEF SinceInv
    <3>1. /\ BucketOf[l] = c
          /\ state.final <= c => log[l] = "there"
          /\ l <= job[c].cursor => stage[l] = 1
      BY DEF IInv, SinceInv
    <3>2. l \in Logs /\ l \in Nat /\ l > 0  BY <1>2, LogsAreNumbers DEF TypeOK
    <3>3. CASE c = b  BY <2>3, <2>5, <3>1, <3>2, <3>3
    <3>4. CASE c # b  BY <1>8, <2>5, <3>1, <3>2, <3>4
    <3> QED  BY <3>3, <3>4
  <2>11. WorkInv'
    <3>1. \A c \in Actors : state'.owner = c => at'[c] = "release"
      BY <1>3, <1>4, <1>8 DEF Fence
    <3> QED  BY <3>1 DEF WorkInv
  <2> QED  BY <1>5, <1>6, <2>7, <2>8, <2>9, <2>10, <2>11 DEF IInv
<1> QED  BY <1>7, <1>8 DEF Rebuild

\* Only logs below the seal are deleted.
LEMMA DeletedIsSealed ==
    ASSUME IInv, NEW a \in Admins, at[a] = "delete", Fence(a),
           NEW l \in Logs, BucketOf[l] < Below(a)
    PROVE  BucketOf[l] < state.final
<1>1. a \in Actors  BY DEF Actors
<1>2. s[a].final = state.final  BY <1>1 DEF Fence, IInv, ViewInv, Inside
<1>3. s[a].final \in Nat /\ mine[a].b \in Nat  BY <1>1 DEF IInv, TypeOK
<1>4. BucketOf[l] \in Nat  BY LogsAreNumbers DEF Buckets
<1> QED  BY <1>2, <1>3, <1>4 DEF Below

LEMMA DeleteInv ==
    ASSUME IInv, NEW a \in Admins, DeleteLogs(a)
    PROVE  IInv'
<1> DEFINE old == {l \in There : BucketOf[l] < Below(a)}
           batch == {l \in old : Cardinality({k \in old : k < l}) < Page}
<1>1. a \in Actors /\ at[a] = "delete"  BY DEF Actors, DeleteLogs
<1>2. TypeOK  BY DEF IInv
<1>3. /\ at' = [at EXCEPT ![a] = "release"] \/ at' = [at EXCEPT ![a] = "delete"]
      /\ UNCHANGED <<state, job, stage, rows, snap, s, mine, events, since>>
      /\ \/ log' = log
         \/ Fence(a) /\ log' = [l \in Logs |-> IF l \in batch THEN "deleted" ELSE log[l]]
  BY DEF DeleteLogs, Goto
<1>4. at' \in [Actors -> Phases]
      /\ \A c \in Actors : IF c = a THEN at'[c] \in {"release", "delete"} ELSE at'[c] = at[c]
  BY <1>1, <1>2, <1>3 DEF TypeOK, Phases
<1>5. \A l \in batch : BucketOf[l] < Below(a)  OBVIOUS
<1> HIDE DEF batch
<1>6. log' \in [Logs -> {"unwritten", "there", "deleted"}]
  BY <1>2, <1>3 DEF TypeOK
<1>7. \A l \in Logs : log[l] = "there" /\ state.final <= BucketOf[l] => log'[l] = "there"
  <2> SUFFICES ASSUME NEW l \in Logs, state.final <= BucketOf[l], log'[l] # log[l] PROVE FALSE
    OBVIOUS
  <2>1. Fence(a) /\ l \in batch  BY <1>2, <1>3 DEF TypeOK
  <2>2. BucketOf[l] < state.final  BY <1>1, <1>5, <2>1, DeletedIsSealed
  <2>3. BucketOf[l] \in Nat /\ state.final \in Nat
    BY <1>2, LogsAreNumbers DEF Buckets, TypeOK
  <2> QED  BY <2>2, <2>3
<1>8. TypeOK'  BY <1>2, <1>3, <1>4, <1>6 DEF TypeOK
<1>9. ViewInv'  BY <1>1, <1>3, <1>4 DEF IInv, ViewInv, Inside
<1>10. JobInv' /\ RowsInv' /\ SnapshotIsCurrent'
  BY <1>3 DEF IInv, JobInv, RowsInv, RollupsAgree, SnapshotIsCurrent
<1>11. StageInv'  BY <1>3, <1>7 DEF IInv, StageInv
<1>12. SinceInv'
  <2>1. \A c \in Buckets : \A l \in since[c] : l \in Logs  BY <1>2 DEF TypeOK
  <2> QED  BY <1>3, <1>7, <2>1 DEF IInv, SinceInv
<1>13. WorkInv'
  <2> SUFFICES ASSUME NEW c \in Actors, at'[c] \in {"commit", "publish"}, state'.owner = c
      PROVE  LET m == mine[c] IN
             (/\ m.b \in Buckets /\ m.pass = job[m.b].pass
              /\ job[m.b].there /\ ~job[m.b].final /\ state.final <= m.b
              /\ at[c] = "commit" => m.page # {}
              /\ at[c] = "publish" => m.page = {}
              /\ \A l \in m.page : /\ BucketOf[l] = m.b /\ log[l] = "there"
                                   /\ job[m.b].cursor < l
              /\ \A l \in since[m.b] :
                   \/ l <= job[m.b].cursor
                   \/ l \in m.page
                   \/ m.page # {} /\ \A k \in m.page : k < l)'
    BY DEF WorkInv
  <2>1. c # a /\ at'[c] = at[c] /\ state.owner = c  BY <1>3, <1>4
  <2>2. \A l \in mine[c].page : l \in Logs  BY <1>2 DEF TypeOK
  <2> QED  BY <1>3, <1>7, <2>1, <2>2 DEF IInv, WorkInv
<1> QED  BY <1>8, <1>9, <1>10, <1>11, <1>12, <1>13 DEF IInv

LEMMA RestInv ==
    ASSUME IInv, (\E l \in Logs : WriteLog(l)) \/ Expire \/ UNCHANGED vars
    PROVE  IInv'
<1>1. CASE UNCHANGED vars
  BY <1>1 DEF vars, IInv, TypeOK, ViewInv, JobInv, StageInv, WorkInv, SinceInv, RowsInv,
              RollupsAgree, SnapshotIsCurrent
<1>2. ASSUME NEW l \in Logs, WriteLog(l) PROVE IInv'
  <2>1. log' \in [Logs -> {"unwritten", "there", "deleted"}]
        /\ \A k \in Logs : log[k] = "there" => log'[k] = "there"
    BY <1>2 DEF WriteLog, IInv, TypeOK
  <2>2. UNCHANGED <<state, job, stage, rows, snap, at, s, mine, events, since>>
    BY <1>2 DEF WriteLog
  <2>3. TypeOK'  BY <2>1, <2>2 DEF IInv, TypeOK
  <2>4. ViewInv' /\ JobInv' /\ RowsInv' /\ SnapshotIsCurrent'
    BY <2>2 DEF IInv, ViewInv, JobInv, RowsInv, RollupsAgree, SnapshotIsCurrent
  <2>5. StageInv'  BY <2>1, <2>2 DEF IInv, StageInv
  <2>6. SinceInv'  BY <2>1, <2>2 DEF IInv, SinceInv, TypeOK
  <2>7. \A c \in Actors : \A k \in mine[c].page : k \in Logs  BY DEF IInv, TypeOK
  <2>8. WorkInv'  BY <2>1, <2>2, <2>7 DEF IInv, WorkInv
  <2> QED  BY <2>3, <2>4, <2>5, <2>6, <2>8 DEF IInv
<1>3. CASE Expire
  <2>1. state' = [state EXCEPT !.live = FALSE] /\ events' \in Nat
        /\ UNCHANGED <<log, job, stage, rows, snap, at, s, mine, since>>
    BY <1>3 DEF Expire, Event, IInv, TypeOK
  <2>2. state \in StateType  BY LeaseValues DEF IInv
  <2>3. state' \in StateType /\ UNCHANGED <<state.owner, state.cov, state.next, state.final>>
    BY <2>1, <2>2 DEF StateType
  <2>4. TypeOK'  BY <2>1, <2>3 DEF IInv, TypeOK, StateType
  <2>5. ViewInv' /\ JobInv' /\ StageInv' /\ SinceInv' /\ RowsInv' /\ SnapshotIsCurrent'
    BY <2>1, <2>3 DEF IInv, ViewInv, JobInv, StageInv, SinceInv, RowsInv, RollupsAgree,
                      SnapshotIsCurrent
  <2>6. WorkInv'  BY <2>1, <2>3 DEF IInv, WorkInv
  <2> QED  BY <2>4, <2>5, <2>6 DEF IInv
<1> QED  BY <1>1, <1>2, <1>3

-----------------------------------------------------------------------------
(* The invariant of the specification.                                     *)

LEMMA IInvStep == IInv /\ [Next]_vars => IInv'
<1> SUFFICES ASSUME IInv, [Next]_vars PROVE IInv'  OBVIOUS
<1>1. ASSUME NEW w \in Workers, CycleStep(w) PROVE IInv'
  <2>1. CASE LeaseStep(w)  BY Bounds, <2>1, LeaseInv
  <2>2. CASE Scan(w)
    <3>1. at[w] = "scan" /\ UNCHANGED <<log, state, stage, rows, snap, s, events>>
      BY <2>2 DEF Scan
    <3>2. PICK b \in Choice(w) : ScanOf(w, b)
      BY <2>2 DEF Scan, ScanOf, Goto
    <3> QED  BY Bounds, <3>1, <3>2, ScanInv
  <2>3. CASE CommitPage(w)  BY <2>3, CommitInv
  <2>4. CASE PublishBucket(w)  BY <2>4, PublishInv
  <2>5. CASE Advance(w)  BY <2>5, AdvanceInv
  <2>6. CASE PublishSnapshot(w)  BY <2>6, SnapshotInv
  <2> QED  BY <1>1, <2>1, <2>2, <2>3, <2>4, <2>5, <2>6 DEF CycleStep, LeaseStep
<1>2. ASSUME NEW a \in Admins, AdminStep(a) PROVE IInv'
  <2>1. CASE LeaseStep(a)
    <3>1. a \in Actors  BY DEF Actors
    <3> QED  BY <2>1, <3>1, LeaseInv
  <2>2. CASE Rebuild(a)  BY <2>2, RebuildInv
  <2>3. CASE DeleteLogs(a)  BY <2>3, DeleteInv
  <2> QED  BY <1>2, <2>1, <2>2, <2>3 DEF AdminStep, LeaseStep
<1>3. ASSUME NEW a \in Actors, Crash(a) PROVE IInv'
  BY <1>3, LeaseInv DEF LeaseStep
<1>4. CASE (\E l \in Logs : WriteLog(l)) \/ Expire \/ UNCHANGED vars
  BY <1>4, RestInv
<1> QED  BY <1>1, <1>2, <1>3, <1>4 DEF Next

LEMMA IInvAlways == Spec => []IInv
<1> QED  BY InvInit, IInvStep, PTL DEF Spec

\* The tables and what every instance remembers keep their types.
THEOREM TypeCorrect == Spec => []TypeOK
<1>1. IInv => TypeOK  BY DEF IInv
<1> QED  BY <1>1, IInvAlways, PTL

\* No log is counted twice, whoever held the lease while its page was read and
\* committed (metrics_v2_worker.go:132-170).
THEOREM CountedOnceCorrect == Spec => []CountedOnce
<1>1. IInv => CountedOnce  BY DEF IInv, StageInv, RowsInv, CountedOnce
<1> QED  BY <1>1, IInvAlways, PTL

\* Hours and days say what the five-minute buckets say
\* (metrics_v2_worker.go:233-266).
THEOREM RollupsAgreeCorrect == Spec => []RollupsAgree
<1>1. IInv => RollupsAgree  BY DEF IInv, RowsInv
<1> QED  BY <1>1, IInvAlways, PTL

\* A snapshot that is not marked dirty shows the published buckets as they are
\* now (metrics_v2_worker.go:267-303, metrics_v2_snapshot.go:121).
THEOREM SnapshotIsCurrentCorrect == Spec => []SnapshotIsCurrent
<1>1. IInv => SnapshotIsCurrent  BY DEF IInv
<1> QED  BY <1>1, IInvAlways, PTL

-----------------------------------------------------------------------------
(* The refinement.  A first scan of the holder begins a pass, a            *)
(* publication, a rebuild, the moving of the seal and a deletion are what  *)
(* they are called; all else the board does not see.                       *)

boardState == <<There, rows[Fine], since, [b \in Buckets |-> job[b].pass], state.final>>

LEMMA BoardStutters ==
    ASSUME IInv, UNCHANGED <<log, rows, since, state.final>>,
           \A b \in Buckets : job'[b].pass = job[b].pass
    PROVE  UNCHANGED boardState
<1>1. There' = There  BY DEF There
<1>2. [b \in Buckets |-> job'[b].pass] = [b \in Buckets |-> job[b].pass]  OBVIOUS
<1>3. rows'[Fine] = rows[Fine] /\ since' = since /\ state'.final = state.final  OBVIOUS
<1> QED  BY ONLY <1>1, <1>2, <1>3 DEF boardState, Fine, Buckets

LEMMA ScanRefines ==
    ASSUME IInv, NEW w \in Workers, at[w] = "scan", NEW b \in Choice(w), ScanOf(w, b),
           UNCHANGED <<log, state, stage, rows, snap, s, events>>
    PROVE  Board!BoardNext \/ UNCHANGED boardState
<1>1. /\ b \in Buckets
      /\ job' = [job EXCEPT ![b].there = TRUE]
      /\ since' = IF state.owner = w /\ job[b].cursor = 0
                  THEN [since EXCEPT ![b] = LogsOf(b) \cap There] ELSE since
  BY ScanFacts, Bounds
<1>2. \A c \in Buckets : job'[c].pass = job[c].pass
  BY <1>1 DEF IInv, TypeOK
<1>3. CASE since' = since  BY <1>2, <1>3, BoardStutters
<1>4. CASE state.owner = w /\ since' = [since EXCEPT ![b] = LogsOf(b) \cap There]
  <2>1. state.final <= b
    <3>1. s[w].next = state.next /\ s[w].final = state.final
      BY <1>4, Bounds DEF IInv, ViewInv, Inside
    <3>2. state.final <= state.next  BY DEF IInv, JobInv
    <3> QED  BY <3>1, <3>2 DEF Choice, New, Due
  <2>2. There' = There /\ [c \in Buckets |-> job'[c].pass] = [c \in Buckets |-> job[c].pass]
    BY <1>2 DEF There
  <2>3. Board!Begin(b)
    BY <1>4, <2>1, <2>2 DEF Board!Begin, Board!LogsOf, LogsOf, Fine, Buckets
  <2> QED  BY <1>1, <2>3 DEF Board!BoardNext, Board!Buckets, Buckets
<1> QED  BY <1>1, <1>3, <1>4

LEMMA PublishRefines ==
    ASSUME IInv, NEW w \in Workers, PublishBucket(w), NEW b, b = mine[w].b
    PROVE  Board!BoardNext
<1> DEFINE X == {l \in LogsOf(b) : stage[l] = 1}
<1>1. at[w] = "publish" /\ state.owner = w /\ log' = log /\ since' = since
      /\ job' = [job EXCEPT ![b] = [@ EXCEPT !.pass = mine[w].pass + 1, !.cursor = 0,
                                             !.final = mine[w].pass + 1 >= Passes]]
  BY DEF PublishBucket, Fence
<1>2. /\ b \in Buckets /\ state.final <= b /\ mine[w].pass = job[b].pass
      /\ \A l \in since[b] : l \in Logs /\ stage[l] = 1
  BY <1>1, PassComplete
<1>3. X \in SUBSET (LogsOf(b) \cap There)
  BY DEF IInv, StageInv, LogsOf, There
<1>4. since[b] \subseteq X  BY <1>2 DEF IInv, SinceInv, LogsOf
<1>5. rows'[Fine] = [l \in Logs |-> IF BucketOf[l] # b THEN rows[Fine][l]
                                   ELSE IF l \in X THEN 1 ELSE 0]
  <2>1. Fine \in Resolutions  BY DEF Resolutions
  <2>2. /\ \A l \in Logs : rows'[Fine][l] = IF l \in LogsOf(b) THEN stage[l] ELSE rows[Fine][l]
        /\ rows'[Fine] \in [Logs -> Int]
    BY <2>1, PublishedRows
  <2>3. \A l \in Logs : stage[l] \in {0, 1}  BY DEF IInv, StageInv
  <2>4. \A l \in Logs : rows'[Fine][l] = IF BucketOf[l] # b THEN rows[Fine][l]
                                         ELSE IF l \in X THEN 1 ELSE 0
    BY <2>2, <2>3 DEF LogsOf
  <2> QED  BY <2>2, <2>4
<1>6. [c \in Buckets |-> job'[c].pass] =
      [[c \in Buckets |-> job[c].pass] EXCEPT ![b] = @ + 1]
  <2>1. \A c \in Buckets : job'[c].pass = IF c = b THEN job[b].pass + 1 ELSE job[c].pass
    BY <1>1, <1>2 DEF IInv, TypeOK
  <2> QED  BY <2>1
<1>7. state'.final = state.final
  BY DEF PublishBucket, IInv, TypeOK
<1>8. There' = There  BY <1>1 DEF There
<1> HIDE DEF X
<1>9. Board!Publish(b)
  BY <1>1, <1>2, <1>3, <1>4, <1>5, <1>6, <1>7, <1>8
     DEF Board!Publish, Board!LogsOf, LogsOf, Fine, Buckets
<1>10. b \in Board!Buckets  BY <1>2 DEF Board!Buckets, Buckets
<1> QED  BY <1>9, <1>10, Zenon DEF Board!BoardNext

LEMMA AdvanceRefines ==
    ASSUME IInv, NEW w \in Workers, Advance(w)
    PROVE  Board!BoardNext \/ UNCHANGED boardState
<1>1. w \in Actors /\ at[w] = "advance"  BY Bounds DEF Advance
<1>2. TypeOK  BY DEF IInv
<1>3. PICK n \in s[w].final .. Last :
        /\ ClosedUpTo(s[w].final, n)
        /\ n # s[w].final => Fence(w)
        /\ state' = IF n # s[w].final THEN [state EXCEPT !.final = n] ELSE state
  BY DEF Advance
<1>4. UNCHANGED <<log, job, rows, since>>  BY DEF Advance
<1>5. CASE n = s[w].final  BY <1>3, <1>4, <1>5, BoardStutters
<1>6. CASE n # s[w].final
  <2>1. s[w].final = state.final /\ state' = [state EXCEPT !.final = n]
    BY <1>1, <1>3, <1>6 DEF Fence, IInv, ViewInv, Inside
  <2>2. state.final \in Nat /\ state'.final = n /\ state.final < n /\ n \in 1 .. Last
    <3>1. state \in StateType /\ s[w].final \in 0 .. Last
      BY <1>1, <1>2, LeaseValues DEF ViewType
    <3>2. state.final \in Nat /\ state'.final = n  BY <2>1, <3>1, Bounds DEF StateType
    <3> QED  BY <1>3, <1>6, <2>1, <3>1, <3>2, Bounds
  <2>3. \A b \in state.final .. n - 1 : b \in Buckets /\ job[b].pass >= Passes
    <3>1. \A b \in state.final .. n - 1 : b \in Buckets
      BY <2>2, Bounds DEF Buckets
    <3>2. \A b \in state.final .. n - 1 : job[b].final
      BY <1>3, <2>1 DEF ClosedUpTo
    <3> QED  BY <3>1, <3>2 DEF IInv, JobInv
  <2>4. \A b \in state.final .. n - 1 : [c \in Buckets |-> job[c].pass][b] >= Passes
    BY <2>3
  <2>5. There' = There  BY <1>4 DEF There
  <2>6. Board!Close(n)
    BY <1>4, <2>2, <2>4, <2>5 DEF Board!Close, Fine, Buckets
  <2> QED  BY <2>2, <2>6 DEF Board!BoardNext
<1> QED  BY <1>5, <1>6

LEMMA RebuildRefines ==
    ASSUME IInv, NEW a \in Admins, Rebuild(a), NEW b, b = mine[a].b
    PROVE  Board!BoardNext \/ UNCHANGED boardState
<1>1. a \in Actors /\ at[a] = "rebuild" /\ UNCHANGED <<log, state, rows, since>>
  BY DEF Actors, Rebuild
<1>2. CASE job' = job  BY <1>1, <1>2, BoardStutters
<1>3. CASE /\ Open(a, b) /\ Fence(a)
           /\ job' = [job EXCEPT ![b] = [@ EXCEPT !.cursor = 0, !.pass = 0, !.final = FALSE]]
  <2>1. s[a].final = state.final
    BY <1>1, <1>3 DEF Fence, IInv, ViewInv, Inside
  <2>2. b \in Buckets /\ state.final <= b
    <3>1. b \in Nat /\ s[a].next \in 0 .. Last  BY <1>1 DEF IInv, TypeOK
    <3> QED  BY <1>3, <2>1, <3>1, Bounds DEF Open, Buckets
  <2>3. \A c \in Buckets : job'[c].pass = IF c = b THEN 0 ELSE job[c].pass
    BY <1>3, <2>2 DEF IInv, TypeOK
  <2>4. [c \in Buckets |-> job'[c].pass] = [[c \in Buckets |-> job[c].pass] EXCEPT ![b] = 0]
    BY <2>3
  <2>5. There' = There  BY <1>1 DEF There
  <2>6. Board!Reopen(b)
    BY <1>1, <2>2, <2>4, <2>5 DEF Board!Reopen, Fine, Buckets
  <2>7. b \in Board!Buckets  BY <2>2 DEF Board!Buckets, Buckets
  <2> QED  BY <2>6, <2>7, Zenon DEF Board!BoardNext
<1> QED  BY <1>2, <1>3 DEF Rebuild

LEMMA DeleteRefines ==
    ASSUME IInv, NEW a \in Admins, DeleteLogs(a)
    PROVE  Board!BoardNext \/ UNCHANGED boardState
<1> DEFINE old == {l \in There : BucketOf[l] < Below(a)}
           batch == {l \in old : Cardinality({k \in old : k < l}) < Page}
<1>1. at[a] = "delete" /\ UNCHANGED <<state, job, rows, since>>
  BY DEF DeleteLogs
<1>2. CASE log' = log  BY <1>1, <1>2, BoardStutters
<1>3. CASE Fence(a) /\ log' = [l \in Logs |-> IF l \in batch THEN "deleted" ELSE log[l]]
  <2>1. batch \subseteq There /\ \A l \in batch : l \in Logs /\ BucketOf[l] < Below(a)
    BY DEF There
  <2> HIDE DEF batch
  <2>2. \A l \in batch : BucketOf[l] < state.final
    BY <1>1, <1>3, <2>1, DeletedIsSealed
  <2>3. There' = There \ batch
    BY <1>3 DEF There
  <2>4. Board!Forget(batch)
    BY <1>1, <2>2, <2>3 DEF Board!Forget, Fine, Buckets
  <2> QED  BY <2>1, <2>4 DEF Board!BoardNext
<1> QED  BY <1>2, <1>3 DEF DeleteLogs

LEMMA ArriveRefines ==
    ASSUME IInv, NEW l \in Logs, WriteLog(l)
    PROVE  Board!BoardNext
<1>1. log' = [log EXCEPT ![l] = "there"] /\ UNCHANGED <<state, job, rows, since>>
  BY DEF WriteLog
<1>2. There' = There \cup {l}
  BY <1>1 DEF There, IInv, TypeOK
<1>3. Board!Arrive(l)  BY <1>1, <1>2 DEF Board!Arrive, Fine, Buckets
<1> QED  BY <1>3 DEF Board!BoardNext

LEMMA OtherStepsStutter ==
    ASSUME IInv, NEW a \in Actors,
           LeaseStep(a) \/ CommitPage(a) \/ PublishSnapshot(a)
    PROVE  UNCHANGED boardState
<1>1. CASE LeaseStep(a)
  <2>1. UNCHANGED <<log, job, rows, since, state.final>>
    BY <1>1, LeaseFrame DEF IInv
  <2> QED  BY <2>1, BoardStutters
<1>2. CASE CommitPage(a)
  <2>1. /\ job' = [job EXCEPT ![mine[a].b].cursor = Max(mine[a].page)]
        /\ UNCHANGED <<log, rows, since, state>>
    BY <1>2 DEF CommitPage
  <2>2. \A b \in Buckets : job'[b].pass = job[b].pass  BY <2>1 DEF IInv, TypeOK
  <2> QED  BY <2>1, <2>2, BoardStutters
<1>3. CASE PublishSnapshot(a)  BY <1>3, BoardStutters DEF PublishSnapshot
<1> QED  BY <1>1, <1>2, <1>3

LEMMA ExpireStutters ==
    ASSUME IInv, Expire
    PROVE  UNCHANGED boardState
<1>1. UNCHANGED <<log, job, rows, since, state.final>>  BY DEF Expire, IInv, TypeOK
<1> QED  BY <1>1, BoardStutters

\* The workers, the lease and the pages together count as the board promises:
\* a pass counts every log that was there when it began and none twice, no
\* bucket is sealed before three passes, and only logs of sealed buckets are
\* deleted (docs/source-metrics-v2.md).
THEOREM BoardImplemented == Spec => ImplementsBoard
<1>1. Init => Board!BoardInit
  <2> SUFFICES ASSUME Init PROVE Board!BoardInit  OBVIOUS
  <2>1. There = {}  BY DEF Init, There
  <2>2. rows[Fine] = [l \in Logs |-> 0]  BY DEF Init, None, Resolutions
  <2>3. [b \in Buckets |-> job[b].pass] = [b \in Buckets |-> 0]  BY DEF Init, NoJob
  <2> QED  BY <2>1, <2>2, <2>3 DEF Init, Board!BoardInit, Board!Buckets, Buckets, Fine
<1>2. IInv /\ [Next]_vars => [Board!BoardNext]_(Board!boardVars)
  <2> SUFFICES ASSUME IInv, [Next]_vars
      PROVE  Board!BoardNext \/ UNCHANGED boardState
    BY DEF Board!boardVars, boardState
  <2>1. ASSUME NEW w \in Workers, CycleStep(w)
        PROVE  Board!BoardNext \/ UNCHANGED boardState
    <3>1. CASE LeaseStep(w) \/ CommitPage(w) \/ PublishSnapshot(w)
      BY <3>1, Bounds, OtherStepsStutter
    <3>2. CASE Scan(w)
      <4>1. at[w] = "scan" /\ UNCHANGED <<log, state, stage, rows, snap, s, events>>
        BY <3>2 DEF Scan
      <4>2. PICK b \in Choice(w) : ScanOf(w, b)
        BY <3>2 DEF Scan, ScanOf, Goto
      <4> QED  BY <4>1, <4>2, ScanRefines
    <3>3. CASE PublishBucket(w)
      <4>1. PICK b : b = mine[w].b  OBVIOUS
      <4> QED  BY <3>3, <4>1, PublishRefines
    <3>4. CASE Advance(w)  BY <3>4, AdvanceRefines
    <3> QED  BY <2>1, <3>1, <3>2, <3>3, <3>4 DEF CycleStep, LeaseStep
  <2>2. ASSUME NEW a \in Admins, AdminStep(a)
        PROVE  Board!BoardNext \/ UNCHANGED boardState
    <3>1. CASE LeaseStep(a)
      <4>1. a \in Actors  BY DEF Actors
      <4> QED  BY <3>1, <4>1, OtherStepsStutter
    <3>2. CASE Rebuild(a)
      <4>1. PICK b : b = mine[a].b  OBVIOUS
      <4> QED  BY <3>2, <4>1, RebuildRefines
    <3>3. CASE DeleteLogs(a)  BY <3>3, DeleteRefines
    <3> QED  BY <2>2, <3>1, <3>2, <3>3 DEF AdminStep, LeaseStep
  <2>3. ASSUME NEW a \in Actors, Crash(a) PROVE UNCHANGED boardState
    BY <2>3, OtherStepsStutter DEF LeaseStep
  <2>4. ASSUME NEW l \in Logs, WriteLog(l) PROVE Board!BoardNext
    BY <2>4, ArriveRefines
  <2>5. CASE Expire  BY <2>5, ExpireStutters
  <2>6. CASE UNCHANGED vars  BY <2>6, BoardStutters DEF vars
  <2> QED  BY <2>1, <2>2, <2>3, <2>4, <2>5, <2>6 DEF Next
<1> QED
  BY <1>1, <1>2, IInvAlways, PTL DEF Spec, ImplementsBoard, Board!BoardSpec
=============================================================================
