----------------------------- MODULE ChannelProofs -----------------------------
(* Theorems about Channel, for any processes, jobs, models and keys. *)
EXTENDS Channel, FiniteSetTheorems, TLAPS

JobFields == {"pc", "idx", "snap", "next", "task"}

\* What may follow when the abilities are rebuilt.
Followers == {"done", "refresh", "unfit", "enable"}

RowLike(r) ==
    DOMAIN r = {"status", "models", "keys", "list", "count"} /\ r.models \subseteq Models

\* At these steps the job will write the abilities, or the whole row, from its snapshot.
SnapOK(pc, r) ==
    pc \in {"fetching", "write", "reread", "drop", "add"} => RowLike(r) /\ r.status # "deleted"

Shape ==
    /\ RowLike(row)
    /\ abil \in [Models -> {"on", "off", "none"}]
    /\ stale \in BOOLEAN
    /\ job = [j \in Jobs |-> job[j]]
    /\ \A j \in Jobs : /\ DOMAIN job[j] = JobFields /\ job[j].next \in Followers
                       /\ SnapOK(job[j].pc, job[j].snap)
                       /\ At(j, "unlist") => Deleted

Busy == {"reread", "drop", "add", "unlist"}

\* The abilities will be dropped, or are dropped and will be added again.
WillDrop == \E j \in Jobs : job[j].pc \in {"reread", "drop", "unlist"}
Dropped == [m \in Models |-> "none"]

\* Rebuilds that overlap agree on what they add, so that it does not matter which of
\* them wins, and the one that loses finds what it would have added.
Agree ==
    ~stale =>
      /\ \A j \in Rebuilding : Listed(job[j].snap) = Listed(row)
      /\ \/ WillDrop
         \/ abil = Listed(row)
         \/ abil = Dropped /\ \E j \in Jobs : At(j, "add")

IInv == Shape /\ Agree

LEMMA IInvInit == Init => IInv
<1> SUFFICES ASSUME Init PROVE IInv
  OBVIOUS
<1>1. Shape
  BY DEF Init, Shape, RowLike, SnapOK, JobFields, Followers, Fresh, Listed, Switch, At
<1>2. Agree
  BY DEF Init, Agree, Fresh, Rebuilding
<1> QED  BY <1>1, <1>2 DEF IInv

LEMMA IInvRests == ASSUME IInv, UNCHANGED <<row, abil, job, stale>> PROVE IInv'
  BY DEF IInv, Shape, Agree, Rebuilding, WillDrop, At, Deleted, Listed, SnapOK, RowLike, Switch, Dropped

-----------------------------------------------------------------------------
(* How a step changes the jobs, the row and the abilities. *)

OnlyJob(j, pc, r) ==
    /\ job' = [k \in Jobs |-> job'[k]]
    /\ \A k \in Jobs : k # j => job'[k] = job[k]
    /\ DOMAIN job'[j] = JobFields /\ job'[j].next \in Followers
    /\ job'[j].pc = pc /\ job'[j].snap = r

LEMMA GotoMoves ==
    ASSUME Shape, NEW j \in Jobs, NEW pc, Goto(j, pc)
    PROVE  OnlyJob(j, pc, IF pc = "done" THEN NoRow ELSE job[j].snap)
<1>1. job' = [job EXCEPT ![j] = IF pc = "done" THEN Finished(j)
                                               ELSE [job[j] EXCEPT !.pc = pc]]
  BY DEF Goto
<1>2. DOMAIN job = Jobs /\ DOMAIN job[j] = JobFields /\ job[j].next \in Followers
  BY DEF Shape
<1>3. job'[j] = IF pc = "done" THEN Finished(j)
                               ELSE [job[j] EXCEPT !.pc = pc]
  BY <1>1, <1>2
<1>4. CASE pc = "done"
  BY <1>1, <1>2, <1>3, <1>4 DEF OnlyJob, Finished, Fresh, JobFields, Followers
<1>5. CASE pc # "done"
  BY <1>1, <1>2, <1>3, <1>5 DEF OnlyJob, JobFields
<1> QED  BY <1>4, <1>5

LEMMA KeepsMoves ==
    ASSUME Shape, NEW j \in Jobs, NEW pc, NEW r, Keeps(j, pc, r)
    PROVE  OnlyJob(j, pc, r)
<1>1. DOMAIN job = Jobs /\ DOMAIN job[j] = JobFields /\ job[j].next \in Followers
  BY DEF Shape
<1> QED  BY <1>1 DEF Keeps, OnlyJob, JobFields

\* The row keeps the fields its abilities follow from.
SameAbilities ==
    RowLike(row') /\ row'.status = row.status /\ row'.models = row.models

LEMMA ListedRests ==
    ASSUME SameAbilities
    PROVE  Listed(row)' = Listed(row) /\ Deleted' = Deleted
  BY DEF SameAbilities, Listed, Deleted

\* A step of a job that neither rebuilds the abilities nor begins to.
LEMMA JobMoves ==
    ASSUME IInv, NEW j \in Jobs, NEW pc, NEW r, OnlyJob(j, pc, r),
           SameAbilities, abil' = abil, stale' \in BOOLEAN, stale => stale',
           job[j].pc \notin Busy, pc \notin Busy, SnapOK(pc, r)
    PROVE  IInv'
<1>1. Listed(row)' = Listed(row) /\ Deleted' = Deleted
  BY ListedRests
<1>2. Shape'
  BY <1>1 DEF IInv, Shape, OnlyJob, SameAbilities, At, Busy
<1>3. Agree'
  <2> SUFFICES ASSUME ~stale' PROVE Agree'
    BY DEF Agree
  <2>1. Rebuilding' = Rebuilding /\ \A k \in Rebuilding : job'[k] = job[k]
    BY DEF OnlyJob, Rebuilding, Busy
  <2>2. \A k \in Rebuilding : Listed(job'[k].snap) = Listed(row')
    BY <1>1, <2>1 DEF IInv, Agree, Listed
  <2>3. WillDrop => WillDrop'
    BY DEF OnlyJob, WillDrop, Busy
  <2>4. (\E k \in Jobs : At(k, "add")) => \E k \in Jobs : At(k, "add")'
    BY DEF OnlyJob, At, Busy
  <2> QED  BY <1>1, <2>1, <2>2, <2>3, <2>4 DEF IInv, Agree, Dropped
<1> QED  BY <1>2, <1>3 DEF IInv

\* A status is written to both tables, in one transaction.
LEMMA StatusMoves ==
    ASSUME IInv, NEW j \in Jobs, NEW pc, NEW r, OnlyJob(j, pc, r),
           NEW s, s # "deleted", abil' = Follow(s), Outdates,
           IF Deleted THEN row' = row
                      ELSE RowLike(row') /\ row'.status = s /\ row'.models = row.models,
           job[j].pc \notin Busy, pc \notin Busy, SnapOK(pc, r)
    PROVE  IInv'
<1>1. RowLike(row') /\ (Deleted => Deleted')
  BY DEF IInv, Shape, Deleted
<1>2. abil' \in [Models -> {"on", "off", "none"}]
  BY DEF Follow, Switch
<1>3. Shape'
  BY <1>1, <1>2 DEF IInv, Shape, OnlyJob, Outdates, At, Busy
<1>4. Agree'
  <2> SUFFICES ASSUME ~stale' PROVE Agree'
    BY DEF Agree
  <2>1. ~stale /\ (Rebuilding = {} \/ Listed(row') = Listed(row))
    BY DEF Outdates
  <2>2. Rebuilding' = Rebuilding /\ \A k \in Rebuilding : job'[k] = job[k]
    BY DEF OnlyJob, Rebuilding, Busy
  <2>3. \A k \in Rebuilding : Listed(job'[k].snap) = Listed(row')
    BY <2>1, <2>2 DEF IInv, Agree
  <2>4. WillDrop => WillDrop'
    BY DEF OnlyJob, WillDrop, Busy
  <2>5. (\E k \in Jobs : At(k, "add")) => \E k \in Jobs : At(k, "add")'
    BY DEF OnlyJob, At, Busy
  <2>6. abil = Dropped => abil' = Dropped
    BY DEF Dropped, Follow
  <2>7. abil = Listed(row) => abil' = Listed(row')
    <3> SUFFICES ASSUME abil = Listed(row) PROVE abil' = Listed(row')
      OBVIOUS
    <3> SUFFICES ASSUME NEW m \in Models PROVE Follow(s)[m] = Listed(row')[m]
      BY DEF Follow, Listed
    <3>1. CASE Deleted
      BY <3>1 DEF Follow, Listed, Deleted
    <3>2. CASE ~Deleted
      BY <3>2 DEF Follow, Listed, Deleted, Switch
    <3> QED  BY <3>1, <3>2
  <2>8. WillDrop' \/ abil' = Listed(row') \/ (abil' = Dropped /\ \E k \in Jobs : At(k, "add")')
    BY <2>1, <2>4, <2>5, <2>6, <2>7 DEF IInv, Agree
  <2> QED  BY <2>2, <2>3, <2>8 DEF Agree, Listed, Dropped, At
<1> QED  BY <1>3, <1>4 DEF IInv

\* The row changes, and the job goes on to a step that drops the abilities.
LEMMA RowMoves ==
    ASSUME IInv, NEW j \in Jobs, NEW pc, NEW r, OnlyJob(j, pc, r),
           RowLike(row'), Deleted => Deleted', abil' = abil,
           stale' \in BOOLEAN, stale => stale',
           Rebuilding # {} => stale' \/ Listed(row') = Listed(row),
           job[j].pc \notin {"drop", "add", "unlist"}, pc \in {"reread", "drop", "unlist"},
           SnapOK(pc, r), pc = "unlist" => Deleted',
           pc = "drop" => stale' \/ Listed(r) = Listed(row')
    PROVE  IInv'
<1>1. Shape'
  BY DEF IInv, Shape, OnlyJob, At
<1>2. \A k \in Jobs : k # j => job'[k] = job[k]
  BY DEF OnlyJob
<1>3. job'[j].pc = pc /\ job'[j].snap = r
  BY DEF OnlyJob
<1>4. WillDrop'
  BY <1>3 DEF WillDrop
<1>5. ASSUME ~stale', NEW k \in Rebuilding' PROVE Listed(job'[k].snap) = Listed(row')
  <2>1. CASE k = j
    BY <1>3, <1>5, <2>1 DEF Rebuilding
  <2>2. CASE k # j
    <3>1. k \in Rebuilding /\ job'[k] = job[k]
      BY <1>2, <1>5, <2>2 DEF Rebuilding
    <3>2. Listed(row') = Listed(row)
      BY <1>5, <3>1
    <3>3. Listed(job[k].snap) = Listed(row)
      BY <1>5, <3>1 DEF IInv, Agree
    <3> QED  BY <3>1, <3>2, <3>3
  <2> QED  BY <2>1, <2>2
<1>6. Agree'
  BY <1>4, <1>5 DEF Agree, Listed
<1> QED  BY <1>1, <1>6 DEF IInv

-----------------------------------------------------------------------------
(* The actions. *)

Quiet == UNCHANGED <<row, abil, stale>>

LEMMA RowRests == ASSUME IInv, Quiet PROVE SameAbilities /\ stale' \in BOOLEAN /\ (stale => stale')
  BY DEF IInv, Shape, SameAbilities, Quiet, RowLike

\* The steps of calls, tests, reloads and readings: nothing of the row's statuses or
\* models, nor of the abilities, changes.
LEMMA CallKeeps == ASSUME IInv, NEW j \in Jobs, CallStep(j) PROVE IInv'
<1>1. CASE SelectKey(j)
  <2>1. \E i : job' = [job EXCEPT ![j].pc = "calling", ![j].idx = i]
    BY <1>1 DEF SelectKey
  <2>2. OnlyJob(j, "calling", job[j].snap)
    BY <2>1 DEF IInv, Shape, OnlyJob, JobFields
  <2> QED  BY <1>1, <2>2, RowRests, JobMoves DEF SelectKey, Begins, At, Quiet, Busy, SnapOK
<1>2. CASE CallSucceeds(j)
  BY <1>2, GotoMoves, RowRests, JobMoves DEF CallSucceeds, At, Quiet, Busy, SnapOK, IInv
<1>3. CASE CallFails(j)
  BY <1>3, GotoMoves, RowRests, JobMoves DEF CallFails, At, Quiet, Busy, SnapOK, IInv
<1>4. CASE ReadForUse(j)
  BY <1>4, GotoMoves, KeepsMoves, RowRests, JobMoves DEF ReadForUse, At, Quiet, Busy, SnapOK, IInv
<1>5. CASE SaveUse(j)
  <2>1. SameAbilities /\ stale' \in BOOLEAN /\ (stale => stale')
    BY <1>5 DEF SaveUse, Saved, SameAbilities, IInv, Shape, RowLike
  <2> QED  BY <1>5, <2>1, GotoMoves, JobMoves DEF SaveUse, At, Busy, SnapOK, IInv
<1> QED  BY <1>1, <1>2, <1>3, <1>4, <1>5 DEF CallStep

LEMMA ErrorKeeps == ASSUME IInv, NEW j \in Jobs, ErrorStep(j) PROVE IInv'
<1>1. CASE CopyChannel(j)
  BY <1>1, KeepsMoves, RowRests, JobMoves DEF CopyChannel, At, Quiet, Busy, SnapOK, IInv
<1>2. CASE AlreadyOff(j)
  BY <1>2, GotoMoves, RowRests, JobMoves DEF AlreadyOff, At, Quiet, Busy, SnapOK, IInv
<1>3. CASE UpdateCache(j)
  BY <1>3, GotoMoves, RowRests, JobMoves DEF UpdateCache, At, Quiet, Busy, SnapOK, IInv
<1>4. CASE CommitKey(j)
  <2>1. OnlyJob(j, "done", NoRow) /\ job[j].pc \notin Busy
    BY <1>4, GotoMoves DEF CommitKey, IInv, At, Busy
  <2>2. CASE TurnsOff(Marked(j))
    <3>1. IF Deleted THEN row' = row
                     ELSE RowLike(row') /\ row'.status = "auto" /\ row'.models = row.models
      BY <1>4, <2>2 DEF CommitKey, Saved, IInv, Shape, RowLike
    <3>2. abil' = Follow("auto") /\ Outdates
      BY <1>4, <2>2 DEF CommitKey
    <3> QED  BY <2>1, <3>1, <3>2, StatusMoves DEF Busy, SnapOK
  <2>3. CASE ~TurnsOff(Marked(j))
    <3>1. SameAbilities
      BY <1>4, <2>3 DEF CommitKey, Saved, IInv, Shape, RowLike, SameAbilities
    <3>2. abil' = abil /\ stale' \in BOOLEAN /\ (stale => stale')
      BY <1>4, <2>3 DEF CommitKey, Outdates
    <3> QED  BY <2>1, <3>1, <3>2, JobMoves DEF Busy, SnapOK
  <2> QED  BY <2>2, <2>3
<1> QED  BY <1>1, <1>2, <1>3, <1>4 DEF ErrorStep

\* A job leaves a step at which it is not rebuilding, for one at which it is not.
LEMMA EndsMoves ==
    ASSUME IInv, NEW j \in Jobs, Ends(j)
    PROVE  \E pc \in {"refresh", "done"} :
             OnlyJob(j, pc, IF pc = "done" THEN NoRow ELSE job[j].snap)
  BY GotoMoves DEF Ends, IInv

LEMMA DisableKeeps == ASSUME IInv, NEW j \in Jobs, DisableStep(j) PROVE IInv'
<1>1. CASE DisableReads(j)
  BY <1>1, GotoMoves, RowRests, JobMoves DEF DisableReads, At, Quiet, Busy, SnapOK, IInv
<1>2. CASE DisableCommits(j)
  <2>1. job[j].pc \notin Busy
    BY <1>2 DEF DisableCommits, At, Busy
  <2>2. PICK pc \in {"refresh", "done"} : OnlyJob(j, pc, IF pc = "done" THEN NoRow ELSE job[j].snap)
    BY <1>2, EndsMoves DEF DisableCommits
  <2>3. pc \notin Busy /\ SnapOK(pc, IF pc = "done" THEN NoRow ELSE job[j].snap)
    BY DEF Busy, SnapOK
  <2>4. CASE abil' = Follow("auto") /\ Saved([row EXCEPT !.status = "auto"]) /\ Outdates
    <3>1. IF Deleted THEN row' = row
                     ELSE RowLike(row') /\ row'.status = "auto" /\ row'.models = row.models
      BY <2>4 DEF Saved, IInv, Shape, RowLike
    <3> QED  BY <2>1, <2>2, <2>3, <2>4, <3>1, StatusMoves
  <2>5. CASE UNCHANGED <<row, abil, stale>>
    BY <2>1, <2>2, <2>3, <2>5, RowRests, JobMoves DEF Quiet
  <2> QED  BY <1>2, <2>4, <2>5 DEF DisableCommits
<1> QED  BY <1>1, <1>2 DEF DisableStep

LEMMA TestKeeps == ASSUME IInv, NEW j \in Jobs, TestStep(j) PROVE IInv'
<1>1. CASE TestReads(j)
  BY <1>1, KeepsMoves, RowRests, JobMoves DEF TestReads, Begins, At, Quiet, Busy, SnapOK, IInv
<1>2. CASE TestPasses(j)
  BY <1>2, GotoMoves, RowRests, JobMoves DEF TestPasses, At, Quiet, Busy, SnapOK, IInv
<1>3. CASE TestFails(j)
  BY <1>3, GotoMoves, RowRests, JobMoves DEF TestFails, At, Quiet, Busy, SnapOK, IInv
<1> QED  BY <1>1, <1>2, <1>3 DEF TestStep

LEMMA EnableKeeps == ASSUME IInv, NEW j \in Jobs, EnableStep(j) PROVE IInv'
<1>1. CASE Enable(j)
  <2>1. IF Deleted THEN row' = row
                   ELSE RowLike(row') /\ row'.status = "enabled" /\ row'.models = row.models
    BY <1>1 DEF Enable, Saved, IInv, Shape, RowLike
  <2>2. OnlyJob(j, "reload", job[j].snap)
    BY <1>1, GotoMoves DEF Enable, IInv
  <2> QED  BY <1>1, <2>1, <2>2, StatusMoves DEF Enable, At, Busy, SnapOK
<1>2. CASE ReloadReads(j)
  BY <1>2, KeepsMoves, RowRests, JobMoves DEF ReloadReads, At, Quiet, Busy, SnapOK, IInv
<1>3. CASE ReloadSwaps(j)
  <2>1. PICK pc \in {"refresh", "done"} : OnlyJob(j, pc, IF pc = "done" THEN NoRow ELSE job[j].snap)
    BY <1>3, EndsMoves DEF ReloadSwaps
  <2> QED  BY <1>3, <2>1, RowRests, JobMoves DEF ReloadSwaps, At, Quiet, Busy, SnapOK
<1> QED  BY <1>1, <1>2, <1>3 DEF EnableStep

\* What an edit or a purge will write is a row that is not deleted.
LEMMA CheckedRow ==
    ASSUME NEW r, RowLike(r), r.status # "deleted"
    PROVE  RowLike(Checked(r)) /\ Checked(r).status # "deleted"
  BY DEF Checked, RowLike

LEMMA PurgedRow ==
    ASSUME NEW r, RowLike(r), r.status # "deleted"
    PROVE  RowLike(Purged(r)) /\ Purged(r).status # "deleted"
<1> DEFINE Kept(i) == Cardinality({k \in Usable(r) : k <= i})
           n == Cardinality(Usable(r))
           q == [status |-> r.status, models |-> r.models, count |-> n,
                 keys |-> [i \in 1 .. n |-> r.keys[CHOOSE k \in Usable(r) : Kept(k) = i]],
                 list |-> [i \in Indices |-> "enabled"]]
<1>1. Purged(r) = Checked(q)
  BY DEF Purged
<1>2. RowLike(q) /\ q.status # "deleted"
  BY DEF RowLike
<1> HIDE DEF q
<1> QED  BY <1>1, <1>2, CheckedRow

LEMMA AdminKeeps == ASSUME IInv, NEW j \in Jobs, AdminStep(j) PROVE IInv'
<1>1. CASE SetBatch(j)
  <2>1. PICK s \in BatchStatuses : abil' = Follow(s) /\ Saved([row EXCEPT !.status = s])
    BY <1>1 DEF SetBatch
  <2>2. s # "deleted"
    BY ChannelAssumption
  <2>3. IF Deleted THEN row' = row
                   ELSE RowLike(row') /\ row'.status = s /\ row'.models = row.models
    BY <2>1 DEF Saved, IInv, Shape, RowLike
  <2>4. OnlyJob(j, "done", NoRow) /\ job[j].pc \notin Busy
    BY <1>1, GotoMoves DEF SetBatch, Begins, At, Busy, IInv
  <2> QED  BY <1>1, <2>1, <2>2, <2>3, <2>4, StatusMoves DEF SetBatch, Busy, SnapOK
<1>2. CASE ReadToggle(j)
  <2>1. \E i, r : job' = [job EXCEPT ![j].pc = "saveToggle", ![j].idx = i, ![j].snap = r]
    BY <1>2 DEF ReadToggle
  <2>2. PICK i, r : job' = [job EXCEPT ![j].pc = "saveToggle", ![j].idx = i, ![j].snap = r]
    BY <2>1
  <2>3. OnlyJob(j, "saveToggle", r)
    BY <2>2 DEF IInv, Shape, OnlyJob, JobFields
  <2> QED  BY <1>2, <2>3, RowRests, JobMoves DEF ReadToggle, Begins, At, Quiet, Busy, SnapOK
<1>3. CASE SaveToggle(j)
  <2>1. SameAbilities /\ stale' \in BOOLEAN /\ (stale => stale')
    BY <1>3 DEF SaveToggle, Saved, SameAbilities, IInv, Shape, RowLike
  <2> QED  BY <1>3, <2>1, GotoMoves, JobMoves DEF SaveToggle, At, Busy, SnapOK, IInv
<1>4. CASE ReadEdit(j)
  <2>1. PICK s \in BatchStatuses \cup {row.status}, ms \in (SUBSET Models \ {{}}) \cup {row.models} :
           Keeps(j, "write", [row EXCEPT !.status = s, !.models = ms])
    BY <1>4 DEF ReadEdit
  <2>2. s # "deleted" /\ RowLike(row)
    BY <1>4, ChannelAssumption DEF ReadEdit, Deleted, IInv, Shape
  <2>3. SnapOK("write", [row EXCEPT !.status = s, !.models = ms])
    BY <2>2 DEF SnapOK, RowLike
  <2>4. OnlyJob(j, "write", [row EXCEPT !.status = s, !.models = ms])
    BY <2>1, KeepsMoves DEF IInv
  <2>5. job[j].pc \notin Busy /\ Quiet
    BY <1>4 DEF ReadEdit, Begins, At, Quiet, Busy
  <2> QED  BY <2>3, <2>4, <2>5, RowRests, JobMoves DEF Quiet, Busy
<1>5. CASE ReadPurge(j)
  <2>1. SnapOK("write", Purged(row))
    BY <1>5, PurgedRow DEF ReadPurge, Deleted, SnapOK, IInv, Shape
  <2>2. OnlyJob(j, "write", Purged(row))
    BY <1>5, KeepsMoves DEF ReadPurge, IInv
  <2>3. job[j].pc \notin Busy /\ Quiet
    BY <1>5 DEF ReadPurge, Begins, At, Quiet, Busy
  <2> QED  BY <2>1, <2>2, <2>3, RowRests, JobMoves DEF Quiet, Busy
<1> QED  BY <1>1, <1>2, <1>3, <1>4, <1>5 DEF AdminStep

\* Abilities that are all gone, or those the row lists, are the latter once those of
\* a row that lists the same are added.
LEMMA AddAgrees ==
    ASSUME NEW r, r.status # "deleted", Listed(r) = Listed(row),
           abil = Dropped \/ abil = Listed(row),
           abil' = [m \in Models |-> IF m \in r.models THEN Switch(r.status) ELSE abil[m]]
    PROVE  abil' = Listed(row)
<1> SUFFICES ASSUME NEW m \in Models PROVE abil'[m] = Listed(r)[m]
  BY DEF Listed
<1>1. CASE m \in r.models
  BY <1>1 DEF Listed
<1>2. CASE m \notin r.models
  <2>1. Listed(r)[m] = "none" /\ Dropped[m] = "none"
    BY <1>2 DEF Listed, Dropped
  <2> QED  BY <1>2, <2>1
<1> QED  BY <1>1, <1>2

LEMMA UpdateKeeps == ASSUME IInv, NEW j \in Jobs, UpdateStep(j) PROVE IInv'
<1>1. CASE Write(j)
  <2> DEFINE r == job[j].snap
  <2>1. RowLike(r) /\ r.status # "deleted"
    BY <1>1 DEF Write, At, IInv, Shape, SnapOK
  <2>2. RowLike(row') /\ (Deleted => Deleted')
    BY <1>1, <2>1 DEF Write, Saved, Deleted, IInv, Shape, RowLike
  <2>3. OnlyJob(j, "reread", r)
    BY <1>1, GotoMoves DEF Write, IInv
  <2>4. /\ stale' \in BOOLEAN /\ (stale => stale')
        /\ Rebuilding # {} => stale' \/ Listed(row') = Listed(row)
    BY <1>1 DEF Write, Outdates
  <2> QED  BY <1>1, <2>1, <2>2, <2>3, <2>4, RowMoves DEF Write, At, SnapOK
<1>2. CASE Reread(j)
  <2> DEFINE r == job[j].snap
  <2>1. RowLike(r) /\ r.status # "deleted"
    BY <1>2 DEF Reread, At, IInv, Shape, SnapOK
  <2>2. SameAbilities
    BY <1>2 DEF Reread, IInv, Shape, RowLike, SameAbilities
  <2>3. Listed(row') = Listed(row) /\ Deleted' = Deleted
    BY <2>2, ListedRests DEF Listed
  <2>4. stale' \in BOOLEAN /\ (stale => stale') /\ (Deleted => stale')
    BY <1>2 DEF Reread, IInv, Shape
  <2>5. OnlyJob(j, "drop", IF Deleted THEN r ELSE row')
    BY <1>2, GotoMoves, KeepsMoves DEF Reread, IInv
  <2>6. SnapOK("drop", IF Deleted THEN r ELSE row')
    BY <2>1, <2>2 DEF SnapOK, Deleted, SameAbilities
  <2> QED  BY <1>2, <2>2, <2>3, <2>4, <2>5, <2>6, RowMoves DEF Reread, At, SameAbilities
<1>3. CASE Drop(j)
  <2>1. OnlyJob(j, "add", job[j].snap) /\ At(j, "drop")
    BY <1>3, GotoMoves DEF Drop, IInv
  <2>2. row' = row /\ stale' = stale /\ abil' = Dropped
    BY <1>3 DEF Drop, Dropped
  <2>3. Shape'
    BY <2>1, <2>2 DEF IInv, Shape, OnlyJob, At, SnapOK, RowLike, Deleted, Dropped
  <2>4. \A k \in Jobs : job'[k].snap = job[k].snap
    BY <2>1 DEF OnlyJob
  <2>5. Rebuilding' = Rebuilding
    BY <2>1 DEF OnlyJob, Rebuilding, At
  <2>6. At(j, "add")'
    BY <2>1 DEF OnlyJob, At
  <2>7. ASSUME ~stale', NEW k \in Rebuilding' PROVE Listed(job'[k].snap) = Listed(row')
    BY <2>2, <2>4, <2>5, <2>7 DEF IInv, Agree, Rebuilding
  <2>8. Agree'
    BY <2>2, <2>6, <2>7 DEF Agree, Listed, Dropped
  <2> QED  BY <2>3, <2>8 DEF IInv
<1>4. CASE Add(j)
  <2> DEFINE r == job[j].snap
  <2>1. At(j, "add") /\ RowLike(r) /\ r.status # "deleted"
    BY <1>4 DEF Add, At, IInv, Shape, SnapOK
  <2>2. row' = row /\ stale' = stale
    BY <1>4 DEF Add
  <2>3. PICK pc \in Followers : Goto(j, pc)
    BY <1>4 DEF Add, Followers, IInv, Shape
  <2>4. OnlyJob(j, pc, IF pc = "done" THEN NoRow ELSE r) /\ pc \notin Busy
    BY <2>3, GotoMoves DEF IInv, Followers, Busy
  <2>5. abil' \in [Models -> {"on", "off", "none"}]
    BY <1>4 DEF Add, Switch, IInv, Shape
  <2>6. Shape'
    BY <2>2, <2>4, <2>5 DEF IInv, Shape, OnlyJob, At, SnapOK, RowLike, Deleted, Busy, Followers
  <2>7. \A k \in Jobs : k # j => job'[k] = job[k]
    BY <2>4 DEF OnlyJob
  <2>8. ASSUME ~stale', NEW k \in Rebuilding' PROVE Listed(job'[k].snap) = Listed(row')
    <3>1. k # j
      BY <2>4, <2>8 DEF OnlyJob, Rebuilding, Busy
    <3> QED  BY <2>2, <2>7, <2>8, <3>1 DEF IInv, Agree, Rebuilding
  <2>9. WillDrop => WillDrop'
    BY <2>1, <2>7 DEF WillDrop, At
  <2>10. ASSUME ~stale', ~WillDrop PROVE abil' = Listed(row)
    <3>1. Listed(r) = Listed(row)
      BY <2>1, <2>2, <2>10 DEF IInv, Agree, Rebuilding, At
    <3>2. abil = Dropped \/ abil = Listed(row)
      BY <2>2, <2>10 DEF IInv, Agree
    <3>3. CASE abil' = [m \in Models |-> IF m \in r.models THEN Switch(r.status) ELSE abil[m]]
      BY <2>1, <3>1, <3>2, <3>3, AddAgrees
    <3>4. CASE abil' = abil /\ \E m \in r.models : abil[m] # "none"
      <4> SUFFICES ASSUME abil = Dropped PROVE FALSE
        BY <3>2, <3>4
      <4>1. PICK m \in r.models : abil[m] # "none"
        BY <3>4
      <4> QED  BY <2>1, <4>1 DEF Dropped, RowLike
    <3> QED  BY <1>4, <3>3, <3>4 DEF Add
  <2>11. Agree'
    BY <2>2, <2>8, <2>9, <2>10 DEF Agree, Listed
  <2> QED  BY <2>6, <2>11 DEF IInv
<1> QED  BY <1>1, <1>2, <1>3, <1>4 DEF UpdateStep

LEMMA UpstreamKeeps == ASSUME IInv, NEW j \in Jobs, UpstreamStep(j) PROVE IInv'
<1>1. CASE UpstreamReads(j)
  <2>1. job' = [job EXCEPT ![j].pc = "fetching", ![j].snap = row, ![j].task = TRUE]
    BY <1>1 DEF UpstreamReads
  <2>2. OnlyJob(j, "fetching", row)
    BY <2>1 DEF IInv, Shape, OnlyJob, JobFields
  <2>3. SnapOK("fetching", row)
    BY <1>1 DEF UpstreamReads, SnapOK, IInv, Shape
  <2> QED  BY <1>1, <2>2, <2>3, RowRests, JobMoves DEF UpstreamReads, Begins, At, Quiet, Busy
<1>2. CASE ApplyReads(j)
  <2>1. OnlyJob(j, "fetching", row)
    BY <1>2, KeepsMoves DEF ApplyReads, IInv
  <2>2. SnapOK("fetching", row)
    BY <1>2 DEF ApplyReads, SnapOK, Deleted, IInv, Shape
  <2> QED  BY <1>2, <2>1, <2>2, RowRests, JobMoves DEF ApplyReads, Begins, At, Quiet, Busy
<1>3. CASE UpstreamNothing(j)
  BY <1>3, GotoMoves, RowRests, JobMoves DEF UpstreamNothing, At, Quiet, Busy, SnapOK, IInv
<1>4. CASE UpstreamSaves(j)
  <2> DEFINE r == job[j].snap
  <2>1. PICK models \in SUBSET Models :
           /\ Saved([row EXCEPT !.models = models])
           /\ job' = [job EXCEPT ![j].pc = "drop", ![j].snap.models = models,
                                 ![j].next = Afterwards(j, models)]
    BY <1>4 DEF UpstreamSaves
  <2> DEFINE q == [r EXCEPT !.models = models]
  <2>2. At(j, "fetching") /\ RowLike(r) /\ r.status # "deleted"
    BY <1>4 DEF UpstreamSaves, At, IInv, Shape, SnapOK
  <2>3. RowLike(q) /\ q.status = r.status /\ q.models = models
    BY <2>2 DEF RowLike
  <2>4. Afterwards(j, models) \in Followers
    BY DEF Afterwards, Followers
  <2>5. OnlyJob(j, "drop", q)
    BY <2>1, <2>4 DEF IInv, Shape, OnlyJob, JobFields
  <2>6. IF Deleted THEN row' = row
                   ELSE RowLike(row') /\ row'.status = row.status /\ row'.models = models
    BY <2>1 DEF Saved, IInv, Shape, RowLike
  <2>7. RowLike(row') /\ (Deleted => Deleted')
    BY <2>6 DEF Deleted, IInv, Shape
  <2>8. /\ stale' \in BOOLEAN /\ (stale => stale')
        /\ Rebuilding # {} => stale' \/ row' = row
        /\ r.status # row.status => stale'
    BY <1>4 DEF UpstreamSaves, IInv, Shape
  <2>9. Rebuilding # {} => stale' \/ Listed(row') = Listed(row)
    BY <2>8
  <2>10. ASSUME ~stale' PROVE Listed(q) = Listed(row')
    <3>1. r.status = row.status /\ ~Deleted
      BY <2>2, <2>8, <2>10 DEF Deleted
    <3> QED  BY <2>3, <2>6, <3>1 DEF Listed
  <2>11. SnapOK("drop", q)
    BY <2>2, <2>3 DEF SnapOK
  <2>12. abil' = abil
    BY <1>4 DEF UpstreamSaves
  <2> HIDE DEF q
  <2> QED  BY <2>2, <2>5, <2>7, <2>8, <2>9, <2>10, <2>11, <2>12, RowMoves DEF At
<1>5. CASE RefreshReads(j)
  BY <1>5, KeepsMoves, RowRests, JobMoves DEF RefreshReads, At, Quiet, Busy, SnapOK, IInv
<1>6. CASE RefreshInstalls(j)
  BY <1>6, GotoMoves, RowRests, JobMoves DEF RefreshInstalls, At, Quiet, Busy, SnapOK, IInv
<1> QED  BY <1>1, <1>2, <1>3, <1>4, <1>5, <1>6 DEF UpstreamStep

LEMMA RemovedRow == ASSUME IInv PROVE RowLike(Removed) /\ Removed.status = "deleted"
  BY DEF IInv, Shape, RowLike, Removed

\* A step after which the abilities, or a mark that they may be wrong, leave nothing
\* for the invariant to say of other jobs than what it said before.
LEMMA ShapeMoves ==
    ASSUME Shape, NEW j \in Jobs, NEW pc, NEW r, OnlyJob(j, pc, r), RowLike(row'),
           Deleted => Deleted', abil' \in [Models -> {"on", "off", "none"}],
           stale' \in BOOLEAN, SnapOK(pc, r), pc # "unlist"
    PROVE  Shape'
  BY DEF Shape, OnlyJob, At

LEMMA DeleteKeeps == ASSUME IInv, NEW j \in Jobs, DeleteStep(j) PROVE IInv'
<1>1. CASE Delete(j)
  <2>1. RowLike(row') /\ Deleted'
    BY <1>1, RemovedRow DEF Delete, Deleted
  <2>2. OnlyJob(j, "unlist", job[j].snap)
    BY <1>1, GotoMoves DEF Delete, IInv
  <2>3. /\ stale' \in BOOLEAN /\ (stale => stale')
        /\ Rebuilding # {} => stale' \/ Listed(row') = Listed(row)
    BY <1>1 DEF Delete, Outdates
  <2> QED  BY <1>1, <2>1, <2>2, <2>3, RowMoves DEF Delete, Begins, At, SnapOK
<1>2. CASE DeleteAbilities(j) \/ DeleteBatch(j)
  <2>1. OnlyJob(j, "done", NoRow) /\ job[j].pc \notin {"drop", "add"} /\ abil' = Dropped
    BY <1>2, GotoMoves DEF DeleteAbilities, DeleteBatch, Begins, At, Dropped, IInv
  <2>2. RowLike(row') /\ Deleted'
    BY <1>2, RemovedRow DEF DeleteAbilities, DeleteBatch, Deleted, At, IInv, Shape
  <2>3. /\ stale' \in BOOLEAN /\ (stale => stale')
        /\ Rebuilding # {} => stale' \/ Listed(row') = Listed(row)
    BY <1>2 DEF DeleteAbilities, DeleteBatch, Outdates, IInv, Shape
  <2>4. Dropped \in [Models -> {"on", "off", "none"}]
    BY DEF Dropped
  <2>5. Shape'
    BY <2>1, <2>2, <2>3, <2>4, ShapeMoves DEF IInv, SnapOK
  <2>6. Rebuilding' = Rebuilding /\ \A k \in Rebuilding : job'[k] = job[k]
    BY <2>1 DEF OnlyJob, Rebuilding
  <2>7. Listed(row') = Dropped
    BY <2>2 DEF Listed, Dropped, Deleted
  <2>8. ASSUME ~stale', NEW k \in Rebuilding' PROVE Listed(job'[k].snap) = Listed(row')
    BY <2>3, <2>6, <2>8 DEF IInv, Agree
  <2>9. Agree'
    BY <2>1, <2>7, <2>8 DEF Agree, Listed
  <2> QED  BY <2>5, <2>9 DEF IInv
<1>3. CASE DeleteDisabled(j)
  <2>1. OnlyJob(j, "done", NoRow) /\ RowLike(row') /\ Deleted' /\ stale' = TRUE /\ abil' = abil
    BY <1>3, GotoMoves, RemovedRow DEF DeleteDisabled, Deleted, IInv
  <2>2. Shape'
    BY <2>1, ShapeMoves DEF IInv, Shape, SnapOK
  <2> QED  BY <2>1, <2>2 DEF IInv, Agree
<1> QED  BY <1>1, <1>2, <1>3 DEF DeleteStep

LEMMA FaultKeeps == ASSUME IInv, NEW j \in Jobs, Fault(j) PROVE IInv'
<1>1. CASE CommitFails(j)
  BY <1>1, GotoMoves, RowRests, JobMoves DEF CommitFails, At, Quiet, Busy, SnapOK, IInv
<1>2. CASE UpdateFails(j)
  <2>1. PICK pc \in {"done", "refresh"} : Goto(j, pc)
    BY <1>2 DEF UpdateFails
  <2>2. OnlyJob(j, pc, IF pc = "done" THEN NoRow ELSE job[j].snap)
    BY <2>1, GotoMoves DEF IInv
  <2>3. row' = row /\ abil' = abil /\ stale' = TRUE
    BY <1>2 DEF UpdateFails
  <2>4. Shape'
    BY <2>2, <2>3, ShapeMoves DEF IInv, Shape, SnapOK, Deleted
  <2> QED  BY <2>3, <2>4 DEF IInv, Agree
<1> QED  BY <1>1, <1>2 DEF Fault

\* A restart that leaves no mark finds, or makes, abilities that agree with the row,
\* and leaves no other process a rebuild that would change them.
LEMMA RestartKeeps == ASSUME IInv, NEW p \in Procs, Restart(p) PROVE IInv'
<1>1. /\ job' = [j \in Jobs |-> IF ProcOf[j] = p /\ ~At(j, "idle")
                                 THEN [Fresh EXCEPT !.pc = "done"] ELSE job[j]]
      /\ row' = row
  BY DEF Restart
<1>2. \A j \in Jobs :
        \/ job'[j] = job[j] /\ (ProcOf[j] # p \/ At(j, "idle"))
        \/ /\ DOMAIN job'[j] = JobFields
           /\ job'[j].pc = "done" /\ job'[j].next \in Followers
  BY <1>1 DEF Fresh, JobFields, Followers
<1>3. abil' \in [Models -> {"on", "off", "none"}]
  BY DEF Restart, Follow, Switch, IInv, Shape
<1>4. /\ stale' \in BOOLEAN
      /\ ~stale' => /\ abil' = Listed(row)
                    /\ \A j \in Rebuilding : ProcOf[j] = p \/ Listed(job[j].snap) = Listed(row)
  BY DEF Restart
<1>5. job' = [j \in Jobs |-> job'[j]]
  BY <1>1
<1>6. Shape'
  BY <1>1, <1>2, <1>3, <1>4, <1>5 DEF IInv, Shape, SnapOK, At, Deleted
<1>7. ASSUME NEW j \in Rebuilding' PROVE j \in Rebuilding /\ job'[j] = job[j] /\ ProcOf[j] # p
  BY <1>2, <1>7 DEF Rebuilding, At
<1>8. Agree'
  BY <1>1, <1>4, <1>7 DEF Agree, Listed
<1> QED  BY <1>6, <1>8 DEF IInv

LEMMA IInvNext == IInv /\ [Next]_vars => IInv'
<1> SUFFICES ASSUME IInv, [Next]_vars PROVE IInv'
  OBVIOUS
<1>1. CASE \E j \in Jobs :
             \/ CallStep(j) \/ LockStep(j) \/ TestStep(j) \/ AdminStep(j) \/ UpdateStep(j)
             \/ UpstreamStep(j) \/ DeleteStep(j) \/ Fault(j)
  BY <1>1, CallKeeps, ErrorKeeps, DisableKeeps, EnableKeeps, TestKeeps, AdminKeeps,
     UpdateKeeps, UpstreamKeeps, DeleteKeeps, FaultKeeps DEF LockStep
<1>2. ASSUME NEW p \in Procs, SyncStep(p) PROVE IInv'
  BY <1>2, IInvRests DEF SyncStep, SyncReads, SyncSwaps
<1>3. CASE \E p \in Procs : Restart(p)
  BY <1>3, RestartKeeps
<1>4. CASE UNCHANGED vars
  BY <1>4, IInvRests DEF vars
<1> QED  BY <1>1, <1>2, <1>3, <1>4 DEF Next

LEMMA IInvHolds == Spec => []IInv
  BY IInvInit, IInvNext, PTL DEF Spec

-----------------------------------------------------------------------------
(* Keys: who holds the lock, and where the keys that are off are on record. *)

\* Steps at which the job writes from the row it read, steps of a job that is about a
\* key, and those of them it cannot reach without one.
Reading == {"saveUse", "copied", "commit", "swap", "saveToggle", "write", "reread", "install"}
OfKey == {"calling", "used", "saveUse", "failed", "copied", "commit", "saveToggle", "done"}
NeedsKey == {"calling", "failed", "copied", "commit"}

Sound(r) == RowLike(r) /\ DOMAIN r.list = Indices /\ 1 .. Len(r.keys) \subseteq Indices

KeyOK(pc, i) ==
    /\ i \in 0 .. KeyCount
    /\ pc \in NeedsKey => i # 0
    /\ MultiKey /\ i # 0 => pc \in OfKey
    /\ ~MultiKey /\ pc = "done" => i = 0

Held ==
    /\ Sound(row)
    /\ cache = [p \in Procs |-> cache[p]] /\ loading = [p \in Procs |-> loading[p]]
    /\ \A p \in Procs : /\ cache[p] # NoRow => Sound(cache[p]) /\ cache[p].status # "deleted"
                        /\ loading[p] # NoRow => Sound(loading[p])
    /\ \A j \in Jobs : /\ KeyOK(job[j].pc, job[j].idx)
                       /\ job[j].pc \in Reading => Sound(job[j].snap)

\* The lock of a process is held by its job at a locked step, if there is one.
Owned ==
    /\ lock \in [Procs -> Jobs \cup {NoJob}]
    /\ ~Deleted => \A j \in Jobs : lock[ProcOf[j]] = j <=> job[j].pc \in Locked

\* The keys a row says an error switched off, and those the cache knows of: one more
\* while a handler is about to save it.
Autos(r) == {i \in Indices : r.list[i] = "auto"}
Known == Autos(row) \cup {job[j].idx : j \in {k \in Jobs : At(k, "commit")}}

Marks ==
    OneProcess /\ ~outside /\ ~Deleted =>
      \A j \in Jobs :
        /\ ~At(j, "reread")
        /\ At(j, "done") /\ job[j].idx # 0 => job[j].idx \in Autos(row)
        /\ job[j].pc \in {"copied", "commit", "swap"} => Autos(job[j].snap) = Autos(row)
        /\ cache[ProcOf[j]] # NoRow => Autos(cache[ProcOf[j]]) = Known

KInv == Held /\ Owned /\ Marks

LEMMA KInvInit == Init => KInv
<1> SUFFICES ASSUME Init PROVE KInv
  OBVIOUS
<1>1. Sound(row) /\ row.status # "deleted" /\ row.status = InitStatus
  <2>1. row.keys = [i \in 1 .. KeyCount |-> i] /\ KeyCount \in Nat
    BY ChannelAssumption DEF Init, Indices
  <2>2. Len(row.keys) = KeyCount
    BY <2>1
  <2>3. RowLike(row) /\ DOMAIN row.list = Indices /\ row.status # "deleted" /\ row.status = InitStatus
    BY ChannelAssumption DEF Init, RowLike, Statuses
  <2> QED  BY <2>2, <2>3 DEF Sound, Indices
<1>2. Held
  <2>1. \A p \in Procs : cache[p] = Loaded(row) /\ loading[p] = NoRow
    BY DEF Init
  <2>2. \A p \in Procs : cache[p] # NoRow => Sound(cache[p]) /\ cache[p].status # "deleted"
    BY <1>1, <2>1 DEF Loaded
  <2>3. \A j \in Jobs : job[j].pc = "idle" /\ job[j].idx = 0
    BY DEF Init, Fresh
  <2>4. \A j \in Jobs : KeyOK(job[j].pc, job[j].idx) /\ job[j].pc \notin Reading
    BY <2>3, ChannelAssumption DEF KeyOK, NeedsKey, Reading
  <2>5. cache = [p \in Procs |-> cache[p]] /\ loading = [p \in Procs |-> loading[p]]
    BY DEF Init
  <2> QED  BY <1>1, <2>1, <2>2, <2>4, <2>5 DEF Held
<1>3. Owned
  BY ChannelAssumption DEF Init, Owned, Fresh, Locked
<1>4. Marks
  <2>1. \A j \in Jobs : job[j].pc = "idle"
    BY DEF Init, Fresh
  <2>2. \A p \in Procs : cache[p] # NoRow => cache[p] = row
    BY DEF Init, Loaded
  <2>3. Known = Autos(row)
    BY <2>1 DEF Known, At
  <2>4. \A j \in Jobs : ProcOf[j] \in Procs
    BY ChannelAssumption
  <2> QED  BY <2>1, <2>2, <2>3, <2>4 DEF Marks, At
<1> QED  BY <1>2, <1>3, <1>4 DEF KInv

LEMMA KInvRests ==
    ASSUME KInv, UNCHANGED <<row, cache, lock, job, outside>>, Sound(row'),
           loading' = [p \in Procs |-> loading'[p]],
           \A p \in Procs : loading'[p] # NoRow => Sound(loading'[p])
    PROVE  KInv'
<1>1. Held'
  BY DEF KInv, Held
<1>2. Owned'
  BY DEF KInv, Owned, Deleted
<1>3. Marks'
  BY DEF KInv, Marks, Deleted, At, Autos, Known
<1> QED  BY <1>1, <1>2, <1>3 DEF KInv

-----------------------------------------------------------------------------
(* How a step changes them. *)

LEMMA GotoKey ==
    ASSUME Shape, NEW j \in Jobs, NEW pc, Goto(j, pc)
    PROVE  job'[j].idx = IF pc = "done" /\ ~MultiKey THEN 0 ELSE job[j].idx
<1>1. DOMAIN job = Jobs /\ DOMAIN job[j] = JobFields
  BY DEF Shape
<1>2. job'[j] = IF pc = "done" THEN Finished(j) ELSE [job[j] EXCEPT !.pc = pc]
  BY <1>1 DEF Goto
<1> QED  BY <1>1, <1>2 DEF Finished, Fresh, JobFields

LEMMA KeepsKey ==
    ASSUME Shape, NEW j \in Jobs, NEW pc, NEW r, Keeps(j, pc, r)
    PROVE  job'[j].idx = job[j].idx
<1>1. DOMAIN job = Jobs /\ DOMAIN job[j] = JobFields
  BY DEF Shape
<1> QED  BY <1>1 DEF Keeps, JobFields

LEMMA KeyGoes ==
    ASSUME NEW old, NEW pc, NEW i, KeyOK(old, i), pc \notin NeedsKey,
           pc \in OfKey \/ old \notin OfKey \/ ~MultiKey
    PROVE  KeyOK(pc, IF pc = "done" /\ ~MultiKey THEN 0 ELSE i)
  BY ChannelAssumption DEF KeyOK, NeedsKey, OfKey

LEMMA HeldMoves ==
    ASSUME Held, NEW j \in Jobs, NEW pc, NEW r, OnlyJob(j, pc, r),
           KeyOK(pc, job'[j].idx), pc \in Reading => Sound(r), Sound(row'),
           UNCHANGED <<cache, loading>>
    PROVE  Held'
  BY DEF Held, OnlyJob

LEMMA OwnedMoves ==
    ASSUME Owned, NEW j \in Jobs, NEW pc, NEW r, OnlyJob(j, pc, r), Deleted => Deleted',
           \/ lock' = lock /\ (job[j].pc \in Locked <=> pc \in Locked)
           \/ Acquire(j) /\ pc \in Locked
           \/ Release(j) /\ pc \notin Locked /\ job[j].pc \in Locked
    PROVE  Owned'
<1>1. ProcOf[j] \in Procs /\ NoJob \notin Jobs
  BY ChannelAssumption
<1>2. lock' \in [Procs -> Jobs \cup {NoJob}]
  BY <1>1 DEF Owned, Acquire, Release
<1>3. ASSUME ~Deleted', NEW k \in Jobs PROVE lock'[ProcOf[k]] = k <=> job'[k].pc \in Locked
  <2>1. /\ lock[ProcOf[k]] = k <=> job[k].pc \in Locked
        /\ lock[ProcOf[j]] = j <=> job[j].pc \in Locked
        /\ ProcOf[k] \in Procs
    BY <1>3, ChannelAssumption DEF Owned
  <2>2. k # j => job'[k] = job[k]
    BY DEF OnlyJob
  <2>3. job'[j].pc = pc
    BY DEF OnlyJob
  <2>4. CASE lock' = lock /\ (job[j].pc \in Locked <=> pc \in Locked)
    BY <2>1, <2>2, <2>3, <2>4
  <2>5. CASE Acquire(j) /\ pc \in Locked
    <3>1. lock[ProcOf[j]] = NoJob /\ lock' = [lock EXCEPT ![ProcOf[j]] = j]
      BY <2>5 DEF Acquire
    <3>2. lock'[ProcOf[j]] = j /\ \A p \in Procs : p # ProcOf[j] => lock'[p] = lock[p]
      BY <1>1, <3>1 DEF Owned
    <3> QED  BY <1>1, <2>1, <2>2, <2>3, <2>5, <3>1, <3>2
  <2>6. CASE Release(j) /\ pc \notin Locked /\ job[j].pc \in Locked
    <3>1. lock'[ProcOf[j]] = NoJob /\ \A p \in Procs : p # ProcOf[j] => lock'[p] = lock[p]
      BY <1>1, <2>1, <2>6 DEF Owned, Release
    <3> QED  BY <1>1, <2>1, <2>2, <2>3, <2>6, <3>1
  <2> QED  BY <2>4, <2>5, <2>6
<1> QED  BY <1>2, <1>3 DEF Owned

\* One process, no writer that goes round the lock, and the channel is there.
Serial == OneProcess /\ ~outside /\ ~Deleted

LEMMA MarksMoves ==
    ASSUME Marks, NEW j \in Jobs, NEW pc, NEW r, OnlyJob(j, pc, r),
           UNCHANGED <<cache, outside>>, Deleted => Deleted', row'.list = row.list,
           job[j].pc # "commit", pc \notin {"reread", "commit"},
           pc = "done" /\ Serial => job'[j].idx = 0 \/ job'[j].idx \in Autos(row),
           pc \in {"copied", "swap"} /\ Serial => Autos(r) = Autos(row)
    PROVE  Marks'
<1> SUFFICES ASSUME Serial' PROVE Marks'
  BY DEF Marks, Serial
<1>1. Serial
  BY DEF Serial, OneProcess
<1>2. Autos(row)' = Autos(row)
  BY DEF Autos
<1>3. \A k \in Jobs : k # j => job'[k] = job[k]
  BY DEF OnlyJob
<1>4. job'[j].pc = pc /\ job'[j].snap = r
  BY DEF OnlyJob
<1>5. Known' = Known
  BY <1>2, <1>3, <1>4 DEF Known, At
<1>6. \A k \in Jobs : cache[ProcOf[k]] # NoRow => Autos(cache[ProcOf[k]]) = Known
  BY <1>1 DEF Marks, Serial
<1>7. ASSUME NEW k \in Jobs
      PROVE  /\ job'[k].pc # "reread"
             /\ job'[k].pc = "done" /\ job'[k].idx # 0 => job'[k].idx \in Autos(row)
             /\ job'[k].pc \in {"copied", "commit", "swap"} => Autos(job'[k].snap) = Autos(row)
  <2>1. CASE k = j
    BY <1>1, <1>4, <2>1
  <2>2. CASE k # j
    BY <1>1, <1>3, <2>2 DEF Marks, Serial, At
  <2> QED  BY <2>1, <2>2
<1> QED  BY <1>2, <1>5, <1>6, <1>7 DEF Marks, At, Autos

LEMMA MarksEnd == ASSUME outside' = TRUE \/ Deleted' PROVE Marks'
  BY DEF Marks

LEMMA KInvMoves ==
    ASSUME KInv, NEW j \in Jobs, NEW pc, NEW r, OnlyJob(j, pc, r),
           KeyOK(pc, job'[j].idx), pc \in Reading => Sound(r), Sound(row'),
           UNCHANGED <<cache, loading, lock, outside>>, Deleted => Deleted',
           row'.list = row.list, job[j].pc \notin Locked, pc \notin Locked \cup {"reread"},
           pc = "done" /\ Serial => job'[j].idx = 0
    PROVE  KInv'
<1>1. job[j].pc # "commit" /\ pc \notin {"reread", "commit", "copied", "swap"}
  BY DEF Locked
<1>2. Held'
  BY HeldMoves DEF KInv
<1>3. Owned'
  BY OwnedMoves DEF KInv
<1>4. Marks'
  BY <1>1, MarksMoves DEF KInv
<1> QED  BY <1>2, <1>3, <1>4 DEF KInv

\* A step that leaves the keys of the row, the cache and the lock alone.
KeysRest ==
    /\ Sound(row') /\ row'.list = row.list
    /\ Deleted => Deleted'
    /\ UNCHANGED <<cache, loading, lock, outside>>

LEMMA GoesOn ==
    ASSUME IInv, KInv, NEW j \in Jobs, NEW pc, Goto(j, pc), KeysRest,
           job[j].pc \notin Locked, pc \notin Locked \cup NeedsKey \cup Reading,
           job[j].pc \notin OfKey \/ ~MultiKey \/ pc \in OfKey \ {"done"}
    PROVE  KInv'
<1> DEFINE r == IF pc = "done" THEN NoRow ELSE job[j].snap
<1>1. OnlyJob(j, pc, r)
  BY GotoMoves DEF IInv
<1>2. job'[j].idx = IF pc = "done" /\ ~MultiKey THEN 0 ELSE job[j].idx
  BY GotoKey DEF IInv
<1>3. KeyOK(job[j].pc, job[j].idx)
  BY DEF KInv, Held
<1>4. KeyOK(pc, job'[j].idx)
  BY <1>2, <1>3, KeyGoes
<1>5. pc = "done" => job'[j].idx = 0
  BY <1>2, <1>3 DEF KeyOK
<1>6. pc # "reread"
  BY DEF Reading
<1> HIDE DEF r
<1> QED  BY <1>1, <1>4, <1>5, <1>6, KInvMoves DEF KeysRest

LEMMA ReadsOn ==
    ASSUME IInv, KInv, NEW j \in Jobs, NEW pc, NEW r, Keeps(j, pc, r), KeysRest,
           job[j].pc \notin Locked, pc \notin Locked \cup NeedsKey \cup {"reread", "done"},
           job[j].pc \notin OfKey \/ pc \in OfKey, Sound(r)
    PROVE  KInv'
<1>1. OnlyJob(j, pc, r)
  BY KeepsMoves DEF IInv
<1>2. job'[j].idx = job[j].idx
  BY KeepsKey DEF IInv
<1>3. KeyOK(pc, job'[j].idx)
  BY <1>2, KeyGoes DEF KInv, Held
<1> QED  BY <1>1, <1>3, KInvMoves DEF KeysRest

\* What a step that changes no row, no cache and no lock rests on.
Idle == UNCHANGED <<row, cache, loading, lock, outside>>

LEMMA IdleRests == ASSUME KInv, Idle PROVE KeysRest
  BY DEF KInv, Held, Idle, KeysRest, Deleted

LEMMA Alone ==
    ASSUME KInv, Serial, NEW j \in Jobs, NEW k \in Jobs,
           job[j].pc \in Locked, job[k].pc \in Locked
    PROVE  j = k
  BY DEF KInv, Owned, Serial, OneProcess

LEMMA Nobody ==
    ASSUME KInv, ~Deleted, NEW j \in Jobs, lock[ProcOf[j]] = NoJob, NEW k \in Jobs,
           ProcOf[j] = ProcOf[k]
    PROVE  job[k].pc \notin Locked
  BY ChannelAssumption DEF KInv, Owned

LEMMA SoundStays ==
    ASSUME Held, RowLike(row'), row'.keys = row.keys, DOMAIN row'.list = Indices
    PROVE  Sound(row')
  BY DEF Held, Sound

\* A step after which the marks say nothing: a writer goes round the lock, or the
\* channel is gone.
LEMMA GoesRound ==
    ASSUME IInv, KInv, NEW j \in Jobs, NEW pc, Goto(j, pc), Sound(row'),
           UNCHANGED <<cache, loading>>, Deleted => Deleted', outside' = TRUE \/ Deleted',
           pc \notin NeedsKey, pc \in OfKey \/ job[j].pc \notin OfKey \/ ~MultiKey,
           pc \in Reading => job[j].pc \in Reading /\ pc # "done",
           \/ lock' = lock /\ job[j].pc \notin Locked /\ pc \notin Locked
           \/ Release(j) /\ job[j].pc \in Locked /\ pc \notin Locked
           \/ lock' \in [Procs -> Jobs \cup {NoJob}] /\ Deleted'
    PROVE  KInv'
<1> DEFINE r == IF pc = "done" THEN NoRow ELSE job[j].snap
<1>1. OnlyJob(j, pc, r)
  BY GotoMoves DEF IInv
<1>2. job'[j].idx = IF pc = "done" /\ ~MultiKey THEN 0 ELSE job[j].idx
  BY GotoKey DEF IInv
<1>3. KeyOK(pc, job'[j].idx)
  BY <1>2, KeyGoes DEF KInv, Held
<1>4. pc \in Reading => Sound(r)
  BY DEF KInv, Held
<1> HIDE DEF r
<1>5. Held'
  BY <1>1, <1>3, <1>4, HeldMoves DEF KInv
<1>6. Owned'
  <2>1. CASE lock' \in [Procs -> Jobs \cup {NoJob}] /\ Deleted'
    BY <2>1 DEF Owned
  <2>2. CASE \/ lock' = lock /\ job[j].pc \notin Locked /\ pc \notin Locked
             \/ Release(j) /\ job[j].pc \in Locked /\ pc \notin Locked
    BY <1>1, <2>2, OwnedMoves DEF KInv
  <2> QED  BY <2>1, <2>2
<1> QED  BY <1>5, <1>6, MarksEnd DEF KInv

-----------------------------------------------------------------------------
(* The actions, again. *)

LEMMA CallKeepsKeys == ASSUME IInv, IInv', KInv, NEW j \in Jobs, CallStep(j) PROVE KInv'
<1>1. CASE SelectKey(j)
  <2>1. PICK i \in Usable(row) : job' = [job EXCEPT ![j].pc = "calling", ![j].idx = i]
    BY <1>1 DEF SelectKey
  <2>2. OnlyJob(j, "calling", job[j].snap) /\ job'[j].idx = i
    BY <2>1 DEF IInv, Shape, OnlyJob, JobFields
  <2>3. i \in Indices
    BY DEF KInv, Held, Sound, Usable
  <2>4. KeyOK("calling", job'[j].idx)
    BY <2>2, <2>3, ChannelAssumption DEF KeyOK, OfKey, Indices
  <2>5. job[j].pc \notin Locked /\ Idle
    BY <1>1 DEF SelectKey, Begins, At, Locked, Idle
  <2> QED  BY <2>2, <2>4, <2>5, IdleRests, KInvMoves DEF KeysRest, Locked, Reading
<1>2. CASE CallSucceeds(j)
  <2>1. Idle /\ job[j].pc = "calling" /\ Goto(j, IF MultiKey THEN "used" ELSE "done")
    BY <1>2 DEF CallSucceeds, At, Idle
  <2> QED  BY <2>1, IdleRests, GoesOn DEF Locked, NeedsKey, Reading, OfKey
<1>3. CASE CallFails(j)
  <2>1. Idle /\ job[j].pc = "calling" /\ Goto(j, IF MultiKey THEN "failed" ELSE "unfit")
    BY <1>3 DEF CallFails, At, Idle
  <2>2. CASE ~MultiKey
    BY <2>1, <2>2, IdleRests, GoesOn DEF Locked, NeedsKey, Reading, OfKey
  <2>3. CASE MultiKey
    <3>1. OnlyJob(j, "failed", job[j].snap) /\ job'[j].idx = job[j].idx
      BY <2>1, <2>3, GotoMoves, GotoKey DEF IInv
    <3>2. KeyOK("failed", job'[j].idx)
      BY <2>1, <3>1 DEF KInv, Held, KeyOK, NeedsKey, OfKey
    <3> QED  BY <2>1, <3>1, <3>2, IdleRests, KInvMoves DEF KeysRest, Locked, Reading
  <2> QED  BY <2>2, <2>3
<1>4. CASE ReadForUse(j)
  <2>1. Idle /\ job[j].pc = "used" /\ IF Deleted THEN Goto(j, "done") ELSE Keeps(j, "saveUse", row)
    BY <1>4 DEF ReadForUse, At, Idle
  <2>2. Sound(row')
    BY <2>1, IdleRests DEF KeysRest
  <2>3. CASE Deleted
    <3>1. UNCHANGED <<cache, loading>> /\ lock' = lock /\ Deleted' /\ Goto(j, "done")
      BY <2>1, <2>3 DEF Idle, Deleted
    <3> QED  BY <2>1, <2>2, <3>1, GoesRound DEF Locked, NeedsKey, Reading, OfKey
  <2>4. CASE ~Deleted
    BY <2>1, <2>4, IdleRests, ReadsOn DEF Locked, NeedsKey, OfKey, KInv, Held
  <2> QED  BY <2>3, <2>4
<1>5. CASE SaveUse(j)
  <2>1. /\ UNCHANGED <<cache, loading, lock>> /\ outside' = TRUE
        /\ job[j].pc = "saveUse" /\ Goto(j, "done")
    BY <1>5 DEF SaveUse, At
  <2>2. Sound(job[j].snap) /\ Sound(row)
    BY <2>1 DEF KInv, Held, Reading
  <2>3. row'.keys = row.keys /\ DOMAIN row'.list = Indices /\ (Deleted => Deleted')
    BY <1>5, <2>2 DEF SaveUse, Saved, Deleted, Sound, RowLike
  <2>4. Sound(row')
    BY <2>3, SoundStays DEF KInv, IInv, Shape
  <2> QED  BY <2>1, <2>3, <2>4, GoesRound DEF Locked, NeedsKey, Reading, OfKey
<1> QED  BY <1>1, <1>2, <1>3, <1>4, <1>5 DEF CallStep

\* What a handler copies is a row, and has the keys on record that are off.
LEMMA CopyKnows ==
    ASSUME KInv, NEW j \in Jobs, lock[ProcOf[j]] = NoJob
    PROVE  /\ Sound(Copy(ProcOf[j]))
           /\ Serial => /\ Copy(ProcOf[j]).status # "deleted"
                        /\ Autos(Copy(ProcOf[j])) = Autos(row)
<1> DEFINE p == ProcOf[j]
<1>1. p \in Procs
  BY ChannelAssumption
<1>2. Sound(row) /\ (cache[p] # NoRow => Sound(cache[p]) /\ cache[p].status # "deleted")
  BY <1>1 DEF KInv, Held
<1>3. ASSUME Serial PROVE cache[p] # NoRow => Autos(cache[p]) = Autos(row)
  <2>1. \A k \in Jobs : job[k].pc # "commit"
    BY <1>3, Nobody DEF Serial, OneProcess, Locked
  <2>2. Known = Autos(row)
    BY <2>1 DEF Known, At
  <2> QED  BY <1>3, <2>2 DEF KInv, Marks, Serial
<1> QED  BY <1>2, <1>3 DEF Copy, Serial, Deleted

\* The mark of a key is added to those the copy has.
LEMMA MarkAdds ==
    ASSUME NEW j \in Jobs, Sound(job[j].snap), job[j].idx \in Indices
    PROVE  /\ Sound(Marked(j)) /\ Marked(j).keys = job[j].snap.keys
           /\ Marked(j).status = job[j].snap.status
           /\ Checked(Marked(j)).list = Marked(j).list
           /\ Autos(Marked(j)) = Autos(job[j].snap) \cup {job[j].idx}
<1>1. /\ DOMAIN Marked(j) = DOMAIN job[j].snap /\ Marked(j).keys = job[j].snap.keys
      /\ Marked(j).models = job[j].snap.models /\ Marked(j).status = job[j].snap.status
      /\ Marked(j).list = [job[j].snap.list EXCEPT ![job[j].idx] = "auto"]
  BY DEF Marked, Sound, RowLike
<1>2. Sound(Marked(j))
  BY <1>1 DEF Sound, RowLike
<1>3. Checked(Marked(j)).list = Marked(j).list
  BY <1>2 DEF Checked, Sound, RowLike
<1>4. Autos(Marked(j)) = Autos(job[j].snap) \cup {job[j].idx}
  BY <1>1 DEF Autos, Sound
<1> QED  BY <1>1, <1>2, <1>3, <1>4

LEMMA CopyChannelKeepsKeys ==
    ASSUME IInv, IInv', KInv, NEW j \in Jobs, CopyChannel(j) PROVE KInv'
<1> DEFINE r == Copy(ProcOf[j])
<1>1. /\ job[j].pc = "failed" /\ lock[ProcOf[j]] = NoJob /\ Acquire(j)
      /\ Keeps(j, "copied", r) /\ UNCHANGED <<row, cache, loading, outside>>
  BY DEF CopyChannel, At, Acquire
<1>2. OnlyJob(j, "copied", r) /\ job'[j].idx = job[j].idx
  BY <1>1, KeepsMoves, KeepsKey DEF IInv
<1>3. KeyOK("copied", job'[j].idx)
  BY <1>1, <1>2 DEF KInv, Held, KeyOK, NeedsKey, OfKey
<1>4. Sound(r) /\ (Serial => Autos(r) = Autos(row))
  BY <1>1, CopyKnows
<1>5. Deleted' = Deleted /\ row'.list = row.list /\ Sound(row')
  BY <1>1 DEF Deleted, KInv, Held
<1> HIDE DEF r
<1>6. Held'
  BY <1>1, <1>2, <1>3, <1>4, <1>5, HeldMoves DEF KInv
<1>7. Owned'
  BY <1>1, <1>2, <1>5, OwnedMoves DEF KInv, Locked
<1>8. Marks'
  BY <1>1, <1>2, <1>4, <1>5, MarksMoves DEF KInv
<1> QED  BY <1>6, <1>7, <1>8 DEF KInv

LEMMA AlreadyOffKeepsKeys ==
    ASSUME IInv, IInv', KInv, NEW j \in Jobs, AlreadyOff(j) PROVE KInv'
<1>1. /\ job[j].pc = "failed" /\ lock[ProcOf[j]] = NoJob /\ NothingToDo(j)
      /\ Goto(j, "done") /\ Idle
  BY DEF AlreadyOff, At, Idle
<1>2. OnlyJob(j, "done", NoRow) /\ job'[j].idx = IF ~MultiKey THEN 0 ELSE job[j].idx
  BY <1>1, GotoMoves, GotoKey DEF IInv
<1>3. KeyOK("failed", job[j].idx)
  BY <1>1 DEF KInv, Held
<1>4. KeyOK("done", job'[j].idx)
  BY <1>2, <1>3, KeyGoes DEF NeedsKey, OfKey
<1>5. Serial => job'[j].idx = 0 \/ job'[j].idx \in Autos(row)
  <2> SUFFICES ASSUME Serial, MultiKey PROVE job[j].idx \in Autos(row)
    BY <1>2
  <2>1. Copy(ProcOf[j]).status # "deleted" /\ Autos(Copy(ProcOf[j])) = Autos(row)
    BY <1>1, CopyKnows
  <2>2. Copy(ProcOf[j]).list[job[j].idx] = "auto"
    BY <1>1, <2>1 DEF NothingToDo
  <2>3. job[j].idx \in Indices
    BY <1>3, ChannelAssumption DEF KeyOK, NeedsKey, Indices
  <2>4. job[j].idx \in Autos(Copy(ProcOf[j]))
    BY <2>2, <2>3 DEF Autos
  <2> QED  BY <2>1, <2>4
<1>6. KeysRest
  BY <1>1, IdleRests
<1>7. Held'
  BY <1>2, <1>4, <1>6, HeldMoves DEF KInv, KeysRest, Reading
<1>8. Owned'
  BY <1>1, <1>2, <1>6, OwnedMoves DEF KInv, KeysRest, Locked
<1>9. Marks'
  BY <1>1, <1>2, <1>5, <1>6, MarksMoves DEF KInv, KeysRest
<1> QED  BY <1>7, <1>8, <1>9 DEF KInv

LEMMA UpdateCacheKeepsKeys ==
    ASSUME IInv, IInv', KInv, NEW j \in Jobs, UpdateCache(j) PROVE KInv'
<1> DEFINE p == ProcOf[j]
           i == job[j].idx
           m == Marked(j)
<1>1. job[j].pc = "copied" /\ Goto(j, "commit") /\ UNCHANGED <<row, loading, lock, outside>>
  BY DEF UpdateCache, At
<1>2. OnlyJob(j, "commit", job[j].snap) /\ job'[j].idx = i
  BY <1>1, GotoMoves, GotoKey DEF IInv
<1>3. Sound(job[j].snap) /\ KeyOK("copied", i) /\ p \in Procs
  BY <1>1, ChannelAssumption DEF KInv, Held, Reading
<1>4. i \in Indices /\ KeyOK("commit", i)
  BY <1>3, ChannelAssumption DEF KeyOK, NeedsKey, OfKey, Indices
<1>5. /\ Sound(m) /\ Checked(m).list = m.list
      /\ Autos(m) = Autos(job[j].snap) \cup {i}
  BY <1>3, <1>4, MarkAdds
<1>6. /\ cache' = [q \in Procs |-> cache'[q]]
      /\ \A q \in Procs : q # p => cache'[q] = cache[q]
      /\ cache[p] = NoRow => cache'[p] = NoRow
      /\ cache[p] # NoRow => Sound(cache'[p]) /\ cache'[p].status # "deleted"
                             /\ cache'[p].list = m.list
  <2> DEFINE c == Told(cache[p], Checked(m), TurnsOff(m))
  <2>1. cache' = [cache EXCEPT ![p] = IF cache[p] = NoRow THEN NoRow ELSE c]
    BY DEF UpdateCache
  <2>2. cache[p] # NoRow => Sound(cache[p]) /\ cache[p].status # "deleted"
    BY <1>3 DEF KInv, Held
  <2>3. cache[p] # NoRow => Sound(c) /\ c.status # "deleted" /\ c.list = m.list
    BY <1>5, <2>2 DEF Told, Sound, RowLike
  <2>4. cache = [q \in Procs |-> cache[q]]
    BY DEF KInv, Held
  <2> HIDE DEF c
  <2> QED  BY <1>3, <2>1, <2>3, <2>4
<1> HIDE DEF m
<1>7. Held'
  BY <1>1, <1>2, <1>3, <1>4, <1>6 DEF KInv, Held, OnlyJob
<1>8. Owned'
  BY <1>1, <1>2, OwnedMoves DEF KInv, Deleted, Locked
<1>9. Marks'
  <2> SUFFICES ASSUME Serial' PROVE Marks'
    BY DEF Marks, Serial
  <2>1. Serial
    BY <1>1 DEF Serial, OneProcess, Deleted
  <2>2. \A k \in Jobs : ProcOf[k] = p
    BY <2>1 DEF Serial, OneProcess
  <2>3. \A k \in Jobs : k # j => job'[k] = job[k] /\ job[k].pc # "commit"
    BY <1>1, <1>2, <2>1, Alone DEF OnlyJob, Locked
  <2>4. job'[j].pc = "commit" /\ job'[j].snap = job[j].snap
    BY <1>2 DEF OnlyJob
  <2>5. Known' = Autos(row) \cup {i}
    BY <1>1, <1>2, <2>3, <2>4 DEF Known, At, Autos
  <2>6. Autos(job[j].snap) = Autos(row)
    BY <1>1, <2>1 DEF KInv, Marks, Serial
  <2>7. cache'[p] # NoRow => Autos(cache'[p]) = Autos(row) \cup {i}
    <3> SUFFICES ASSUME cache'[p] # NoRow PROVE Autos(cache'[p]) = Autos(row) \cup {i}
      OBVIOUS
    <3>1. cache'[p].list = m.list
      BY <1>6
    <3>2. Autos(cache'[p]) = Autos(m)
      BY <3>1 DEF Autos
    <3> QED  BY <1>5, <2>6, <3>2
  <2>8. \A k \in Jobs : /\ job[k].pc # "reread"
                        /\ job[k].pc = "done" /\ job[k].idx # 0 => job[k].idx \in Autos(row)
                        /\ job[k].pc \in {"copied", "commit", "swap"} => Autos(job[k].snap) = Autos(row)
    BY <2>1 DEF KInv, Marks, Serial, At
  <2>9. \A k \in Jobs : /\ job'[k].pc # "reread"
                        /\ job'[k].pc = "done" /\ job'[k].idx # 0 => job'[k].idx \in Autos(row)
                        /\ job'[k].pc \in {"copied", "commit", "swap"} => Autos(job'[k].snap) = Autos(row)
    BY <2>3, <2>4, <2>6, <2>8
  <2>10. Autos(row)' = Autos(row)
    BY <1>1 DEF Autos
  <2>11. \A k \in Jobs : cache'[ProcOf[k]] # NoRow => Autos(cache'[ProcOf[k]]) = Known'
    BY <2>2, <2>5, <2>7
  <2> QED  BY <2>9, <2>10, <2>11 DEF Marks, At, Autos
<1> QED  BY <1>7, <1>8, <1>9 DEF KInv

LEMMA CommitKeyKeepsKeys ==
    ASSUME IInv, IInv', KInv, NEW j \in Jobs, CommitKey(j) PROVE KInv'
<1> DEFINE i == job[j].idx
           m == Marked(j)
<1>1. job[j].pc = "commit" /\ Goto(j, "done") /\ Release(j) /\ UNCHANGED <<cache, loading, outside>>
  BY DEF CommitKey, At
<1>2. OnlyJob(j, "done", NoRow) /\ job'[j].idx = IF ~MultiKey THEN 0 ELSE i
  BY <1>1, GotoMoves, GotoKey DEF IInv
<1>3. Sound(job[j].snap) /\ KeyOK("commit", i)
  BY <1>1 DEF KInv, Held, Reading
<1>4. i \in Indices /\ KeyOK("done", job'[j].idx)
  BY <1>2, <1>3, KeyGoes, ChannelAssumption DEF KeyOK, NeedsKey, OfKey, Indices
<1>5. Sound(m) /\ Autos(m) = Autos(job[j].snap) \cup {i}
  BY <1>3, <1>4, MarkAdds
<1>6. /\ Deleted => Deleted'
      /\ row'.keys = row.keys /\ DOMAIN row'.list = Indices
      /\ ~Deleted => row'.list = m.list
  <2>1. Sound(row)
    BY DEF KInv, Held
  <2> HIDE DEF m
  <2>2. Saved([row EXCEPT !.list = m.list, !.count = m.count,
                          !.status = IF TurnsOff(m) THEN "auto" ELSE @])
    BY DEF CommitKey, m
  <2>3. CASE Deleted
    BY <2>1, <2>2, <2>3 DEF Saved, Deleted, Sound
  <2>4. CASE ~Deleted
    BY <1>5, <2>1, <2>2, <2>4 DEF Saved, Sound, RowLike
  <2> QED  BY <2>3, <2>4
<1> HIDE DEF m
<1>7. Sound(row')
  BY <1>6, SoundStays DEF KInv, IInv, Shape
<1>8. Held'
  BY <1>1, <1>2, <1>4, <1>7, HeldMoves DEF KInv, Reading
<1>9. Owned'
  BY <1>1, <1>2, <1>6, OwnedMoves DEF KInv, Locked
<1>10. Marks'
  <2> SUFFICES ASSUME Serial' PROVE Marks'
    BY DEF Marks, Serial
  <2>1. Serial
    BY <1>1, <1>6 DEF Serial, OneProcess
  <2>2. Autos(job[j].snap) = Autos(row)
    BY <1>1, <2>1 DEF KInv, Marks, Serial
  <2>3. Autos(row') = Autos(row) \cup {i}
    <3>1. row'.list = m.list
      BY <1>6, <2>1 DEF Serial
    <3>2. Autos(row') = Autos(m)
      BY <3>1 DEF Autos
    <3> QED  BY <1>5, <2>2, <3>2
  <2>4. \A k \in Jobs : k # j => job'[k] = job[k] /\ job[k].pc \notin Locked
    BY <1>1, <1>2, <2>1, Alone DEF OnlyJob, Locked
  <2>5. Known = Autos(row) \cup {i}
    BY <1>1, <2>4 DEF Known, At, Locked
  <2>6. Known' = Autos(row')
    BY <1>2, <2>4 DEF Known, At, OnlyJob, Locked, Autos
  <2>7. \A k \in Jobs : cache'[ProcOf[k]] # NoRow => Autos(cache'[ProcOf[k]]) = Known'
    BY <1>1, <2>1, <2>3, <2>5, <2>6 DEF KInv, Marks, Serial
  <2>8. ASSUME NEW k \in Jobs
        PROVE  /\ job'[k].pc \notin {"reread", "copied", "commit", "swap"}
               /\ job'[k].pc = "done" /\ job'[k].idx # 0 => job'[k].idx \in Autos(row')
    <3>1. CASE k = j
      BY <1>2, <2>3, <3>1 DEF OnlyJob
    <3>2. CASE k # j
      BY <2>1, <2>3, <2>4, <3>2 DEF KInv, Marks, Serial, At, Locked
    <3> QED  BY <3>1, <3>2
  <2> QED  BY <2>7, <2>8 DEF Marks, At, Autos
<1> QED  BY <1>8, <1>9, <1>10 DEF KInv

LEMMA ErrorKeepsKeys == ASSUME IInv, IInv', KInv, NEW j \in Jobs, ErrorStep(j) PROVE KInv'
  BY CopyChannelKeepsKeys, AlreadyOffKeepsKeys, UpdateCacheKeepsKeys, CommitKeyKeepsKeys
     DEF ErrorStep

LEMMA LockMoves ==
    ASSUME IInv, IInv', KInv, NEW j \in Jobs, NEW pc, NEW r, OnlyJob(j, pc, r),
           KeyOK(pc, job'[j].idx), pc \in Reading => Sound(r),
           row'.keys = row.keys, row'.list = row.list, Deleted => Deleted',
           UNCHANGED <<cache, loading, outside>>,
           \/ lock' = lock /\ (job[j].pc \in Locked <=> pc \in Locked)
           \/ Acquire(j) /\ pc \in Locked
           \/ Release(j) /\ pc \notin Locked /\ job[j].pc \in Locked,
           job[j].pc # "commit", pc \notin {"reread", "commit", "copied"},
           pc = "done" => job'[j].idx = 0,
           pc = "swap" => Autos(r) = Autos(row)
    PROVE  KInv'
<1>1. Sound(row')
  BY SoundStays DEF KInv, Held, Sound, IInv, Shape
<1>2. Held'
  BY <1>1, HeldMoves DEF KInv
<1>3. Owned'
  BY OwnedMoves DEF KInv
<1>4. Marks'
  BY MarksMoves DEF KInv
<1> QED  BY <1>2, <1>3, <1>4 DEF KInv

\* A job that is not about a key goes on.
LEMMA KeylessGoes ==
    ASSUME IInv, KInv, NEW j \in Jobs, NEW pc, Goto(j, pc),
           job[j].pc \notin OfKey, pc \notin NeedsKey
    PROVE  /\ OnlyJob(j, pc, IF pc = "done" THEN NoRow ELSE job[j].snap)
           /\ KeyOK(pc, job'[j].idx) /\ (pc = "done" => job'[j].idx = 0)
<1>1. job'[j].idx = IF pc = "done" /\ ~MultiKey THEN 0 ELSE job[j].idx
  BY GotoKey DEF IInv
<1>2. KeyOK(job[j].pc, job[j].idx)
  BY DEF KInv, Held
<1>3. KeyOK(pc, job'[j].idx)
  BY <1>1, <1>2, KeyGoes
<1>4. pc = "done" => job'[j].idx = 0
  BY <1>1, <1>2 DEF KeyOK
<1> QED  BY <1>3, <1>4, GotoMoves DEF IInv

\* A status is saved: the keys stay.
LEMMA StatusSaved ==
    ASSUME IInv, NEW s, s # "deleted" \/ Deleted, Saved([row EXCEPT !.status = s])
    PROVE  row'.keys = row.keys /\ row'.list = row.list /\ (Deleted => Deleted')
  BY DEF IInv, Shape, RowLike, Saved, Deleted

LEMMA DisableKeepsKeys == ASSUME IInv, IInv', KInv, NEW j \in Jobs, DisableStep(j) PROVE KInv'
<1>1. CASE DisableReads(j)
  <2>1. /\ job[j].pc = "unfit" /\ Goto(j, "disable") /\ Acquire(j)
        /\ row' = row /\ UNCHANGED <<cache, loading, outside>>
    BY <1>1 DEF DisableReads, At
  <2>2. OnlyJob(j, "disable", job[j].snap) /\ KeyOK("disable", job'[j].idx)
    BY <2>1, KeylessGoes DEF OfKey, NeedsKey
  <2> QED  BY <2>1, <2>2, LockMoves DEF Deleted, Locked, Reading
<1>2. CASE DisableCommits(j)
  <2>1. /\ job[j].pc = "disable" /\ Release(j) /\ UNCHANGED <<cache, loading, outside>>
        /\ row'.keys = row.keys /\ row'.list = row.list /\ (Deleted => Deleted')
    BY <1>2, StatusSaved DEF DisableCommits, At, Deleted
  <2>2. PICK pc \in {"refresh", "done"} : Goto(j, pc)
    BY <1>2 DEF DisableCommits, Ends
  <2>3. /\ OnlyJob(j, pc, IF pc = "done" THEN NoRow ELSE job[j].snap)
        /\ KeyOK(pc, job'[j].idx) /\ (pc = "done" => job'[j].idx = 0)
    BY <2>1, <2>2, KeylessGoes DEF OfKey, NeedsKey
  <2> QED  BY <2>1, <2>2, <2>3, LockMoves DEF Locked, Reading
<1> QED  BY <1>1, <1>2 DEF DisableStep

LEMMA EnableKeepsKeys == ASSUME IInv, IInv', KInv, NEW j \in Jobs, EnableStep(j) PROVE KInv'
<1>1. CASE Enable(j)
  <2>1. /\ job[j].pc = "enable" /\ Goto(j, "reload") /\ Acquire(j)
        /\ UNCHANGED <<cache, loading, outside>>
        /\ row'.keys = row.keys /\ row'.list = row.list /\ (Deleted => Deleted')
    BY <1>1, StatusSaved DEF Enable, At
  <2>2. OnlyJob(j, "reload", job[j].snap) /\ KeyOK("reload", job'[j].idx)
    BY <2>1, KeylessGoes DEF OfKey, NeedsKey
  <2> QED  BY <2>1, <2>2, LockMoves DEF Locked, Reading
<1>2. CASE ReloadReads(j)
  <2>1. /\ job[j].pc = "reload" /\ Keeps(j, "swap", row)
        /\ row' = row /\ lock' = lock /\ UNCHANGED <<cache, loading, outside>>
    BY <1>2 DEF ReloadReads, At
  <2>2. OnlyJob(j, "swap", row) /\ job'[j].idx = job[j].idx
    BY <2>1, KeepsMoves, KeepsKey DEF IInv
  <2>3. KeyOK("swap", job'[j].idx) /\ Sound(row)
    BY <2>1, <2>2, KeyGoes DEF KInv, Held, NeedsKey, OfKey
  <2> QED  BY <2>1, <2>2, <2>3, LockMoves DEF Deleted, Locked
<1>3. CASE ReloadSwaps(j)
  <2> DEFINE p == ProcOf[j]
  <2>1. /\ job[j].pc = "swap" /\ Release(j) /\ UNCHANGED <<row, loading, outside>>
        /\ cache' = [cache EXCEPT ![p] = Loaded(job[j].snap)]
    BY <1>3 DEF ReloadSwaps, At
  <2>2. PICK pc \in {"refresh", "done"} : Goto(j, pc)
    BY <1>3 DEF ReloadSwaps, Ends
  <2>3. /\ OnlyJob(j, pc, IF pc = "done" THEN NoRow ELSE job[j].snap)
        /\ KeyOK(pc, job'[j].idx) /\ (pc = "done" => job'[j].idx = 0)
    BY <2>1, <2>2, KeylessGoes DEF OfKey, NeedsKey
  <2>4. p \in Procs /\ Sound(job[j].snap) /\ Sound(row')
    BY <2>1, ChannelAssumption DEF KInv, Held, Reading
  <2>5. /\ cache' = [q \in Procs |-> cache'[q]]
        /\ \A q \in Procs : q # p => cache'[q] = cache[q]
        /\ cache'[p] = Loaded(job[j].snap)
    BY <2>1, <2>4 DEF KInv, Held
  <2>6. cache'[p] # NoRow => Sound(cache'[p]) /\ cache'[p].status # "deleted"
    BY <2>4, <2>5 DEF Loaded
  <2>7. Held'
    BY <2>1, <2>2, <2>3, <2>4, <2>5, <2>6 DEF KInv, Held, OnlyJob, Reading
  <2>8. Owned'
    BY <2>1, <2>2, <2>3, OwnedMoves DEF KInv, Deleted, Locked
  <2>9. Marks'
    <3> SUFFICES ASSUME Serial' PROVE Marks'
      BY DEF Marks, Serial
    <3>1. Serial
      BY <2>1 DEF Serial, OneProcess, Deleted
    <3>2. \A k \in Jobs : ProcOf[k] = p
      BY <3>1 DEF Serial, OneProcess
    <3>3. \A k \in Jobs : k # j => job'[k] = job[k] /\ job[k].pc \notin Locked
      BY <2>1, <2>3, <3>1, Alone DEF OnlyJob, Locked
    <3>4. job'[j].pc = pc
      BY <2>3 DEF OnlyJob
    <3>5. Known' = Autos(row)
      BY <2>1, <2>2, <3>3, <3>4 DEF Known, At, Locked, Autos
    <3>6. cache'[p] # NoRow => Autos(cache'[p]) = Autos(row)
      BY <2>1, <2>5, <3>1 DEF KInv, Marks, Serial, Loaded
    <3>7. ASSUME NEW k \in Jobs
          PROVE  /\ job'[k].pc \notin {"reread", "copied", "commit", "swap"}
                 /\ job'[k].pc = "done" /\ job'[k].idx # 0 => job'[k].idx \in Autos(row)
      <4>1. CASE k = j
        BY <2>2, <2>3, <3>4, <4>1
      <4>2. CASE k # j
        BY <3>1, <3>3, <4>2 DEF KInv, Marks, Serial, At, Locked
      <4> QED  BY <4>1, <4>2
    <3>8. Autos(row)' = Autos(row)
      BY <2>1 DEF Autos
    <3>9. \A k \in Jobs : cache'[ProcOf[k]] # NoRow => Autos(cache'[ProcOf[k]]) = Known'
      BY <3>2, <3>5, <3>6
    <3> QED  BY <3>7, <3>8, <3>9 DEF Marks, At, Autos
  <2> QED  BY <2>7, <2>8, <2>9 DEF KInv
<1> QED  BY <1>1, <1>2, <1>3 DEF EnableStep

LEMMA TestKeepsKeys == ASSUME IInv, IInv', KInv, NEW j \in Jobs, TestStep(j) PROVE KInv'
<1>1. CASE TestReads(j)
  <2>1. Idle /\ job[j].pc = "idle" /\ Keeps(j, "testing", row) /\ Sound(row)
    BY <1>1 DEF TestReads, Begins, At, Idle, KInv, Held
  <2> QED  BY <2>1, IdleRests, ReadsOn DEF Locked, NeedsKey, OfKey
<1>2. CASE TestPasses(j) \/ TestFails(j)
  <2>1. PICK pc \in {"enable", "unfit", "done"} : Goto(j, pc)
    BY <1>2 DEF TestPasses, TestFails
  <2>2. Idle /\ job[j].pc = "testing"
    BY <1>2 DEF TestPasses, TestFails, At, Idle
  <2> QED  BY <2>1, <2>2, IdleRests, GoesOn DEF Locked, NeedsKey, Reading, OfKey
<1> QED  BY <1>1, <1>2 DEF TestStep

\* What an administrator writes has as many keys as there may be.
LEMMA PurgedSound ==
    ASSUME NEW r, Sound(r), r.status # "deleted"
    PROVE  Sound(Purged(r))
<1> DEFINE Kept(i) == Cardinality({k \in Usable(r) : k <= i})
           n == Cardinality(Usable(r))
           ks == [i \in 1 .. n |-> r.keys[CHOOSE k \in Usable(r) : Kept(k) = i]]
           q == [status |-> r.status, models |-> r.models, count |-> n, keys |-> ks,
                 list |-> [i \in Indices |-> "enabled"]]
<1>1. Purged(r) = Checked(q)
  BY DEF Purged
<1>2. n \in Nat /\ n <= KeyCount
  <2>1. Usable(r) \subseteq Indices
    BY DEF Usable, Sound
  <2>2. IsFiniteSet(Indices) /\ Cardinality(Indices) = KeyCount
    BY ChannelAssumption, FS_Interval DEF Indices
  <2> QED  BY <2>1, <2>2, FS_Subset, FS_CardinalityType
<1>3. Len(ks) = n
  <2> HIDE DEF n
  <2> QED  BY <1>2
<1>4. RowLike(q) /\ DOMAIN q.list = Indices /\ 1 .. Len(q.keys) \subseteq Indices
  BY <1>2, <1>3, ChannelAssumption DEF Sound, RowLike, Indices
<1> HIDE DEF q
<1> QED  BY <1>1, <1>4 DEF Checked, Sound, RowLike

LEMMA AdminKeepsKeys == ASSUME IInv, IInv', KInv, NEW j \in Jobs, AdminStep(j) PROVE KInv'
<1> USE DEF Locked, NeedsKey, OfKey, Reading
<1>1. CASE SetBatch(j)
  <2>1. PICK s \in BatchStatuses : Saved([row EXCEPT !.status = s])
    BY <1>1 DEF SetBatch
  <2>2. row'.keys = row.keys /\ row'.list = row.list /\ (Deleted => Deleted')
    BY <2>1, StatusSaved, ChannelAssumption
  <2>3. Sound(row')
    BY <2>2, SoundStays DEF KInv, Held, Sound, IInv, Shape
  <2>4. KeysRest /\ job[j].pc = "idle" /\ Goto(j, "done")
    BY <1>1, <2>2, <2>3 DEF SetBatch, Begins, At, KeysRest
  <2> QED  BY <2>4, GoesOn
<1>2. CASE ReadToggle(j)
  <2>1. PICK i \in 1 .. Len(row.keys), s \in {"enabled", "manual"} :
           job' = [job EXCEPT ![j].pc = "saveToggle", ![j].idx = i,
                              ![j].snap = Checked([row EXCEPT !.list[i] = s])]
    BY <1>2 DEF ReadToggle
  <2> DEFINE r == Checked([row EXCEPT !.list[i] = s])
  <2>2. OnlyJob(j, "saveToggle", r) /\ job'[j].idx = i
    BY <2>1 DEF IInv, Shape, OnlyJob, JobFields
  <2>3. i \in Indices /\ Sound(r)
    BY DEF KInv, Held, Sound, RowLike, Checked
  <2>4. KeyOK("saveToggle", job'[j].idx)
    BY <2>2, <2>3, ChannelAssumption DEF KeyOK, Indices
  <2>5. Idle /\ job[j].pc = "idle"
    BY <1>2 DEF ReadToggle, Begins, At, Idle
  <2> HIDE DEF r
  <2> QED  BY <2>2, <2>3, <2>4, <2>5, IdleRests, KInvMoves DEF KeysRest
<1>3. CASE SaveToggle(j)
  <2>1. /\ UNCHANGED <<cache, loading, lock>> /\ outside' = TRUE
        /\ job[j].pc = "saveToggle" /\ Goto(j, "done")
    BY <1>3 DEF SaveToggle, At
  <2>2. Sound(job[j].snap) /\ Sound(row)
    BY <2>1 DEF KInv, Held
  <2>3. row'.keys = row.keys /\ DOMAIN row'.list = Indices /\ (Deleted => Deleted')
    BY <1>3, <2>2 DEF SaveToggle, Saved, Deleted, Sound, RowLike
  <2>4. Sound(row')
    BY <2>3, SoundStays DEF KInv, IInv, Shape
  <2> QED  BY <2>1, <2>3, <2>4, GoesRound
<1>4. CASE ReadEdit(j)
  <2>1. PICK s \in BatchStatuses \cup {row.status}, ms \in (SUBSET Models \ {{}}) \cup {row.models} :
           Keeps(j, "write", [row EXCEPT !.status = s, !.models = ms])
    BY <1>4 DEF ReadEdit
  <2>2. Sound([row EXCEPT !.status = s, !.models = ms])
    BY DEF KInv, Held, Sound, RowLike
  <2>3. Idle /\ job[j].pc = "idle"
    BY <1>4 DEF ReadEdit, Begins, At, Idle
  <2> QED  BY <2>1, <2>2, <2>3, IdleRests, ReadsOn
<1>5. CASE ReadPurge(j)
  <2>1. Sound(Purged(row)) /\ Keeps(j, "write", Purged(row))
    BY <1>5, PurgedSound DEF ReadPurge, Deleted, KInv, Held
  <2>2. Idle /\ job[j].pc = "idle"
    BY <1>5 DEF ReadPurge, Begins, At, Idle
  <2> QED  BY <2>1, <2>2, IdleRests, ReadsOn
<1> QED  BY <1>1, <1>2, <1>3, <1>4, <1>5 DEF AdminStep

LEMMA UpdateKeepsKeys == ASSUME IInv, IInv', KInv, NEW j \in Jobs, UpdateStep(j) PROVE KInv'
<1> USE DEF Locked, NeedsKey, OfKey, Reading
<1>1. CASE Write(j)
  <2>1. /\ UNCHANGED <<cache, loading, lock>> /\ outside' = TRUE
        /\ job[j].pc = "write" /\ Goto(j, "reread")
    BY <1>1 DEF Write, At
  <2>2. Sound(job[j].snap) /\ Sound(row) /\ (job[j].snap.status # "deleted")
    BY <2>1 DEF KInv, Held, IInv, Shape, SnapOK
  <2>3. Sound(row') /\ (Deleted => Deleted')
    BY <1>1, <2>2 DEF Write, Saved, Deleted, Sound, RowLike
  <2> QED  BY <2>1, <2>3, GoesRound
<1>2. CASE Reread(j)
  <2>1. /\ UNCHANGED <<cache, loading, lock, outside>> /\ job[j].pc = "reread"
        /\ Sound(job[j].snap) /\ Sound(row)
    BY <1>2 DEF Reread, At, KInv, Held
  <2>2. row'.keys = row.keys /\ DOMAIN row'.list = Indices /\ (Deleted => Deleted')
    BY <1>2, <2>1 DEF Reread, Deleted, Sound, RowLike
  <2>3. Sound(row')
    BY <2>2, SoundStays DEF KInv, IInv, Shape
  <2>4. PICK r : OnlyJob(j, "drop", r) /\ job'[j].idx = job[j].idx
    BY <1>2, GotoMoves, KeepsMoves, GotoKey, KeepsKey DEF Reread, IInv
  <2>5. KeyOK("drop", job'[j].idx)
    BY <2>1, <2>4, KeyGoes DEF KInv, Held
  <2>6. Held'
    BY <2>1, <2>3, <2>4, <2>5, HeldMoves DEF KInv
  <2>7. Owned'
    BY <2>1, <2>2, <2>4, OwnedMoves DEF KInv
  <2>8. Marks'
    <3>1. ~Serial
      BY <2>1 DEF KInv, Marks, Serial, At
    <3> QED  BY <2>1, <2>2, <3>1 DEF Marks, Serial, OneProcess
  <2> QED  BY <2>6, <2>7, <2>8 DEF KInv
<1>3. CASE Drop(j)
  <2>1. Idle /\ job[j].pc = "drop" /\ Goto(j, "add")
    BY <1>3 DEF Drop, At, Idle
  <2> QED  BY <2>1, IdleRests, GoesOn
<1>4. CASE Add(j)
  <2>1. PICK pc \in Followers : Goto(j, pc)
    BY <1>4 DEF Add, Followers, IInv, Shape
  <2>2. Idle /\ job[j].pc = "add"
    BY <1>4 DEF Add, At, Idle
  <2> QED  BY <2>1, <2>2, IdleRests, GoesOn DEF Followers
<1> QED  BY <1>1, <1>2, <1>3, <1>4 DEF UpdateStep

LEMMA UpstreamKeepsKeys == ASSUME IInv, IInv', KInv, NEW j \in Jobs, UpstreamStep(j) PROVE KInv'
<1> USE DEF Locked, NeedsKey, OfKey, Reading
<1>1. CASE UpstreamReads(j)
  <2>1. job' = [job EXCEPT ![j].pc = "fetching", ![j].snap = row, ![j].task = TRUE]
    BY <1>1 DEF UpstreamReads
  <2>2. OnlyJob(j, "fetching", row) /\ job'[j].idx = job[j].idx
    BY <2>1 DEF IInv, Shape, OnlyJob, JobFields
  <2>3. Idle /\ job[j].pc = "idle"
    BY <1>1 DEF UpstreamReads, Begins, At, Idle
  <2>4. KeyOK("fetching", job'[j].idx)
    BY <2>2, <2>3, KeyGoes DEF KInv, Held
  <2> QED  BY <2>2, <2>3, <2>4, IdleRests, KInvMoves DEF KeysRest
<1>2. CASE ApplyReads(j)
  <2>1. Idle /\ job[j].pc = "idle" /\ Keeps(j, "fetching", row) /\ Sound(row)
    BY <1>2 DEF ApplyReads, Begins, At, Idle, KInv, Held
  <2> QED  BY <2>1, IdleRests, ReadsOn
<1>3. CASE UpstreamNothing(j)
  <2>1. Idle /\ job[j].pc = "fetching" /\ Goto(j, "done")
    BY <1>3 DEF UpstreamNothing, At, Idle
  <2> QED  BY <2>1, IdleRests, GoesOn
<1>4. CASE UpstreamSaves(j)
  <2>1. PICK models \in SUBSET Models :
           /\ Saved([row EXCEPT !.models = models])
           /\ job' = [job EXCEPT ![j].pc = "drop", ![j].snap.models = models,
                                 ![j].next = Afterwards(j, models)]
    BY <1>4 DEF UpstreamSaves
  <2> DEFINE q == [job[j].snap EXCEPT !.models = models]
  <2>2. Afterwards(j, models) \in Followers
    BY DEF Afterwards, Followers
  <2>3. OnlyJob(j, "drop", q) /\ job'[j].idx = job[j].idx
    BY <2>1, <2>2 DEF IInv, Shape, OnlyJob, JobFields
  <2>4. row'.keys = row.keys /\ row'.list = row.list /\ (Deleted => Deleted')
    BY <2>1 DEF Saved, Deleted, IInv, Shape, RowLike
  <2>5. Sound(row')
    BY <2>4, SoundStays DEF KInv, Held, Sound, IInv, Shape
  <2>6. job[j].pc = "fetching" /\ UNCHANGED <<cache, loading, lock, outside>>
    BY <1>4 DEF UpstreamSaves, At
  <2>7. KeyOK("drop", job'[j].idx)
    BY <2>3, <2>6, KeyGoes DEF KInv, Held
  <2> HIDE DEF q
  <2> QED  BY <2>3, <2>4, <2>5, <2>6, <2>7, KInvMoves
<1>5. CASE RefreshReads(j)
  <2>1. Idle /\ job[j].pc = "refresh" /\ Keeps(j, "install", row) /\ Sound(row)
    BY <1>5 DEF RefreshReads, At, Idle, KInv, Held
  <2> QED  BY <2>1, IdleRests, ReadsOn
<1>6. CASE RefreshInstalls(j)
  <2>1. /\ job[j].pc = "install" /\ UNCHANGED <<row, loading, lock>> /\ outside' = TRUE
        /\ cache' = [cache EXCEPT ![ProcOf[j]] = Loaded(job[j].snap)] /\ Goto(j, "done")
    BY <1>6 DEF RefreshInstalls, At
  <2>2. OnlyJob(j, "done", NoRow) /\ KeyOK("done", job'[j].idx)
    BY <2>1, KeylessGoes
  <2>3. Sound(job[j].snap) /\ Sound(row') /\ ProcOf[j] \in Procs
    BY <2>1, ChannelAssumption DEF KInv, Held
  <2>4. Held'
    BY <2>1, <2>2, <2>3 DEF KInv, Held, OnlyJob, Loaded
  <2>5. Owned'
    BY <2>1, <2>2, OwnedMoves DEF KInv, Deleted
  <2> QED  BY <2>1, <2>4, <2>5, MarksEnd DEF KInv
<1> QED  BY <1>1, <1>2, <1>3, <1>4, <1>5, <1>6 DEF UpstreamStep

LEMMA DeleteKeepsKeys == ASSUME IInv, IInv', KInv, NEW j \in Jobs, DeleteStep(j) PROVE KInv'
<1> USE DEF Locked, NeedsKey, OfKey, Reading
<1>1. Deleted'
  BY RemovedRow DEF DeleteStep, Delete, DeleteAbilities, DeleteBatch, DeleteDisabled, Deleted,
     At, IInv, Shape
<1>2. row'.keys = row.keys /\ row'.list = row.list
  BY DEF DeleteStep, Delete, DeleteAbilities, DeleteBatch, DeleteDisabled, Removed, IInv, Shape, RowLike
<1>3. Sound(row')
  BY <1>2, SoundStays DEF KInv, Held, Sound, IInv, Shape
<1>4. UNCHANGED <<cache, loading>> /\ job[j].pc \in {"idle", "unlist"}
  BY DEF DeleteStep, Delete, DeleteAbilities, DeleteBatch, DeleteDisabled, Begins, At
<1>5. PICK pc \in {"unlist", "done"} : Goto(j, pc)
  BY DEF DeleteStep, Delete, DeleteAbilities, DeleteBatch, DeleteDisabled
<1>6. lock' \in [Procs -> Jobs \cup {NoJob}]
  BY DEF DeleteStep, Delete, DeleteAbilities, DeleteBatch, DeleteDisabled, ForgetLock, KInv, Owned
<1> QED  BY <1>1, <1>3, <1>4, <1>5, <1>6, GoesRound

LEMMA FaultKeepsKeys == ASSUME IInv, IInv', KInv, NEW j \in Jobs, Fault(j) PROVE KInv'
<1> USE DEF Locked, NeedsKey, OfKey, Reading
<1>1. CASE CommitFails(j)
  <2>1. /\ UNCHANGED <<row, cache, loading>> /\ outside' = TRUE /\ Release(j)
        /\ job[j].pc = "commit" /\ Goto(j, "done")
    BY <1>1 DEF CommitFails, At
  <2>2. Sound(row') /\ (Deleted => Deleted')
    BY <2>1 DEF KInv, Held, Deleted
  <2> QED  BY <2>1, <2>2, GoesRound
<1>2. CASE UpdateFails(j)
  <2>1. /\ UNCHANGED <<row, cache, loading, lock, outside>>
        /\ job[j].pc \in {"reread", "drop", "add", "unlist"}
    BY <1>2 DEF UpdateFails
  <2>2. PICK pc \in {"done", "refresh"} : Goto(j, pc)
    BY <1>2 DEF UpdateFails
  <2> QED  BY <2>1, <2>2, IdleRests, GoesOn DEF Idle
<1> QED  BY <1>1, <1>2 DEF Fault

LEMMA SyncKeepsKeys == ASSUME IInv, IInv', KInv, NEW p \in Procs, SyncStep(p) PROVE KInv'
<1>1. CASE SyncReads(p)
  BY <1>1, KInvRests DEF SyncReads, KInv, Held
<1>2. CASE SyncSwaps(p)
  <2>1. Held'
    BY <1>2 DEF SyncSwaps, KInv, Held, Loaded
  <2>2. Owned'
    BY <1>2 DEF SyncSwaps, KInv, Owned, Deleted
  <2> QED  BY <1>2, <2>1, <2>2, MarksEnd DEF SyncSwaps, KInv
<1> QED  BY <1>1, <1>2 DEF SyncStep

LEMMA RestartKeepsKeys == ASSUME IInv, IInv', KInv, NEW p \in Procs, Restart(p) PROVE KInv'
<1>1. /\ job' = [j \in Jobs |-> IF ProcOf[j] = p /\ ~At(j, "idle")
                                 THEN [Fresh EXCEPT !.pc = "done"] ELSE job[j]]
      /\ row' = row /\ outside' = outside
      /\ lock' = [lock EXCEPT ![p] = NoJob] /\ loading' = [loading EXCEPT ![p] = NoRow]
      /\ cache' = [cache EXCEPT ![p] = Loaded(row)]
  BY DEF Restart
<1>2. \A j \in Jobs :
        \/ job'[j] = job[j] /\ (ProcOf[j] # p \/ job[j].pc = "idle")
        \/ job'[j].pc = "done" /\ job'[j].idx = 0 /\ ProcOf[j] = p
  BY <1>1 DEF Fresh, At
<1>3. Held'
  <2>1. Sound(row') /\ (Loaded(row) # NoRow => Sound(Loaded(row)) /\ Loaded(row).status # "deleted")
    BY <1>1 DEF KInv, Held, Loaded
  <2>2. \A j \in Jobs : KeyOK(job'[j].pc, job'[j].idx) /\ (job'[j].pc \in Reading => Sound(job'[j].snap))
    BY <1>2, ChannelAssumption DEF KInv, Held, KeyOK, Reading, NeedsKey, OfKey
  <2>3. /\ cache' = [q \in Procs |-> cache'[q]] /\ loading' = [q \in Procs |-> loading'[q]]
        /\ \A q \in Procs : /\ cache'[q] = IF q = p THEN Loaded(row) ELSE cache[q]
                            /\ loading'[q] = IF q = p THEN NoRow ELSE loading[q]
    BY <1>1 DEF KInv, Held
  <2> QED  BY <2>1, <2>2, <2>3 DEF KInv, Held
<1>4. Owned'
  BY <1>1, <1>2, ChannelAssumption DEF KInv, Owned, Locked, Deleted
<1>5. Marks'
  <2> SUFFICES ASSUME Serial', NEW i \in Jobs PROVE Marks'
    BY DEF Marks, Serial
  <2>1. Serial
    BY <1>1 DEF Serial, OneProcess, Deleted
  <2>2. CASE ProcOf[i] = p
    <3>1. \A j \in Jobs : ProcOf[j] = p
      BY <2>1, <2>2 DEF Serial, OneProcess
    <3>2. \A j \in Jobs : job'[j].pc \in {"idle", "done"} /\ (job'[j].pc = "done" => job'[j].idx = 0)
      BY <1>2, <3>1
    <3>3. Known' = Autos(row)
      BY <1>1, <3>2 DEF Known, At, Autos
    <3>4. cache'[p] = Loaded(row)
      BY <1>1 DEF KInv, Held
    <3>5. \A j \in Jobs : cache'[ProcOf[j]] # NoRow => Autos(cache'[ProcOf[j]]) = Known'
      BY <3>1, <3>3, <3>4 DEF Loaded
    <3> QED  BY <3>2, <3>5 DEF Marks, At
  <2>3. CASE ProcOf[i] # p
    <3>1. \A j \in Jobs : ProcOf[j] # p
      BY <2>1, <2>3 DEF Serial, OneProcess
    <3>2. \A j \in Jobs : job'[j] = job[j] /\ cache'[ProcOf[j]] = cache[ProcOf[j]]
      BY <1>1, <1>2, <3>1, ChannelAssumption DEF KInv, Held
    <3>3. Autos(row)' = Autos(row)
      BY <1>1 DEF Autos
    <3>4. Known' = Known
      <4> DEFINE now == {job[k].idx : k \in {j \in Jobs : At(j, "commit")}}
      <4>1. {job'[k].idx : k \in {j \in Jobs : At(j, "commit")'}} = now
        BY <3>2 DEF At
      <4> QED  BY <3>3, <4>1 DEF Known
    <3> QED  BY <2>1, <3>2, <3>3, <3>4 DEF KInv, Marks, Serial, At, Autos
  <2> QED  BY <2>2, <2>3
<1> QED  BY <1>3, <1>4, <1>5 DEF KInv

LEMMA KInvNext == ASSUME IInv, IInv', KInv, [Next]_vars PROVE KInv'
<1>1. CASE \E j \in Jobs :
             \/ CallStep(j) \/ LockStep(j) \/ TestStep(j) \/ AdminStep(j) \/ UpdateStep(j)
             \/ UpstreamStep(j) \/ DeleteStep(j) \/ Fault(j)
  BY <1>1, CallKeepsKeys, ErrorKeepsKeys, DisableKeepsKeys, EnableKeepsKeys, TestKeepsKeys,
     AdminKeepsKeys, UpdateKeepsKeys, UpstreamKeepsKeys, DeleteKeepsKeys, FaultKeepsKeys
     DEF LockStep
<1>2. CASE \E p \in Procs : SyncStep(p) \/ Restart(p)
  BY <1>2, SyncKeepsKeys, RestartKeepsKeys
<1>3. CASE UNCHANGED vars
  BY <1>3, KInvRests DEF vars, KInv, Held
<1> QED  BY <1>1, <1>2, <1>3 DEF Next

LEMMA KInvHolds == Spec => [](IInv /\ KInv)
<1>1. IInv /\ KInv /\ [Next]_vars => (IInv /\ KInv)'
  BY IInvNext, KInvNext
<1> QED  BY <1>1, IInvInit, KInvInit, PTL DEF Spec

-----------------------------------------------------------------------------
\* Routing never joins a row with abilities of another status or other models: where
\* no rebuild is on its way, failed or overlapped a change of the row, both tables
\* agree, for any number of processes, operations, models and restarts.
THEOREM AbilitiesAgreeHolds == Spec => []AbilitiesAgree
<1>1. IInv => AbilitiesAgree
  BY DEF IInv, Agree, AbilitiesAgree, WillDrop, At
<1> QED  BY <1>1, IInvHolds, PTL

\* However many processes report the same outage, one alert is sent for each time the
\* channel is switched off, and none for a channel that has been deleted.
THEOREM AlertPerOutageHolds == Spec => AlertPerOutage
<1>1. IInv /\ [Next]_vars =>
        [alerts' # alerts => row.status # "auto" /\ row'.status = "auto"]_vars
  <2> SUFFICES ASSUME IInv, Next, alerts' # alerts
               PROVE  row.status # "auto" /\ row'.status = "auto"
    OBVIOUS
  <2>1. PICK j \in Jobs : DisableCommits(j)
    <3>1. ASSUME NEW p \in Procs PROVE SyncStep(p) \/ Restart(p) => UNCHANGED alerts
      BY DEF SyncStep, SyncReads, SyncSwaps, Restart
    <3>2. ASSUME NEW j \in Jobs PROVE CallStep(j) \/ TestStep(j) => UNCHANGED alerts
      BY DEF CallStep, SelectKey, CallSucceeds, CallFails, ReadForUse, SaveUse,
             TestStep, TestReads, TestPasses, TestFails
    <3>3. ASSUME NEW j \in Jobs PROVE AdminStep(j) \/ UpdateStep(j) => UNCHANGED alerts
      BY DEF AdminStep, SetBatch, ReadToggle, SaveToggle, ReadEdit, ReadPurge,
             UpdateStep, Write, Reread, Drop, Add
    <3>4. ASSUME NEW j \in Jobs PROVE UpstreamStep(j) => UNCHANGED alerts
      BY DEF UpstreamStep, UpstreamReads, ApplyReads, UpstreamNothing, UpstreamSaves,
             RefreshReads, RefreshInstalls
    <3>5. ASSUME NEW j \in Jobs PROVE DeleteStep(j) \/ Fault(j) => UNCHANGED alerts
      BY DEF DeleteStep, Delete, DeleteAbilities, DeleteBatch, DeleteDisabled, Fault,
             CommitFails, UpdateFails
    <3>6. ASSUME NEW j \in Jobs PROVE ErrorStep(j) \/ EnableStep(j) => UNCHANGED alerts
      BY DEF ErrorStep, CopyChannel, AlreadyOff, UpdateCache, CommitKey,
             EnableStep, Enable, ReloadReads, ReloadSwaps
    <3>7. ASSUME NEW j \in Jobs PROVE DisableReads(j) => UNCHANGED alerts
      BY DEF DisableReads
    <3> QED  BY <3>1, <3>2, <3>3, <3>4, <3>5, <3>6, <3>7 DEF Next, LockStep, DisableStep
  <2>2. row.status \notin {"auto", "deleted"} /\ Saved([row EXCEPT !.status = "auto"])
    BY <2>1 DEF DisableCommits
  <2> QED  BY <2>2 DEF Saved, Deleted, IInv, Shape, RowLike
<1> QED  BY <1>1, IInvHolds, PTL DEF Spec, AlertPerOutage

-----------------------------------------------------------------------------
\* In one process, whatever other errors, enablings, reloads, restarts and deletions run
\* beside it, the record of a key that a handler switched off is not overwritten, unless
\* by a writer that goes round the lock: for any number of handlers and keys.
THEOREM ErrorsStickHolds == Spec => []ErrorsStick
<1>1. IInv /\ KInv => ErrorsStick
  BY DEF KInv, Marks, ErrorsStick, Autos
<1> QED  BY <1>1, KInvHolds, PTL

\* A step of one job changes what that job is doing, and no other.
LEMMA Rewrites ==
    ASSUME Shape, NEW k \in Jobs,
           \/ CallStep(k) \/ LockStep(k) \/ TestStep(k) \/ AdminStep(k)
           \/ UpdateStep(k) \/ UpstreamStep(k) \/ DeleteStep(k) \/ Fault(k)
    PROVE  \A j \in Jobs : j # k => job'[j] = job[j]
<1>1. \/ \E pc : Goto(k, pc)
      \/ \E pc, r : Keeps(k, pc, r)
      \/ \E i : job' = [job EXCEPT ![k].pc = "calling", ![k].idx = i]
      \/ \E i, r : job' = [job EXCEPT ![k].pc = "saveToggle", ![k].idx = i, ![k].snap = r]
      \/ job' = [job EXCEPT ![k].pc = "fetching", ![k].snap = row, ![k].task = TRUE]
      \/ \E ms, f : job' = [job EXCEPT ![k].pc = "drop", ![k].snap.models = ms, ![k].next = f]
  BY Zenon
     DEF CallStep, LockStep, TestStep, AdminStep, UpdateStep, UpstreamStep,
         DeleteStep, Fault, ErrorStep, DisableStep, EnableStep, Ends,
         SelectKey, CallSucceeds, CallFails, ReadForUse, SaveUse, CopyChannel, AlreadyOff,
         UpdateCache, CommitKey, DisableReads, DisableCommits, TestReads, TestPasses, TestFails,
         Enable, ReloadReads, ReloadSwaps, SetBatch, ReadToggle, SaveToggle, ReadEdit,
         ReadPurge, Write, Reread, Drop, Add, UpstreamReads, ApplyReads, UpstreamNothing,
         UpstreamSaves, RefreshReads, RefreshInstalls, Delete, DeleteAbilities, DeleteBatch,
         DeleteDisabled, CommitFails, UpdateFails
<1> QED  BY <1>1 DEF Goto, Keeps, Shape

\* A handler's commit that leaves no usable key finds none in its copy either.
LEMMA LastKeyTurnsOff ==
    ASSUME KInv, NEW j \in Jobs, job[j].pc = "commit", job[j].snap.status # "auto",
           Len(row.keys) = KeyCount, Marked(j).list = row'.list, row'.keys = row.keys,
           Usable(row') = {}
    PROVE  TurnsOff(Marked(j))
<1>1. Sound(job[j].snap) /\ KeyOK("commit", job[j].idx)
  BY DEF KInv, Held, Reading
<1>2. job[j].idx \in Indices
  BY <1>1, ChannelAssumption DEF KeyOK, NeedsKey, Indices
<1>3. /\ Sound(Marked(j)) /\ Marked(j).keys = job[j].snap.keys
      /\ Marked(j).status = job[j].snap.status
  BY <1>1, <1>2, MarkAdds
<1>4. \A i \in Indices : row'.list[i] # "enabled"
  BY DEF Usable, Indices
<1>5. Usable(Marked(j)) = {}
  BY <1>3, <1>4 DEF Usable, Sound
<1> QED  BY <1>3, <1>5 DEF TurnsOff, Checked, Sound, RowLike

\* The handler that takes the last usable key of the row takes the channel and its
\* abilities in the same transaction, though it decides on an older copy: for any number
\* of handlers, processes and keys.
THEOREM LastKeyTakesChannelHolds == Spec => LastKeyTakesChannel
<1> DEFINE Last(j) == /\ At(j, "commit") /\ job'[j].pc = "done"
                      /\ Len(row.keys) = KeyCount /\ job[j].snap.status # "auto"
                      /\ Usable(row) # {} /\ Usable(row') = {}
           Gone == row'.status # "enabled" /\ \A m \in Models : abil'[m] # "on"
<1>1. ASSUME IInv, KInv, Next, NEW j \in Jobs, Last(j) PROVE Gone
  <2>1. row' # row
    BY <1>1
  <2>2. CommitKey(j)
    <3>1. PICK k \in Jobs : \/ CallStep(k) \/ LockStep(k) \/ TestStep(k) \/ AdminStep(k)
                            \/ UpdateStep(k) \/ UpstreamStep(k) \/ DeleteStep(k) \/ Fault(k)
      BY <1>1, <2>1 DEF Next, SyncStep, SyncReads, SyncSwaps, Restart
    <3>2. k = j
      BY <1>1, <3>1, Rewrites DEF IInv, At
    <3> QED  BY <1>1, <2>1, <3>1, <3>2
          DEF At, Begins, CallStep, LockStep, TestStep, AdminStep, UpdateStep, UpstreamStep,
              DeleteStep, Fault, ErrorStep, DisableStep, EnableStep,
              SelectKey, CallSucceeds, CallFails, ReadForUse, SaveUse, CopyChannel, AlreadyOff,
              UpdateCache, DisableReads, DisableCommits, TestReads, TestPasses, TestFails,
              Enable, ReloadReads, ReloadSwaps, SetBatch, ReadToggle, SaveToggle, ReadEdit,
              ReadPurge, Write, Reread, Drop, Add, UpstreamReads, ApplyReads, UpstreamNothing,
              UpstreamSaves, RefreshReads, RefreshInstalls, Delete, DeleteAbilities, DeleteBatch,
              DeleteDisabled, CommitFails, UpdateFails
  <2> DEFINE off == TurnsOff(Marked(j))
             r == [row EXCEPT !.list = Marked(j).list, !.count = Marked(j).count,
                              !.status = IF off THEN "auto" ELSE @]
  <2>3. Saved(r) /\ abil' = IF off THEN Follow("auto") ELSE abil
    BY <2>2 DEF CommitKey
  <2>4. row' = r
    BY <2>1, <2>3 DEF Saved
  <2>5. /\ row'.list = Marked(j).list /\ row'.keys = row.keys
        /\ row'.status = IF off THEN "auto" ELSE row.status
    BY <1>1, <2>4 DEF IInv, Shape, RowLike
  <2>6. off
    BY <1>1, <2>5, LastKeyTurnsOff DEF At
  <2>7. abil' = Follow("auto")
    BY <2>3, <2>6
  <2> QED  BY <2>5, <2>6, <2>7 DEF Follow, Switch
<1>2. IInv /\ KInv /\ [Next]_vars => [\A j \in Jobs : Last(j) => Gone]_vars
  BY <1>1
<1> QED  BY <1>2, KInvHolds, PTL DEF Spec, LastKeyTakesChannel
=============================================================================
