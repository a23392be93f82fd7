------------------------------- MODULE Channel -------------------------------
(***************************************************************************)
(* One upstream channel: its row in the database, its abilities (the rows  *)
(* routing joins with it), the copy each gateway process caches, and the   *)
(* operations that race on them: failing calls that switch the channel or  *)
(* one of its keys off, usage accounting, the channel tests that switch it *)
(* on again, the task that follows the models the upstream offers, the     *)
(* administrator's edits, and deletion (model/channel.go,                  *)
(* model/ability.go, model/cache.go, monitor/channel.go,                   *)
(* controller/channel.go, controller/channel-test.go,                      *)
(* controller/channel_upstream_update.go).                                 *)
(*                                                                         *)
(* A job is one operation on its way through the code.  Which kinds of     *)
(* operation an instance admits is the constant Kinds.  The channel allows *)
(* automatic disabling and enabling.                                       *)
(***************************************************************************)
EXTENDS Naturals, Sequences, FiniteSets

CONSTANTS
    Procs,          \* gateway processes sharing the database
    Jobs,           \* operations of one behaviour
    ProcOf,         \* the process a job runs in
    NoJob,          \* no holder of a process's lock for this channel
    NoRow,          \* no snapshot being loaded
    Models,         \* models the channel may offer
    KeyCount,       \* keys the channel starts with
    MultiKey,       \* MultiKeyInfo.IsMultiKey
    Kinds,          \* operations that occur
    InitList,       \* status of each key at the start
    InitStatus,     \* status of the channel at the start
    BatchStatuses,  \* statuses administrators set
    Scope,          \* statuses of the channels a test run looks at
    CacheOn,        \* config.MemoryCacheEnabled
    MaxFaults       \* bound on database faults and process restarts

Statuses == {"enabled", "manual", "auto"}
Indices == 1 .. KeyCount

ASSUME ChannelAssumption ==
    /\ ProcOf \in [Jobs -> Procs]
    /\ NoJob \notin Jobs
    /\ KeyCount \in Nat \ {0}
    /\ MultiKey \in BOOLEAN
    /\ CacheOn \in BOOLEAN
    /\ Kinds \subseteq {"call", "use", "test", "batch", "toggle", "edit", "purge", "sync",
                  "upstream", "apply", "delete"}
    /\ InitList \in [Indices -> Statuses]
    /\ InitStatus \in Statuses
    /\ BatchStatuses \subseteq {"enabled", "manual"}
    /\ Scope \subseteq Statuses
    /\ MaxFaults \in Nat

VARIABLES
    row,      \* the channels row: status, models, keys, KeyStatusList and KeyCount
    abil,     \* the channel's ability for each model: "on", "off", or "none"
    cache,    \* channelsIDM of each process: a copy of the row, or NoRow
    loading,  \* InitChannelCache of the periodic sync: rows read, or NoRow
    lock,     \* channelStatusLocks of each process: the job holding it
    job,      \* what each job is doing
    alerts,   \* alerts sent for automatic disabling
    faults,   \* database faults and restarts so far
    stale,    \* some ability was, or may be, left by or written from an outdated row
    outside   \* key statuses or the cache were written without the lock

vars == <<row, abil, cache, loading, lock, job, alerts, faults, stale, outside>>

Rows == [status : Statuses \cup {"deleted"}, models : SUBSET Models,
         keys : UNION {[1 .. n -> Indices] : n \in 0 .. KeyCount},
         list : [Indices -> Statuses], count : 0 .. KeyCount]

(***************************************************************************)
(* Jobs.                                                                   *)
(***************************************************************************)
Steps == {"idle", "calling", "used", "saveUse", "failed", "copied", "commit",
          "unfit", "disable", "testing", "enable", "reload", "swap",
          "saveToggle", "write", "reread", "drop", "add", "unlist", "fetching",
          "refresh", "install", "done"}

\* A job: its step, the key it is about, the row it read, what follows when the
\* abilities are rebuilt, and whether it is the task that asks the upstream.
Fresh == [pc |-> "idle", idx |-> 0, snap |-> NoRow, next |-> "done", task |-> FALSE]

At(j, pc) == job[j].pc = pc
Begins(j, kind) == kind \in Kinds /\ At(j, "idle")
\* What is left of a job that is done: the key it was about, if there are several.
Finished(j) == [Fresh EXCEPT !.pc = "done", !.idx = IF MultiKey THEN job[j].idx ELSE 0]
Goto(j, pc) == job' = [job EXCEPT ![j] = IF pc = "done" THEN Finished(j) ELSE [@ EXCEPT !.pc = pc]]
Keeps(j, pc, r) == job' = [job EXCEPT ![j].pc = pc, ![j].snap = r]

Acquire(j) == lock[ProcOf[j]] = NoJob /\ lock' = [lock EXCEPT ![ProcOf[j]] = j]
Release(j) == lock' = [lock EXCEPT ![ProcOf[j]] = IF @ = j THEN NoJob ELSE @]

(***************************************************************************)
(* The row.                                                                *)
(***************************************************************************)
\* A deleted row is not found by a read, and an update of it changes nothing.
Deleted == row.status = "deleted"
Saved(r) == row' = IF Deleted THEN row ELSE r

\* Abilities that exist follow a status written with them.
Switch(status) == IF status = "enabled" THEN "on" ELSE "off"
Follow(status) == [m \in Models |-> IF abil[m] = "none" THEN "none" ELSE Switch(status)]

\* The abilities a row asks for.
Listed(r) == [m \in Models |-> IF r.status = "deleted" \/ m \notin r.models
                               THEN "none" ELSE Switch(r.status)]

Usable(r) == {i \in 1 .. Len(r.keys) : r.list[i] = "enabled"}

\* checkAndUpdateChannelStatus: with no usable key the channel is off.
Checked(r) == IF Usable(r) = {} THEN [r EXCEPT !.status = "auto"] ELSE r

\* The check just switched the channel off, and says so.
TurnsOff(r) == r.status # "auto" /\ Checked(r).status = "auto"

\* Abilities are being rebuilt from a row read before.
Rebuilding == {j \in Jobs : job[j].pc \in {"drop", "add"}}

\* The row may change while abilities are being rebuilt from the old one.
Outdates == stale' = (stale \/ (Rebuilding # {} /\ Listed(row') # Listed(row)))

\* InitChannelCache keeps enabled channels only.
Loaded(r) == IF CacheOn /\ r.status = "enabled" THEN r ELSE NoRow

(***************************************************************************)
(* Calls.  Routing reads the database: the row joined with its abilities.  *)
(***************************************************************************)
SelectKey(j) ==
    /\ Begins(j, "call")
    /\ row.status = "enabled" /\ \E m \in Models : abil[m] = "on"
    /\ \E i \in Usable(row) : job' = [job EXCEPT ![j].pc = "calling", ![j].idx = i]
    /\ UNCHANGED <<row, abil, cache, loading, lock, alerts, faults, stale, outside>>

CallSucceeds(j) ==
    /\ "use" \in Kinds /\ At(j, "calling")
    /\ Goto(j, IF MultiKey THEN "used" ELSE "done")
    /\ UNCHANGED <<row, abil, cache, loading, lock, alerts, faults, stale, outside>>

\* An error that says the key or the channel is unfit.
CallFails(j) ==
    /\ At(j, "calling")
    /\ Goto(j, IF MultiKey THEN "failed" ELSE "unfit")
    /\ UNCHANGED <<row, abil, cache, loading, lock, alerts, faults, stale, outside>>

\* HandleKeyUsed, in a goroutine of its own: read the row, count, save.
ReadForUse(j) ==
    /\ At(j, "used")
    /\ IF Deleted THEN Goto(j, "done") ELSE Keeps(j, "saveUse", row)
    /\ UNCHANGED <<row, abil, cache, loading, lock, alerts, faults, stale, outside>>

\* saveMultiKeyInfo writes multi_key_info, statuses of all keys included.
SaveUse(j) ==
    /\ At(j, "saveUse")
    /\ Saved([row EXCEPT !.list = job[j].snap.list, !.count = job[j].snap.count])
    /\ Goto(j, "done")
    /\ outside' = TRUE
    /\ UNCHANGED <<abil, cache, loading, lock, alerts, faults, stale>>

(***************************************************************************)
(* HandleKeyError, in the disable pool: under the process's lock, copy the *)
(* cached channel, mark the key, update the cache, then the database.      *)
(***************************************************************************)
Copy(p) == IF cache[p] # NoRow THEN cache[p] ELSE row

\* The channel is not found, or the key is off already.
NothingToDo(j) == \/ Copy(ProcOf[j]).status = "deleted"
                  \/ Copy(ProcOf[j]).list[job[j].idx] = "auto"

\* A handler that does not wait for the lock.
CopyUnlocked(j) ==
    /\ At(j, "failed")
    /\ lock' = [lock EXCEPT ![ProcOf[j]] = j]
    /\ ~NothingToDo(j)
    /\ Keeps(j, "copied", Copy(ProcOf[j]))
    /\ UNCHANGED <<row, abil, cache, loading, alerts, faults, stale, outside>>

CopyChannel(j) ==
    /\ At(j, "failed")
    /\ Acquire(j)
    /\ ~NothingToDo(j)
    /\ Keeps(j, "copied", Copy(ProcOf[j]))
    /\ UNCHANGED <<row, abil, cache, loading, alerts, faults, stale, outside>>

AlreadyOff(j) ==
    /\ At(j, "failed")
    /\ lock[ProcOf[j]] = NoJob
    /\ NothingToDo(j)
    /\ Goto(j, "done")
    /\ UNCHANGED <<row, abil, cache, loading, lock, alerts, faults, stale, outside>>

Marked(j) == [job[j].snap EXCEPT !.list[job[j].idx] = "auto"]

\* CacheUpdateChannelMultiKeyInfo: a cached channel is told the keys of another copy,
\* and that it is off.
Told(c, r, off) ==
    [c EXCEPT !.list = r.list, !.count = r.count, !.status = IF off THEN "auto" ELSE @]

UpdateCache(j) ==
    LET p == ProcOf[j]
        c == cache[p]
        off == TurnsOff(Marked(j))
    IN /\ At(j, "copied")
       /\ cache' = [cache EXCEPT ![p] =
             IF c = NoRow THEN NoRow ELSE Told(c, Checked(Marked(j)), off)]
       /\ Goto(j, "commit")
       /\ UNCHANGED <<row, abil, loading, lock, alerts, faults, stale, outside>>

\* A commit that forgets to switch the channel off with its last key.
CommitKeyOnly(j) ==
    /\ At(j, "commit")
    /\ Saved([row EXCEPT !.list = Marked(j).list, !.count = Marked(j).count])
    /\ Release(j) /\ Goto(j, "done")
    /\ UNCHANGED <<abil, cache, loading, alerts, faults, stale, outside>>

CommitKey(j) ==
    LET off == TurnsOff(Marked(j))
    IN /\ At(j, "commit")
       /\ Saved([row EXCEPT !.list = Marked(j).list, !.count = Marked(j).count,
                            !.status = IF off THEN "auto" ELSE @])
       /\ abil' = IF off THEN Follow("auto") ELSE abil
       /\ Outdates
       /\ Release(j) /\ Goto(j, "done")
       /\ UNCHANGED <<cache, loading, alerts, faults, outside>>

\* The transaction fails: the cache is ahead of the database.
CommitFails(j) ==
    /\ At(j, "commit")
    /\ faults < MaxFaults /\ faults' = faults + 1
    /\ Release(j) /\ Goto(j, "done")
    /\ outside' = TRUE
    /\ UNCHANGED <<row, abil, cache, loading, alerts, stale>>

(***************************************************************************)
(* AutoDisableChannelById, for a channel with one key.                     *)
(***************************************************************************)
\* The task that follows the upstream refreshes the cache at its end.
Ends(j) == Goto(j, IF job[j].task THEN "refresh" ELSE "done")

DisableReads(j) ==
    /\ At(j, "unfit") /\ ~MultiKey
    /\ Acquire(j)
    /\ Goto(j, "disable")
    /\ UNCHANGED <<row, abil, cache, loading, alerts, faults, stale, outside>>

\* An update without its condition on the status: every caller is the first.
DisableAlways(j) ==
    /\ At(j, "disable")
    /\ abil' = Follow("auto")
    /\ Saved([row EXCEPT !.status = "auto"])
    /\ alerts' = alerts + 1
    /\ Outdates
    /\ Release(j) /\ Ends(j)
    /\ UNCHANGED <<cache, loading, faults, outside>>

\* One transaction; only the caller that changed the status sends the alert, and the
\* task that follows the upstream sends none.
DisableCommits(j) ==
    /\ At(j, "disable")
    /\ \/ /\ abil' = Follow("auto")
          /\ Saved([row EXCEPT !.status = "auto"])
          /\ alerts' = IF row.status \in {"auto", "deleted"} \/ job[j].task THEN alerts ELSE alerts + 1
          /\ Outdates
       \/ Deleted /\ UNCHANGED <<row, abil, alerts, stale>>
    /\ Release(j) /\ Ends(j)
    /\ UNCHANGED <<cache, loading, faults, outside>>

(***************************************************************************)
(* Channel tests: the run reads the channels, then tries each one.         *)
(***************************************************************************)
Testing(j) ==
    /\ ~job[j].task
    /\ \/ job[j].pc \in {"testing", "enable", "reload", "swap"}
       \/ job[j].pc \in {"unfit", "disable"} /\ job[j].idx = 0

\* testAllChannelsRunning admits one run per process.
TestReads(j) ==
    /\ Begins(j, "test")
    /\ \A k \in Jobs : ProcOf[k] = ProcOf[j] => ~Testing(k)
    /\ row.status \in Scope
    /\ Keeps(j, "testing", row)
    /\ UNCHANGED <<row, abil, cache, loading, lock, alerts, faults, stale, outside>>

TestPasses(j) ==
    /\ At(j, "testing")
    /\ Goto(j, IF job[j].snap.status = "enabled" THEN "done" ELSE "enable")
    /\ UNCHANGED <<row, abil, cache, loading, lock, alerts, faults, stale, outside>>

TestFails(j) ==
    /\ At(j, "testing")
    /\ Goto(j, IF job[j].snap.status = "enabled" /\ ~MultiKey THEN "unfit" ELSE "done")
    /\ UNCHANGED <<row, abil, cache, loading, lock, alerts, faults, stale, outside>>

\* UpdateChannelStatusById(enabled), which takes a deleted channel for a channel; the
\* lock is kept while the cache reloads.
Enable(j) ==
    /\ At(j, "enable")
    /\ Acquire(j)
    /\ abil' = Follow("enabled")
    /\ Saved([row EXCEPT !.status = "enabled"])
    /\ Outdates
    /\ Goto(j, "reload")
    /\ UNCHANGED <<cache, loading, alerts, faults, outside>>

ReloadReads(j) ==
    /\ At(j, "reload")
    /\ Keeps(j, "swap", row)
    /\ UNCHANGED <<row, abil, cache, loading, lock, alerts, faults, stale, outside>>

\* A reload that returns without unlocking.
ReloadKeepsLock(j) ==
    /\ At(j, "swap")
    /\ cache' = [cache EXCEPT ![ProcOf[j]] = Loaded(job[j].snap)]
    /\ Ends(j)
    /\ UNCHANGED <<row, abil, loading, lock, alerts, faults, stale, outside>>

ReloadSwaps(j) ==
    /\ At(j, "swap")
    /\ cache' = [cache EXCEPT ![ProcOf[j]] = Loaded(job[j].snap)]
    /\ Release(j) /\ Ends(j)
    /\ UNCHANGED <<row, abil, loading, alerts, faults, stale, outside>>

\* SyncChannelCache: the same load, periodically and without the lock.
SyncReads(p) ==
    /\ "sync" \in Kinds /\ CacheOn
    /\ loading[p] = NoRow
    /\ loading' = [loading EXCEPT ![p] = row]
    /\ UNCHANGED <<row, abil, cache, lock, job, alerts, faults, stale, outside>>

SyncSwaps(p) ==
    /\ loading[p] # NoRow
    /\ cache' = [cache EXCEPT ![p] = Loaded(loading[p])]
    /\ loading' = [loading EXCEPT ![p] = NoRow]
    /\ outside' = TRUE
    /\ UNCHANGED <<row, abil, lock, job, alerts, faults, stale>>

(***************************************************************************)
(* Administrators.  None of these takes the lock or refreshes the cache.   *)
(***************************************************************************)
\* BatchUpdateChannelStatus: abilities and status in one transaction.
SetBatch(j) ==
    /\ Begins(j, "batch")
    /\ \E s \in BatchStatuses :
         /\ abil' = Follow(s)
         /\ Saved([row EXCEPT !.status = s])
    /\ Outdates
    /\ Goto(j, "done")
    /\ UNCHANGED <<cache, loading, lock, alerts, faults, outside>>

\* ToggleKeyStatus: reads the row, marks a key, checks the channel ...
ReadToggle(j) ==
    /\ Begins(j, "toggle") /\ ~Deleted
    /\ \E i \in 1 .. Len(row.keys), s \in {"enabled", "manual"} :
         LET r == [row EXCEPT !.list[i] = s]
         IN job' = [job EXCEPT ![j].pc = "saveToggle", ![j].idx = i, ![j].snap = Checked(r)]
    /\ UNCHANGED <<row, abil, cache, loading, lock, alerts, faults, stale, outside>>

\* ... and saves multi_key_info alone.
SaveToggle(j) ==
    /\ At(j, "saveToggle")
    /\ Saved([row EXCEPT !.list = job[j].snap.list, !.count = job[j].snap.count])
    /\ Goto(j, "done")
    /\ outside' = TRUE
    /\ UNCHANGED <<abil, cache, loading, lock, alerts, faults, stale>>

\* UpdateChannel: the edit starts from the row as read, with or without a
\* new status, a new list of models.
ReadEdit(j) ==
    /\ Begins(j, "edit") /\ ~Deleted
    /\ \E s \in BatchStatuses \cup {row.status}, ms \in (SUBSET Models \ {{}}) \cup {row.models} :
         Keeps(j, "write", [row EXCEPT !.status = s, !.models = ms])
    /\ UNCHANGED <<row, abil, cache, loading, lock, alerts, faults, stale, outside>>

\* DeleteDisabledKeys: the usable keys, renumbered, with no status of their own.
Purged(r) ==
    LET Kept(i) == Cardinality({k \in Usable(r) : k <= i})
        n == Cardinality(Usable(r))
    IN Checked([status |-> r.status, models |-> r.models, count |-> n,
                keys |-> [i \in 1 .. n |->
                            r.keys[CHOOSE k \in Usable(r) : Kept(k) = i]],
                list |-> [i \in Indices |-> "enabled"]])

ReadPurge(j) ==
    /\ Begins(j, "purge") /\ MultiKey /\ ~Deleted
    /\ Keeps(j, "write", Purged(row))
    /\ UNCHANGED <<row, abil, cache, loading, lock, alerts, faults, stale, outside>>

\* Channel.Update: Updates(struct) skips zero fields, an empty list of keys or models
\* too.
Write(j) ==
    LET r == job[j].snap
    IN /\ At(j, "write")
       /\ Saved([r EXCEPT !.keys = IF @ = <<>> THEN row.keys ELSE @,
                          !.models = IF @ = {} THEN row.models ELSE @])
       /\ Outdates
       /\ Goto(j, "reread")
       /\ outside' = TRUE
       /\ UNCHANGED <<abil, cache, loading, lock, alerts, faults>>

\* The row is read again for its abilities, and when it is not found the edit goes on
\* with what it has; multi_key_info is saved again when another writer changed the
\* number of keys.
Reread(j) ==
    LET r == job[j].snap
        saved == [row EXCEPT !.list = r.list, !.count = r.count]
    IN /\ At(j, "reread")
       /\ row' = IF ~Deleted /\ MultiKey /\ r.count # row.count THEN saved ELSE row
       /\ IF Deleted THEN Goto(j, "drop") ELSE Keeps(j, "drop", row')
       /\ stale' = (stale \/ Deleted)
       /\ UNCHANGED <<abil, cache, loading, lock, alerts, faults, outside>>

\* A rebuild that skips a channel it believes to be off.
DropEnabledOnly(j) ==
    /\ At(j, "drop")
    /\ abil' = [m \in Models |-> "none"]
    /\ Goto(j, IF job[j].snap.status = "enabled" THEN "add" ELSE "done")
    /\ UNCHANGED <<row, cache, loading, lock, alerts, faults, stale, outside>>

\* UpdateAbilities is not a transaction: first delete, then insert.
Drop(j) ==
    /\ At(j, "drop")
    /\ abil' = [m \in Models |-> "none"]
    /\ Goto(j, "add")
    /\ UNCHANGED <<row, cache, loading, lock, alerts, faults, stale, outside>>

\* The insert fails on the primary key when another rebuild came first.
Add(j) ==
    LET r == job[j].snap
    IN /\ At(j, "add")
       /\ \/ /\ \A m \in r.models : abil[m] = "none"
             /\ abil' = [m \in Models |-> IF m \in r.models THEN Switch(r.status) ELSE abil[m]]
             /\ Goto(j, job[j].next)
          \/ /\ \E m \in r.models : abil[m] # "none"
             /\ UNCHANGED abil
             /\ Goto(j, IF job[j].next = "done" THEN "done" ELSE "refresh")
       /\ UNCHANGED <<row, cache, loading, lock, alerts, faults, stale, outside>>

\* A database error ends Update, or a deletion, between two statements.
UpdateFails(j) ==
    /\ job[j].pc \in {"reread", "drop", "add", "unlist"}
    /\ faults < MaxFaults /\ faults' = faults + 1
    /\ Goto(j, IF job[j].next = "done" THEN "done" ELSE "refresh")
    /\ stale' = TRUE
    /\ UNCHANGED <<row, abil, cache, loading, lock, alerts, outside>>

(***************************************************************************)
(* The models the upstream offers.                                         *)
(***************************************************************************)
Syncing(j) == job[j].task /\ ~At(j, "done")

\* runUpstreamUpdateTaskOnce, one at a time and on one server, reads the channels that
\* are not switched off by hand; DetectChannelUpstreamModelUpdates reads any, and
\* only notes what it finds.
UpstreamReads(j) ==
    /\ Begins(j, "upstream") /\ row.status \in {"enabled", "auto"}
    /\ \A k \in Jobs : ~Syncing(k)
    /\ job' = [job EXCEPT ![j].pc = "fetching", ![j].snap = row, ![j].task = TRUE]
    /\ UNCHANGED <<row, abil, cache, loading, lock, alerts, faults, stale, outside>>

\* ApplyChannelUpstreamModelUpdates: an administrator applies what was noted.
ApplyReads(j) ==
    /\ Begins(j, "apply") /\ ~Deleted
    /\ Keeps(j, "fetching", row)
    /\ UNCHANGED <<row, abil, cache, loading, lock, alerts, faults, stale, outside>>

\* No answer, an empty one, or nothing new.
UpstreamNothing(j) ==
    /\ At(j, "fetching")
    /\ Goto(j, "done")
    /\ UNCHANGED <<row, abil, cache, loading, lock, alerts, faults, stale, outside>>

\* What the task does when the abilities are rebuilt: a channel that lost its last
\* model is switched off, one that was off without models and has some is switched on.
Afterwards(j, models) ==
    CASE job[j].task /\ models = {} /\ ~MultiKey -> "unfit"
      [] job[j].task /\ job[j].snap.models = {} /\ job[j].snap.status = "auto" -> "enable"
      [] OTHER -> "refresh"

\* checkAndPersistUpstreamChanges, doApplyChannelUpstreamModelUpdates: the models are
\* saved over the row's; the abilities will be rebuilt with the status that was read.
UpstreamSaves(j) ==
    /\ At(j, "fetching")
    /\ \E models \in SUBSET Models \ {job[j].snap.models} :
         /\ Saved([row EXCEPT !.models = models])
         /\ job' = [job EXCEPT ![j].pc = "drop", ![j].snap.models = models,
                               ![j].next = Afterwards(j, models)]
    /\ stale' = \/ stale \/ job[j].snap.status # row.status
                \/ Rebuilding # {} /\ row' # row
    /\ UNCHANGED <<abil, cache, loading, lock, alerts, faults, outside>>

\* upstreamRefreshCache: InitChannelCache, under no lock.
RefreshReads(j) ==
    /\ At(j, "refresh")
    /\ Keeps(j, "install", row)
    /\ UNCHANGED <<row, abil, cache, loading, lock, alerts, faults, stale, outside>>

RefreshInstalls(j) ==
    /\ At(j, "install")
    /\ cache' = [cache EXCEPT ![ProcOf[j]] = Loaded(job[j].snap)]
    /\ outside' = TRUE
    /\ Goto(j, "done")
    /\ UNCHANGED <<row, abil, loading, lock, alerts, faults, stale>>

(***************************************************************************)
(* Deletion.                                                               *)
(***************************************************************************)
Removed == [row EXCEPT !.status = "deleted"]

\* A deletion in this process forgets the channel's mutex, whoever holds it.
ForgetLock(j) == lock' = [lock EXCEPT ![ProcOf[j]] = NoJob]

\* Channel.Delete: the row ...
Delete(j) ==
    /\ Begins(j, "delete")
    /\ row' = Removed /\ Outdates
    /\ Goto(j, "unlist")
    /\ UNCHANGED <<abil, cache, loading, lock, alerts, faults, outside>>

\* ... and then its abilities.
DeleteAbilities(j) ==
    /\ At(j, "unlist")
    /\ abil' = [m \in Models |-> "none"]
    /\ ForgetLock(j) /\ Goto(j, "done")
    /\ UNCHANGED <<row, cache, loading, alerts, faults, stale, outside>>

\* BatchDeleteChannel: both in one transaction.
DeleteBatch(j) ==
    /\ Begins(j, "delete")
    /\ row' = Removed /\ Outdates
    /\ abil' = [m \in Models |-> "none"]
    /\ ForgetLock(j) /\ Goto(j, "done")
    /\ UNCHANGED <<cache, loading, alerts, faults, outside>>

\* DeleteDisabledChannel: every row that is off; the abilities are left, switched off.
DeleteDisabled(j) ==
    /\ Begins(j, "delete") /\ row.status \in {"manual", "auto"}
    /\ row' = Removed /\ stale' = TRUE
    /\ Goto(j, "done")
    /\ UNCHANGED <<abil, cache, loading, lock, alerts, faults, outside>>

\* A process restarts: its jobs are gone, it loads the cache and repairs the
\* abilities that exist (CheckDataConsistency).
Restart(p) ==
    /\ faults < MaxFaults /\ faults' = faults + 1
    /\ job' = [j \in Jobs |-> IF ProcOf[j] = p /\ ~At(j, "idle")
                              THEN [Fresh EXCEPT !.pc = "done"] ELSE job[j]]
    /\ lock' = [lock EXCEPT ![p] = NoJob]
    /\ loading' = [loading EXCEPT ![p] = NoRow]
    /\ cache' = [cache EXCEPT ![p] = Loaded(row)]
    /\ abil' = IF Deleted THEN abil ELSE Follow(row.status)
    /\ stale' = \/ abil' # Listed(row)
                \/ \E j \in Rebuilding : ProcOf[j] # p /\ Listed(job[j].snap) # Listed(row)
    /\ UNCHANGED <<row, alerts, outside>>

(***************************************************************************)
(* The specification.                                                      *)
(***************************************************************************)
Init ==
    /\ row = [status |-> InitStatus, models |-> Models, keys |-> [i \in Indices |-> i],
              list |-> InitList, count |-> KeyCount]
    /\ abil = Listed(row)
    /\ cache = [p \in Procs |-> Loaded(row)]
    /\ loading = [p \in Procs |-> NoRow]
    /\ lock = [p \in Procs |-> NoJob]
    /\ job = [j \in Jobs |-> Fresh]
    /\ alerts = 0
    /\ faults = 0
    /\ stale = FALSE
    /\ outside = FALSE

CallStep(j) == SelectKey(j) \/ CallSucceeds(j) \/ CallFails(j) \/ ReadForUse(j) \/ SaveUse(j)
ErrorStep(j) == CopyChannel(j) \/ AlreadyOff(j) \/ UpdateCache(j) \/ CommitKey(j)
DisableStep(j) == DisableReads(j) \/ DisableCommits(j)
TestStep(j) == TestReads(j) \/ TestPasses(j) \/ TestFails(j)
EnableStep(j) == Enable(j) \/ ReloadReads(j) \/ ReloadSwaps(j)
AdminStep(j) == SetBatch(j) \/ ReadToggle(j) \/ SaveToggle(j) \/ ReadEdit(j) \/ ReadPurge(j)
UpdateStep(j) == Write(j) \/ Reread(j) \/ Drop(j) \/ Add(j)
UpstreamStep(j) ==
    \/ UpstreamReads(j) \/ ApplyReads(j) \/ UpstreamNothing(j) \/ UpstreamSaves(j)
    \/ RefreshReads(j) \/ RefreshInstalls(j)
DeleteStep(j) == Delete(j) \/ DeleteAbilities(j) \/ DeleteBatch(j) \/ DeleteDisabled(j)
Fault(j) == CommitFails(j) \/ UpdateFails(j)
SyncStep(p) == SyncReads(p) \/ SyncSwaps(p)

\* What a goroutine that holds or waits for the lock goes on to do.
LockStep(j) == ErrorStep(j) \/ DisableStep(j) \/ EnableStep(j)

Next ==
    \/ \E j \in Jobs : \/ CallStep(j) \/ LockStep(j) \/ TestStep(j)
                       \/ AdminStep(j) \/ UpdateStep(j) \/ UpstreamStep(j)
                       \/ DeleteStep(j) \/ Fault(j)
    \/ \E p \in Procs : SyncStep(p) \/ Restart(p)

Spec == Init /\ [][Next]_vars

\* Goroutines that hold or wait for the lock run on.
FairSpec == Spec /\ \A j \in Jobs : WF_vars(LockStep(j))

(***************************************************************************)
(* Properties.                                                             *)
(***************************************************************************)
\* Every variable keeps its type, and until the channel is deleted a job at a locked
\* step holds its process's lock.
Locked == {"copied", "commit", "disable", "reload", "swap"}
TypeOK ==
    /\ row \in Rows
    /\ abil \in [Models -> {"on", "off", "none"}]
    /\ cache \in [Procs -> Rows \cup {NoRow}]
    /\ loading \in [Procs -> Rows \cup {NoRow}]
    /\ lock \in [Procs -> Jobs \cup {NoJob}]
    /\ job \in [Jobs -> [pc : Steps, idx : 0 .. KeyCount, snap : Rows \cup {NoRow},
                      next : {"done", "refresh", "unfit", "enable"}, task : BOOLEAN]]
    /\ alerts \in 0 .. Cardinality(Jobs)
    /\ faults \in 0 .. MaxFaults
    /\ stale \in BOOLEAN
    /\ outside \in BOOLEAN
    /\ ~Deleted => \A j \in Jobs : (lock[ProcOf[j]] = j) <=> job[j].pc \in Locked

\* The abilities routing joins with are those of the row's models and say what its
\* status says, and a deleted channel has none, unless a rebuild of the abilities is
\* on its way, failed, or overlapped a change of the row, or the deletion of every
\* disabled channel left them behind (UpdateChannelStatusById,
\* BatchUpdateChannelStatus, AutoDisableChannelById, HandleKeyError and
\* BatchDeleteChannel write both tables in one transaction; Channel.Update,
\* Channel.Delete and the task that follows the upstream do not).
AbilitiesAgree ==
    ~stale /\ (\A j \in Jobs : job[j].pc \notin {"reread", "drop", "add", "unlist"})
        => abil = Listed(row)

\* However many instances and threads report the same outage, an alert is sent
\* for a change of the status to "auto" and for nothing else
\* (AutoDisableChannelById).
AlertPerOutage ==
    [][alerts' # alerts => row.status # "auto" /\ row'.status = "auto"]_vars

OneProcess == \A j, k \in Jobs : ProcOf[j] = ProcOf[k]

\* Errors of different keys, reported at the same time to one process, are all
\* on record when their handlers end: no handler overwrites another's record,
\* nor does an enabling with its reload of the cache.  A record is lost only to
\* a writer that does not take the lock, to a failed transaction, or with the
\* channel (HandleKeyError).
ErrorsStick ==
    OneProcess /\ ~outside /\ ~Deleted => \A j \in Jobs : At(j, "done") /\ job[j].idx # 0 => row.list[job[j].idx] = "auto"

\* The error that takes the last usable key takes the channel with it, in both
\* tables, whatever the handler's copy of the channel has missed, as long as no
\* deletion renumbers the keys and the copy does not take the channel for one that
\* is off already, as it does when a failed transaction left the cache ahead of the
\* database, or an administrator switched the channel on in the database alone
\* (HandleKeyError, checkAndUpdateChannelStatus).
LastKeyTakesChannel ==
    [][\A j \in Jobs : /\ At(j, "commit") /\ job'[j].pc = "done"
                       /\ Len(row.keys) = KeyCount /\ job[j].snap.status # "auto"
                       /\ Usable(row) # {} /\ Usable(row') = {}
            => row'.status # "enabled" /\ \A m \in Models : abil'[m] # "on"]_vars

\* Handlers, disabling and enabling wait for one lock per process and all end, the
\* task that follows the upstream to go on to its refresh of the cache.
HandlersEnd ==
    \A j \in Jobs :
        job[j].pc \in {"failed", "unfit", "enable"} ~> job[j].pc \in {"refresh", "install", "done"}

(***************************************************************************)
(* Properties the code's comments state and the code does not have.        *)
(***************************************************************************)
\* All writers of a channel are serialised: a key that an error switched off
\* stays off while no administrator touches it.
\* It does not hold: README, section 6.
AutoOffStays ==
    [][\A i \in Indices : row.list[i] = "auto" => row'.list[i] = "auto"]_vars

\* Deleting the disabled keys leaves none of them in use.
\* It does not hold: README, section 6.
PurgedKeysGone ==
    \A j \in Jobs : At(j, "done") => \A i \in 1 .. Len(row.keys) :
        InitList[row.keys[i]] # "enabled" => row.list[i] # "enabled"
=============================================================================
