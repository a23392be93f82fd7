------------------------------ MODULE VideoTask ------------------------------
(***************************************************************************)
(* Video tasks, and the image tasks that are not Flux's: a request is      *)
(* handed to a provider, its price is held or not, and the task is settled *)
(* by whoever first learns how it ended: a client that asks for the        *)
(* result, the server's own poller, or a callback of the provider.  Every  *)
(* provider has its own handler; they differ in when they read the task's  *)
(* row, what they guard and what they save:                                *)
(*                                                                         *)
(*   "xai"      relay/channel/xai/video_native.go: a Redis lock per task,  *)
(*              the row read again under it, the price corrected           *)
(*   "runway", "sora"  videos in relay/controller/directvideo.go           *)
(*   "general"  UpdateVideoTaskStatus in relay/controller/video.go;        *)
(*   "misread"  the same for adaptors that take an error answer for a      *)
(*              failed task (Ali, xAI), and                                *)
(*   "metered"  for Doubao, which corrects the price while it asks         *)
(*   "native"   controller/ali_video.go and controller/doubao_video.go     *)
(*   "kling"    controller/kling_video.go: nothing is held, the callback   *)
(*              charges                                                    *)
(*   "picture"  images of Runway, in directvideo.go                        *)
(*   "wan"      images of Ali, in relay/controller/image.go, which forgets *)
(*              its tasks after a day                                      *)
(*   "still"    images of Kling and of Flux there: charged, never settled  *)
(*                                                                         *)
(* Abstractions: a deployment runs one kind, chosen at the start; amounts  *)
(* are the hold and the cost the provider reports; of a row its status and *)
(* its quota are kept.  A handler is a goroutine of any server process:    *)
(* Handlers bounds how many are at work at once, MaxMishaps how often one *)
(* dies, outlives its lock, cannot save or refund, or is told of a success *)
(* without a video, MaxErrors how many answers are errors.                 *)
(***************************************************************************)
EXTENDS Integers, FiniteSets

CONSTANTS TaskIds,    \* row ids, in the order in which the poller lists them
          Asked,      \* bound: the tasks that clients ask about, that are reported, and
                      \* that things go wrong with; the others wait for the poller
          Handlers,
          Hold, Cost, \* held when a task is made, reported when it succeeds
          DefaultImageQuota,  \* given back for an image of Runway
          PageSize,   \* rows a poller's round takes: 20 for xAI, 50 for Doubao
          MaxMishaps, MaxErrors,
          None

ASSUME VideoAssumption ==
    /\ TaskIds \subseteq Nat /\ Asked \subseteq TaskIds /\ None \notin Handlers \cup TaskIds
    /\ Hold \in Nat \ {0} /\ Cost \in Nat \ {0} /\ PageSize \in Nat \ {0}
    /\ DefaultImageQuota \in Nat
    /\ MaxMishaps \in Nat /\ MaxErrors \in Nat

VARIABLES
    kind,    \* the provider's handlers
    redis,   \* whether the deployment runs with Redis; only xAI's handlers need it
    work,    \* the task at the provider
    making,  \* how far the request that makes the task has come
    row,     \* the task's row in the videos table
    paid,    \* what the task has taken from its user, refunds subtracted
    call,    \* the handlers: step, task, the row they read, the answer they got
    lock,    \* lock:xai_video_task:<id>
    gone,    \* tasks whose channel has been deleted
    causes,  \* history: what has happened to the task that may cost money
    mishaps, errors

videoVars == <<kind, redis, work, making, row, paid, call, lock, gone, causes, mishaps, errors>>

Images == {"picture", "wan", "still"}
General == {"general", "misread", "metered"}
Kinds == {"xai", "runway", "sora", "native", "kling"} \cup General \cup Images
RowFirst == General \cup {"wan", "still"}        \* the row is inserted before the hold is taken
ReadsFirst == {"xai", "native", "wan", "still"} \* a poll uses the row it read before it asked
Polled == {"xai", "native"}                     \* kinds with a poller of the server
CalledBack == {"native", "kling"}

Ended == {"succeed", "failed", "expired"}
Statuses == Ended \cup {"none", "pending", "submitted", "processing"}
Rows == [status : Statuses, quota : {0, Hold, Cost}]
NoRow == [status |-> "none", quota |-> 0]
Final(r) == r.status \in Ended

\* What the provider may make of a task; only some report that one expired.
Outcomes == {"succeed", "failed"} \cup IF kind \in Polled THEN {"expired"} ELSE {}

\* The status an answer is mapped to.
Reading(t) == CASE work[t] = "running" -> "processing"
                [] work[t] = "expired" /\ kind = "native" -> "failed"
                [] work[t] = "forgotten" -> "failed"
                [] OTHER -> work[t]

Steps == {"idle", "asking", "answered", "metered", "read", "locked", "settle",
          "save", "refund", "notify"}
Calls == [step : Steps, task : TaskIds \cup {None}, row : Rows,
          answer : Statuses \cup {"missing"}]
Idle == [step |-> "idle", task |-> None, row |-> NoRow, answer |-> "none"]

Causes == {"unpaid", "overwritten", "misread", "metered", "remetered", "crash", "lockLost",
           "unguarded", "unsaved", "unrefunded", "unbilled"}

VideoInit ==
    /\ kind \in Kinds /\ redis \in IF kind = "xai" THEN BOOLEAN ELSE {TRUE}
    /\ work = [t \in TaskIds |-> "none"]
    /\ making = [t \in TaskIds |-> "new"]
    /\ row = [t \in TaskIds |-> NoRow]
    /\ paid = [t \in TaskIds |-> 0]
    /\ call = [h \in Handlers |-> Idle]
    /\ lock = [t \in TaskIds |-> None]
    /\ gone = {}
    /\ causes = [t \in TaskIds |-> {}]
    /\ mishaps = 0 /\ errors = 0

Blame(t, C) == causes' = [causes EXCEPT ![t] = @ \cup C]
Pay(t, n) == paid' = [paid EXCEPT ![t] = @ + n]
Go(h, step) == call' = [call EXCEPT ![h].step = step]
GoIdle(h) == call' = [call EXCEPT ![h] = Idle]

\* The row of a task that has ended is saved, under no lock, by one who has not seen
\* it, or who does not say that the task has ended.
Overwrites(t, seen, status) ==
    IF Final(row[t]) /\ (row[t] # seen \/ status \notin Ended) THEN {"overwritten"} ELSE {}

-----------------------------------------------------------------------------
(* A task is made.                                                         *)

\* Bound: tasks meet only in the page of a poller, and one kind with a poller is enough.
Requested(t) == t \in Asked \/ kind = "native"

Sent(t) ==
    /\ making[t] = "new" /\ Requested(t)
    /\ making' = [making EXCEPT ![t] = "sent"]
    /\ work' = [work EXCEPT ![t] = "running"]
    /\ UNCHANGED <<kind, redis, row, paid, call, lock, gone, causes, mishaps, errors>>

\* The provider accepts the request: directRelayXaiVideo, DirectRelaySoraVideo,
\* DirectRelayRunway, RelayAliVideoCreate, HandleVideoRequest of an adaptor.
SendVideo(t) == kind \notin Images \cup {"kling"} /\ Sent(t)

\* handleAliImageRequest, handleKlingImageRequest, handleFluxImageRequest; and
\* DirectRelayRunway again.  A request that is refused leaves nothing.
SendImage(t) == kind \in Images /\ Sent(t)

\* The hold is taken; when that fails the handler logs it and goes on.
TakeHold(t) ==
    /\ kind # "kling"
    /\ making[t] = IF kind \in RowFirst THEN "inserted" ELSE "sent"
    /\ making' = [making EXCEPT ![t] = IF kind \in RowFirst THEN "made" ELSE "charged"]
    /\ \/ Pay(t, Hold) /\ UNCHANGED causes
       \/ t \in Asked /\ UNCHANGED paid /\ Blame(t, {"unpaid"})
    /\ UNCHANGED <<kind, redis, work, row, call, lock, gone, mishaps, errors>>

\* The row is written, or its failure is logged and ignored.
Insert(t, status) ==
    /\ making[t] = IF kind \in RowFirst THEN "sent" ELSE "charged"
    /\ making' = [making EXCEPT ![t] = IF kind \in RowFirst THEN "inserted" ELSE "made"]
    /\ \/ row' = [row EXCEPT ![t] = [status |-> status, quota |-> Hold]]
       \/ t \in Asked /\ UNCHANGED row
    /\ UNCHANGED <<kind, redis, work, paid, call, lock, gone, causes, mishaps, errors>>

CreateVideoLog(t) == kind \notin Images \cup {"kling"} /\ Insert(t, "processing")

\* CreateImageLog: a Kling image may have failed already, and is charged all the same.
\* (Runway's rows say "success" at first, which no handler takes for an end.)
CreateImageLog(t) ==
    /\ kind \in Images
    /\ \E status \in {"submitted"} \cup IF kind = "still" THEN {"failed"} ELSE {} :
          Insert(t, status)

\* processAsyncTask: a row first, with nothing held.
KlingCreate(t) ==
    /\ kind = "kling" /\ making[t] = "new" /\ t \in Asked
    /\ making' = [making EXCEPT ![t] = "inserted"]
    /\ row' = [row EXCEPT ![t] = [status |-> "pending", quota |-> Hold]]
    /\ UNCHANGED <<kind, redis, work, paid, call, lock, gone, causes, mishaps, errors>>

\* The request is accepted; or it is refused, or its answer is lost.
KlingSend(t) ==
    /\ kind = "kling" /\ making[t] = "inserted"
    /\ \/ /\ making' = [making EXCEPT ![t] = "sent"]
          /\ work' = [work EXCEPT ![t] = "running"]
       \/ /\ making' = [making EXCEPT ![t] = "refused"]
          /\ \/ UNCHANGED work
             \/ work' = [work EXCEPT ![t] = "running"]
    /\ UNCHANGED <<kind, redis, row, paid, call, lock, gone, causes, mishaps, errors>>

\* UpdateWithKlingResponse or MarkFailed: the row of before the request is saved,
\* whatever a callback has done to it since.
KlingSaveMade(t) ==
    /\ kind = "kling" /\ making[t] \in {"sent", "refused"}
    /\ LET status == IF making[t] = "sent" THEN "submitted" ELSE "failed"
           seen == [status |-> "pending", quota |-> Hold]
       IN  /\ row' = [row EXCEPT ![t] = [seen EXCEPT !.status = status]]
           /\ Blame(t, Overwrites(t, seen, status))
    /\ making' = [making EXCEPT ![t] = "made"]
    /\ UNCHANGED <<kind, redis, work, paid, call, lock, gone, mishaps, errors>>

-----------------------------------------------------------------------------
(* The provider, the channels, the clock.                                  *)

ProviderEnds(t) ==
    /\ work[t] = "running"
    /\ \E o \in IF t \in Asked THEN Outcomes ELSE {"succeed"} : work' = [work EXCEPT ![t] = o]
    /\ UNCHANGED <<kind, redis, making, row, paid, call, lock, gone, causes, mishaps, errors>>

\* Ali knows a task for 24 hours; then it says UNKNOWN, which is taken for a failure.
Forget(t) ==
    /\ kind = "wan" /\ work[t] \in Ended
    /\ work' = [work EXCEPT ![t] = "forgotten"]
    /\ UNCHANGED <<kind, redis, making, row, paid, call, lock, gone, causes, mishaps, errors>>

\* Bound: where no poller lists the tasks it only ends the questions.
DeleteChannel(t) ==
    /\ kind \in Polled /\ t \in Asked /\ row[t].status # "none"
    /\ gone' = gone \cup {t}
    /\ UNCHANGED <<kind, redis, work, making, row, paid, call, lock, causes, mishaps, errors>>

InLock(h, t) == call[h].task = t /\ kind = "xai" /\ call[h].step \in {"locked", "settle", "save", "refund"}

\* RedisLockRelease: only the holder's token deletes the key.
Unlock(h) ==
    lock' = [t \in TaskIds |-> IF lock[t] = h /\ t = call[h].task THEN None ELSE lock[t]]

\* The lock's 60 seconds are over; its holder may be dead, or slow.
LockExpires(t) ==
    /\ lock[t] # None
    /\ lock' = [lock EXCEPT ![t] = None]
    /\ IF InLock(lock[t], t)
       THEN mishaps < MaxMishaps /\ mishaps' = mishaps + 1 /\ Blame(t, {"lockLost"})
       ELSE UNCHANGED <<mishaps, causes>>
    /\ UNCHANGED <<kind, redis, work, making, row, paid, call, gone, errors>>

\* A handler's process dies; or an error of the database or of Redis makes it return:
\* but for xAI's and Kling's, a handler that cannot save is done.
HandlerDies(h) ==
    /\ call[h].step # "idle" /\ call[h].task \in Asked /\ mishaps < MaxMishaps
    /\ mishaps' = mishaps + 1
    /\ Blame(call[h].task,
             IF call[h].step \in {"save", "refund", "metered"} THEN {"crash"} ELSE {})
    /\ GoIdle(h)
    /\ UNCHANGED <<kind, redis, work, making, row, paid, lock, gone, errors>>

\* Those two log that task.Update() has failed, and go on.
SaveFails(h) ==
    /\ kind \in {"xai", "kling"} /\ call[h].step = "save"
    /\ call[h].task \in Asked /\ mishaps < MaxMishaps
    /\ mishaps' = mishaps + 1
    /\ Blame(call[h].task, {"unsaved"})
    /\ IF kind = "xai" /\ call[h].answer # "failed"
       THEN GoIdle(h) /\ Unlock(h)
       ELSE /\ call' = [call EXCEPT ![h].step = IF kind = "kling" THEN "notify" ELSE "refund",
                                    ![h].row.status = call[h].answer]
            /\ UNCHANGED lock
    /\ UNCHANGED <<kind, redis, work, making, row, paid, gone, errors>>

-----------------------------------------------------------------------------
(* A handler asks for a task, or is told.                                  *)

Ask(h, t) ==
    /\ call[h].step = "idle" /\ t \notin gone
    /\ call' = [call EXCEPT ![h] =
                  [Idle EXCEPT !.step = "asking", !.task = t,
                               !.row = IF kind \in ReadsFirst \cup {"metered"} THEN row[t] ELSE NoRow]]
    /\ UNCHANGED <<kind, redis, work, making, row, paid, lock, gone, causes, mishaps, errors>>

\* GetXaiVideoResult, GetRunwayResult, GetSoraVideoResult, GetVideoResult,
\* GetImageResult, RelayAliVideoResult, RelayDoubaoVideoResult: some answer from the
\* row.
ClientAsks(h, t) ==
    /\ kind # "kling" /\ t \in Asked /\ row[t].status # "none"
    /\ "remetered" \notin causes[t]                    \* bound: Doubao's would go on for ever
    /\ kind = "xai" => ~Final(row[t])
    /\ kind = "native" => row[t].status # "succeed"
    /\ Ask(h, t)

\* Mutant: ended tasks stay in the list.
UnfinishedAll == {t \in TaskIds : row[t].status # "none"}
Unfinished == {t \in TaskIds : row[t].status = "processing"}

\* The rows of one round, the oldest first.
Page == {t \in Unfinished : Cardinality({s \in Unfinished : s < t}) < PageSize}

\* pollXaiVideoTasks, pollAliWanTasks, pollDoubaoVideoTasks: a goroutine per row.
PollerAsks(h, t) == kind \in Polled /\ t \in Page /\ Ask(h, t)

\* HandleDoubaoCallback, HandleKlingCallback: the provider reports a task, once,
\* again, or late; the row is read afterwards.
Callback(h, t) ==
    /\ kind \in CalledBack /\ t \in Asked /\ work[t] # "none" /\ row[t].status # "none"
    /\ call[h].step = "idle"
    /\ call' = [call EXCEPT ![h] = [Idle EXCEPT !.step = "answered", !.task = t,
                                                !.answer = Reading(t)]]
    /\ UNCHANGED <<kind, redis, work, making, row, paid, lock, gone, causes, mishaps, errors>>

ProviderAnswers(h) ==
    /\ call[h].step = "asking"
    /\ call' = [call EXCEPT ![h].answer = Reading(call[h].task),
                            ![h].step = IF kind \in ReadsFirst THEN "read" ELSE "answered"]
    /\ UNCHANGED <<kind, redis, work, making, row, paid, lock, gone, causes, mishaps, errors>>

\* No answer, or an error answer that is only passed on.
NoAnswer(h) ==
    /\ call[h].step = "asking" /\ call[h].task \in Asked
    /\ GoIdle(h)
    /\ UNCHANGED <<kind, redis, work, making, row, paid, lock, gone, causes, mishaps, errors>>

\* An error answer that is taken for a status: Sora's 404; or any that the Ali and
\* xAI adaptors report as a failed task.  (An error of Runway has no status, and an
\* empty status is not written.)
ErrorAnswer(h) ==
    /\ call[h].step = "asking" /\ errors < MaxErrors
    /\ \/ kind = "sora" /\ call' = [call EXCEPT ![h].answer = "missing", ![h].step = "answered"]
          /\ UNCHANGED causes
       \/ kind = "misread" /\ call' = [call EXCEPT ![h].answer = "failed", ![h].step = "answered"]
          /\ Blame(call[h].task, {"misread"})
    /\ errors' = errors + 1
    /\ UNCHANGED <<kind, redis, work, making, row, paid, lock, gone, mishaps>>

\* Doubao's adaptor corrects the price before it returns the answer, from the row
\* that was read first and is never given the new price.  A correction that fails is
\* logged.
Meter(h) ==
    /\ call[h].step = "answered" /\ kind = "metered" /\ call[h].answer = "succeed"
    /\ LET t == call[h].task
       IN  \/ /\ Pay(t, Cost - call[h].row.quota)
              /\ Blame(t, IF "metered" \in causes[t] THEN {"remetered"} ELSE {"metered"})
           \/ Blame(t, {"unpaid"}) /\ UNCHANGED paid
    /\ Go(h, "metered")
    /\ UNCHANGED <<kind, redis, work, making, row, lock, gone, mishaps, errors>>

\* The row is read after the answer is there; a callback for a task that has ended
\* is answered at once (handleCallback).
Read(h) ==
    /\ call[h].step \in {"answered", "metered"}
    /\ kind = "metered" /\ call[h].answer = "succeed" => call[h].step = "metered"
    /\ IF kind = "kling" /\ Final(row[call[h].task])
       THEN GoIdle(h)
       ELSE call' = [call EXCEPT ![h].step = "read", ![h].row = row[call[h].task]]
    /\ UNCHANGED <<kind, redis, work, making, row, paid, lock, gone, causes, mishaps, errors>>

-----------------------------------------------------------------------------
(* A handler applies what it learned.                                      *)

\* The status changes, the rest of the row is the one that was read; the native
\* handlers update the status alone.  Who goes on has the saved row in hand.
Save(h, quota) ==
    LET t == call[h].task
        a == call[h].answer
    IN  /\ row' = [row EXCEPT ![t] =
                     [status |-> a, quota |-> IF kind = "native" THEN @.quota ELSE quota]]
        /\ Blame(t, IF InLock(h, t) THEN {} ELSE Overwrites(t, call[h].row, a))

SaveThen(h, step) ==
    /\ Save(h, call[h].row.quota)
    /\ call' = [call EXCEPT ![h].step = step, ![h].row.status = call[h].answer]
SaveAndLeave(h) == Save(h, call[h].row.quota) /\ GoIdle(h)

Reads(h, k) == kind \in k /\ call[h].step = "read"

\* A refund for whoever read a task that had not failed.
SaveOrRefund(h) ==
    /\ IF call[h].row.status # "failed" /\ call[h].answer = "failed"
       THEN SaveThen(h, "refund")
       ELSE SaveAndLeave(h)
    /\ UNCHANGED <<kind, redis, work, making, paid, lock, gone, mishaps, errors>>

\* updateTaskStatus, updateSoraTaskStatusFromAPI.
UpdateDirect(h) ==
    Reads(h, {"runway", "sora", "picture"}) /\ call[h].answer # "missing" /\ SaveOrRefund(h)

\* updateAliImageTaskStatusFromBody.
UpdateImage(h) == Reads(h, {"wan"}) /\ SaveOrRefund(h)

\* GetImageResult for Kling and Flux: the answer is passed on, nothing is saved.
PassOn(h) ==
    /\ Reads(h, {"still"})
    /\ GoIdle(h)
    /\ UNCHANGED <<kind, redis, work, making, row, paid, lock, gone, causes, mishaps, errors>>

\* updateSoraTaskStatusFromHTTPCode: a task that is missing has not succeeded, and
\* is taken to be under way.
UpdateMissing(h) ==
    /\ Reads(h, {"sora"}) /\ call[h].answer = "missing"
    /\ IF call[h].row.status = "succeed"
       THEN UNCHANGED <<row, causes>>
       ELSE /\ row' = [row EXCEPT ![call[h].task] = [call[h].row EXCEPT !.status = "processing"]]
            /\ Blame(call[h].task, Overwrites(call[h].task, call[h].row, "processing"))
    /\ GoIdle(h)
    /\ UNCHANGED <<kind, redis, work, making, paid, lock, gone, mishaps, errors>>

\* UpdateVideoTaskStatus, and its callers' refund.
UpdateGeneral(h) ==
    /\ Reads(h, General)
    /\ IF call[h].answer = call[h].row.status
       THEN UNCHANGED <<row, causes>> /\ GoIdle(h)
       ELSE IF call[h].answer = "failed" THEN SaveThen(h, "refund") ELSE SaveAndLeave(h)
    /\ UNCHANGED <<kind, redis, work, making, paid, lock, gone, mishaps, errors>>

\* updateAliWanTaskStatus, updateDoubaoTaskStatus: the refund is a goroutine.
RefundsFrom(seen) == seen.status = "processing"

UpdateNative(h) ==
    /\ Reads(h, {"native"})
    /\ IF call[h].answer = call[h].row.status
       THEN UNCHANGED <<row, causes>> /\ GoIdle(h)
       ELSE IF call[h].answer = "failed" /\ RefundsFrom(call[h].row)
            THEN SaveThen(h, "refund")
            ELSE SaveAndLeave(h)
    /\ UNCHANGED <<kind, redis, work, making, paid, lock, gone, mishaps, errors>>

\* UpdateNativeVideoTaskStatus, an answer that is not final: no lock.
UpdateXaiRunning(h) ==
    /\ Reads(h, {"xai"}) /\ call[h].answer \notin Ended
    /\ SaveAndLeave(h)
    /\ UNCHANGED <<kind, redis, work, making, paid, lock, gone, mishaps, errors>>

\* Mutant: SET without NX.
LockFreeAlways(t) == TRUE
LockFree(t) == ~redis \/ lock[t] = None

\* RedisLockAcquire; who does not get the lock returns.  Without Redis everyone gets
\* it, and nothing keeps the next one out.
Lock(h) ==
    /\ Reads(h, {"xai"}) /\ call[h].answer \in Ended
    /\ LET t == call[h].task
           beside == \E g \in Handlers \ {h} : InLock(g, t)
       IN  IF LockFree(t)
           THEN /\ lock' = [lock EXCEPT ![t] = IF redis THEN h ELSE @]
                /\ Blame(t, IF ~redis /\ beside THEN {"unguarded"} ELSE {})
                /\ Go(h, "locked")
           ELSE UNCHANGED <<lock, causes>> /\ GoIdle(h)
    /\ UNCHANGED <<kind, redis, work, making, row, paid, gone, mishaps, errors>>

\* Mutant: the row is not read again under the lock.
FreshStale(h) == call[h].row
Fresh(h) == row[call[h].task]

Recheck(h) ==
    /\ call[h].step = "locked"
    /\ IF Final(Fresh(h))
       THEN GoIdle(h) /\ Unlock(h)
       ELSE call' = [call EXCEPT ![h].step = "settle", ![h].row = Fresh(h)] /\ UNCHANGED lock
    /\ UNCHANGED <<kind, redis, work, making, row, paid, gone, causes, mishaps, errors>>

\* adjustNativeVideoQuota, before the row is saved; and what a Kling callback
\* charges.  A charge that fails is logged, and so is a correction.
Settle(h) ==
    /\ call[h].step = "settle"
    /\ LET t == call[h].task
           owed == IF kind = "kling" THEN Cost ELSE Cost - call[h].row.quota
       IN  IF call[h].answer # "succeed"
           THEN Go(h, "save") /\ UNCHANGED <<paid, causes>>
           ELSE \/ /\ Pay(t, owed) /\ UNCHANGED causes
                   /\ call' = [call EXCEPT ![h].step = "save", ![h].row.quota = Cost]
                \/ /\ Blame(t, {"unpaid"}) /\ UNCHANGED paid
                   /\ call' = [call EXCEPT ![h].step = "save",
                                           ![h].row.quota = IF kind = "kling" THEN Cost ELSE @]
    /\ UNCHANGED <<kind, redis, work, making, row, lock, gone, mishaps, errors>>

\* The row is saved at last; a failed task goes on to its refund.
SaveXai(h) ==
    /\ kind = "xai" /\ call[h].step = "save"
    /\ IF call[h].answer = "failed"
       THEN SaveThen(h, "refund") /\ UNCHANGED lock
       ELSE SaveAndLeave(h) /\ Unlock(h)
    /\ UNCHANGED <<kind, redis, work, making, paid, gone, mishaps, errors>>

\* handleCallback: a success is charged before it is saved, if it names a video; one
\* that names none is saved and costs nothing.
KlingApply(h) ==
    /\ Reads(h, {"kling"})
    /\ \/ /\ Go(h, IF call[h].answer = "succeed" THEN "settle" ELSE "save")
          /\ UNCHANGED <<causes, mishaps>>
       \/ /\ call[h].answer = "succeed" /\ mishaps < MaxMishaps
          /\ Go(h, "save") /\ Blame(call[h].task, {"unbilled"}) /\ mishaps' = mishaps + 1
    /\ UNCHANGED <<kind, redis, work, making, row, paid, lock, gone, errors>>

\* task.Update(), and then, in a goroutine, the user's own callback is told.
KlingSave(h) ==
    /\ kind = "kling" /\ call[h].step = "save"
    /\ SaveThen(h, "notify")
    /\ UNCHANGED <<kind, redis, work, making, paid, lock, gone, mishaps, errors>>

\* NotifyUserCallback saves the same row a second time when the user has answered,
\* and does nothing when the user gave no address.
NotifyUserCallback(h) ==
    /\ call[h].step = "notify"
    /\ \/ SaveAndLeave(h)
       \/ UNCHANGED <<row, causes>> /\ GoIdle(h)
    /\ UNCHANGED <<kind, redis, work, making, paid, lock, gone, mishaps, errors>>

\* CompensateNativeVideoTask and its copies read the quota again; the native
\* handlers use the row they have; compensateRunwayImageTask looks for a log of a type
\* no log of a charge has, and gives back a fixed amount.
Compensation(h) ==
    CASE kind = "native" -> call[h].row.quota
      [] kind = "picture" -> DefaultImageQuota
      [] OTHER -> row[call[h].task].quota

\* A refund that fails is logged, and never tried again.
Refund(h) ==
    /\ call[h].step = "refund"
    /\ \/ Pay(call[h].task, -Compensation(h)) /\ UNCHANGED <<causes, mishaps>>
       \/ /\ Blame(call[h].task, {"unrefunded"}) /\ UNCHANGED paid
          /\ mishaps < MaxMishaps /\ mishaps' = mishaps + 1
    /\ Unlock(h) /\ GoIdle(h)
    /\ UNCHANGED <<kind, redis, work, making, row, gone, errors>>

-----------------------------------------------------------------------------
Apply(h) ==
    \/ Meter(h) \/ Read(h) \/ PassOn(h) \/ UpdateImage(h) \/ UpdateDirect(h) \/ UpdateMissing(h) \/ UpdateGeneral(h)
    \/ UpdateNative(h) \/ UpdateXaiRunning(h) \/ Lock(h) \/ Recheck(h) \/ Settle(h)
    \/ SaveXai(h) \/ KlingApply(h) \/ KlingSave(h) \/ NotifyUserCallback(h) \/ Refund(h)

Make(t) ==
    \/ SendVideo(t) \/ SendImage(t) \/ TakeHold(t) \/ CreateVideoLog(t) \/ CreateImageLog(t)
    \/ KlingCreate(t) \/ KlingSend(t) \/ KlingSaveMade(t)

VideoNext ==
    \/ \E t \in TaskIds : Make(t) \/ ProviderEnds(t) \/ Forget(t) \/ DeleteChannel(t) \/ LockExpires(t)
    \/ \E h \in Handlers :
          \/ \E t \in TaskIds : ClientAsks(h, t) \/ PollerAsks(h, t) \/ Callback(h, t)
          \/ ProviderAnswers(h) \/ NoAnswer(h) \/ ErrorAnswer(h) \/ HandlerDies(h) \/ SaveFails(h)
          \/ Apply(h)

\* The poller comes round for ever, a provider ends its tasks, and answers at last
\* when it is asked again and again, a lock expires, and no handler stops by itself.
Fairness ==
    /\ \A h \in Handlers : WF_videoVars(ProviderAnswers(h) \/ NoAnswer(h) \/ Apply(h))
    /\ WF_videoVars(\E t \in TaskIds : ProviderEnds(t))
    /\ \A t \in TaskIds :
         /\ WF_videoVars(LockExpires(t))
         /\ SF_videoVars(\E h \in Handlers : PollerAsks(h, t))
    /\ \A t \in Asked : SF_videoVars(\E h \in Handlers : call[h].task = t /\ ProviderAnswers(h))

VideoSpec == VideoInit /\ [][VideoNext]_videoVars /\ Fairness

-----------------------------------------------------------------------------
VideoTypeOK ==
    /\ kind \in Kinds /\ redis \in BOOLEAN
    /\ work \in [TaskIds -> {"none", "running", "forgotten"} \cup Ended]
    /\ making \in [TaskIds -> {"new", "sent", "charged", "inserted", "refused", "made"}]
    /\ row \in [TaskIds -> Rows]
    /\ paid \in [TaskIds -> Int]
    /\ call \in [Handlers -> Calls]
    /\ lock \in [TaskIds -> Handlers \cup {None}]
    /\ gone \subseteq TaskIds
    /\ causes \in [TaskIds -> SUBSET Causes]
    /\ mishaps \in 0..MaxMishaps /\ errors \in 0..MaxErrors

\* What a task costs in the end: what the provider reported where the handlers ask
\* for that, the hold where they do not, nothing when it failed.  An expired xAI
\* task keeps its hold, and so does an image that is never settled; a failed image of
\* Runway gives back its fixed amount.
Due(t) == CASE kind = "still" -> Hold
            [] row[t].status = "failed" /\ kind = "picture" -> Hold - DefaultImageQuota
            [] row[t].status = "failed" /\ kind \notin {"still", "picture"} -> 0
            [] row[t].status = "succeed" /\ kind \in {"xai", "metered", "kling"} -> Cost
            [] OTHER -> Hold

Excuses == Causes \ {"metered"}
Settled(t) == making[t] = "made" /\ Final(row[t]) /\ \A h \in Handlers : call[h].task # t

\* A task that has ended, and that no handler is at work on, has taken exactly its
\* price, and its row says how it ended; unless its row was saved over, under no
\* lock, by a handler that knew less, an error was read as a failure, its price was
\* corrected twice, a charge, a refund or a save failed and was only logged, Kling's
\* success named no video, a handler died, one outlived its lock, or two of xAI's met
\* where there is no Redis.  However many polls and callbacks meet, nothing else makes
\* a task cost too much or too little.
SettledExactly ==
    \A t \in TaskIds :
        Settled(t) /\ causes[t] \cap Excuses = {} =>
            /\ paid[t] = Due(t)
            /\ kind \in {"kling", "still"} \/ work[t] = "forgotten" \/ row[t].status = Reading(t)

\* Where the deployment runs with Redis, two handlers settle the same xAI task side by
\* side only when the lock of one has run out under it.
OneSettler ==
    \A t \in TaskIds : \A g, h \in Handlers :
        g # h /\ InLock(g, t) /\ InLock(h, t) => ~redis \/ "lockLost" \in causes[t]

\* A task the provider has finished is finished here too, for good, if the server
\* has a poller for it, its channel still exists, and the tasks of deleted channels,
\* which are listed in every round, do not fill the poller's page.
FinishedIsSettled ==
    \A t \in TaskIds :
        (kind \in Polled /\ work[t] \in Ended /\ row[t].status # "none")
            ~> [](Final(row[t]) \/ t \in gone \/ Cardinality(gone) >= PageSize)
=============================================================================
