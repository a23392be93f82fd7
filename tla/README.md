# Formal models of the relay gateway

This directory holds TLA+ models of the gateway in `src/`: a Go server that
takes OpenAI-style requests, picks an upstream channel for each, converts and
forwards it, and charges the user. What it keeps is money and routing state,
spread over a SQL database, Redis, memory of each process, and goroutines that
outlive their request. The models are about that state.

`PROJECT.json` lists components, runs, mutants, the source lines behind every
definition, hazards, findings and theorems. Run a model with
`tlc -config X.cfg M`, a proof module with `tlapm M.tla`.

1. Inventory
2. The modules
3. Runs, bounds and what they show
4. Fairness
5. Proofs
6. Disagreements between code and comments
7. What is not modelled
8. Plan

## 1. Inventory

| Part | State | Operations | Hard behaviour | What makes it correct |
|---|---|---|---|---|
| Transactional billing: `model/relay-quota.go`, `model/audio-quota.go`, `relay/controller/systemone.go` | rows of users, tokens, channels; status of a token | reserve, settle, refund, retry; token validation; owner's edits and deletion | conditional UPDATEs against stale reads, deferred refund that may fail, settlement over three tables | no overdraft, both tables agree, each hold ends once, what tokens say was used is explained, only the owner strands or revives a token |
| Billing of the other calls: `relay/controller/text.go`, `image.go`, `audio.go`, `claude.go`, `gemini.go`, `opeai_response.go`, `helper.go`, `relay/util/billing.go`, `model/token.go`, `model/user.go`, `model/cache.go`, `model/utils.go` | the two rows, `user_quota:<id>` in Redis, `batchUpdateStores` | hold, return, settle, refresh the cached quota, batch update | two rows changed one after the other, trusted users, batch records in memory, settlement and return in goroutines | quota is conserved, a call ends with the right charge on both rows |
| Channels: `model/channel.go`, `model/ability.go`, `model/cache.go`, `monitor/`, `controller/channel.go`, `controller/channel-test.go`, `controller/channel_upstream_update.go` | row (status, models, keys, key statuses), abilities, copy cached by every process, per-process lock | failing and succeeding calls, automatic and manual disabling, tests, edits, deletion, toggles, purges, following the upstream's models, cache load | many writers of one row, copies outdated in several ways, lock held by some writers only | abilities follow row and status, errors are not lost, one alert per outage |
| Image tasks on Flux: `relay/channel/flux/`, `controller/flux.go`, `controller/flux_reconciler.go`, `model/image.go` | row of the task, in-flight set, prediction at the provider | creation, webhooks, queries, reconciliation, expiry | three sources of one result, repeated and reordered webhooks, crash between status and charge | a task ends once, is charged at most once and as recorded |
| Stream scanner: `relay/helper/stream_scanner.go` | channels, context, mutex, wait group, response | read, handle, ping, stop | five kinds of goroutines with timers that give each other up | lines in turn, one writer, prompt return |
| Channel selection and retry: `controller/relay.go`, `retry_policy.go`, `model/cache.go`, `service/channel_affinity.go`, `service/responses_state*.go`, `middleware/distributor.go` | failed channels of a call, affinity in Redis, origins of stored responses | select, retry, bind a history, record and invalidate affinity | selection from rows outdated at use; eleven loops that differ; keys renumbered under a history | attempts bounded, provider and home kept, no early repeat |
| Video and other image tasks: `relay/channel/xai`, `controller/*_video.go`, `relay/controller/directvideo*.go`, `video.go`, `image.go`, `model/video.go`, `model/image.go` | row of the task, lock in Redis, hold | creation, polls of clients and of the server, callbacks, correction, refund | each provider guards and saves in its own way, polls race and refund | a task costs its price, once, and ends |
| Top-ups, commission, levels: `model/topup*.go`, `charge_order.go`, `order.go`, `aff_commission.go`, `redemption.go`, `user_level.go` | orders, accounts, commission records | complete, expire, refund, redeem, grant, reverse | repeated and reordered webhooks, manual completion | credited once, accounts explained, nothing answered before it is handled |
| Metrics worker: `model/metrics_v2_*.go` | lease, cursors, buckets, rollups, snapshots | acquire, scan, publish, rebuild, delete logs | leases expire during work, answers of commits are lost | every log counted once, rollups and snapshots agree |
| Limits and codes: `common/rate-limit.go`, `middleware/rate-limit.go`, `common/verification.go` | windows, codes | request, register, consume | commands not atomic together | at most the limit in a window, a code used once |
| Provider adaptors, prices, accounts, logs, storage, web | little or none of their own | conversion, lookup, CRUD | – | – |

How they interact. `middleware` authenticates a token (it may write the token's
status) and picks a channel. A relay handler holds quota, calls the adaptor,
reads the answer or streams it through the scanner, and settles, often in a
goroutine of its own. A failed call is reported to the channel code, which may
switch a key or the channel off, and the loop in `controller/relay.go` retries
it elsewhere, which runs the handler, hold and all, again. Tasks leave the
request: webhooks, clients' queries and background loops finish them later.
Payments credit the rows that calls spend. Everything meets in a handful of
rows, and most readers act on what they read before.

The hazards this causes are in `PROJECT.json`, each at its line with the
properties that would catch it. Section 7 names those that no property covers,
section 8 the parts that wait for a module.

## 2. The modules

A database statement, or a transaction that reads everything again in its
conditional UPDATE, is one step. What a goroutine read before a statement, a
call to the upstream or an unlock is kept in the goroutine's state and used
later, when it may be stale. Amounts are small sets of numbers; how a tariff
arrives at one is abstracted away.

**QuotaLedger** (abstract) – one balance; a call holds, and the hold ends
once: in a charge, a release or a loss.

**RelayQuota** – billing of System One and audio calls. `userQuota`, `userUsed`,
`requestCount`, `token`, `channelUsed`, `channelLive` are columns. `pc`, `snap`,
`reserved`, `cost`, `retryable`, `attempts` belong to a call: `AuthRead`/`AuthDecide`
are the two halves of `ValidateUserToken`,
`ReserveRead`/`ReserveCommit`/`ReserveRefused` those of the reservation (the row is
read to learn whether the token is limited, then updated under conditions),
`UpstreamAnswers`/`UpstreamFails`, `Settle` (one transaction, or `SettleRollsBack`),
`Refund`, and `Retry` of the relay loop. `edit` is an owner's edit between its read
and its write (`EditRead`, `EditStatus`, `EditFields`, `SaveEdit`). The status switch
stores whatever status the request carries; the full form enables an exhausted or
expired token it fills. `OtherReturns` is `increaseTokenQuota`, by which a call of the
other billing gives quota back to a token and leaves its status. `funded`, `returned`,
`overrun`, `edited`, `manualOff` are history. It implements QuotaLedger: `balance` is
the user's quota, a call's account is read off its `pc`.

**CallQuota** – billing of all other calls. One record of a call's progress
per goroutine: `at` follows the handler (cached quota, database, trust, the four
statements of `PreConsumeTokenQuota`, the upstream), `settle` the charge of the
cost in `PostConsumeTokenQuota` with the refresh of Redis, `back` the return of
the hold. `outcome` is how the handler ends: *cut* (the request could not be
sent, or its answer has no usage), *failed*, *served*, *spoiled* (the body of a
good answer cannot be read), *misread*. Which of the two goroutines each outcome
starts differs by `kind`: chat, image, Gemini's image route, audio, audio
answered as a stream, and the native protocols, which hold nothing. `row`,
`store` and `flushing` are the three places quota can be in: the rows, the
records of the batch updater, and the map it has taken out and is writing.
`cache` and `timed` are the Redis key and whether it has a time to live, which
`DECRBY` on a missing key does not give it. A retry is another call; `AdmitUnheld`
is the check of the native protocols. `taken` and `hit` are history: what calls have
taken, and the calls that a fault, a crash or the deletion of the token has hit.

**Channel** – one channel. `row` and `abil` are tables, `cache` the copy of
each process, `loading` a periodic load between its query and its swap, `lock`
the channel's lock in each process. A job is one operation on its way:
`CallFails` to `CommitKey` is `HandleKeyError` (copy under the lock, decide,
update cache, commit), `ReadForUse`/`SaveUse` the usage accounting of a call,
`DisableReads`/`DisableCommits` `AutoDisableChannelById`,
`TestReads`/`TestPasses`/`TestFails` a channel test, `Enable` with
`ReloadReads`/`ReloadSwaps` the enabling that rebuilds the cache,
`ReadEdit`/`Write`/`Reread`/`Drop`/`Add` an edit with its rebuild of the
abilities, `ReadToggle`/`SaveToggle` and `ReadPurge` key management,
`SetBatch` a batch change, `SyncReads`/`SyncSwaps` the periodic load.
`UpstreamReads` to `UpstreamSaves` is the task that asks the upstream for its
models, `ApplyReads` the administrator who applies what it noted; both rebuild
the abilities with the status they read before they asked (`Drop`, `Add`), then
`Afterwards` switch an emptied channel off or a restored one on, and refresh the
cache under no lock. `Delete`/`DeleteAbilities`, `DeleteBatch` and
`DeleteDisabled` are the three deletions; an update of a deleted row changes
nothing (`Saved`), and a deletion forgets the mutex, whoever holds it.
`stale` and `outside` note that abilities were written from an outdated row,
or keys without the lock, where the code offers no guarantee.

**ChannelRetry** – how a call is routed. `chan` are the rows of the channels that
serve a model, `origin` where an id or a ciphertext was made, `affinity` the entry of
one conversation, `call` the request context. A loop is a record of the features in
which the eleven handlers differ (`Relay`, `RelayClaude`, `RelayGemini`,
`RelayResponse`, ...: does it bind histories, stop at the provider's boundary, use
affinity, ask once more for the last failure). The first choice (`BindHistory`,
affinity, chance), the reading of a row, the attempt and the next selection are steps
of their own, so that rows change in between. `selectRetryChannel` takes every error
of its first selection for the end of the channels, a failed query too: it forgets the
failed ones, and `SelectAgain` selects once more from the rows as they then are. Lists
of failed channels are only searched in the code and are sets here; weights become a
free choice among the channels of one priority.

**VideoTask** – video tasks, and the image tasks that are not Flux's. A
deployment runs one `kind` of provider: xai (Redis lock, row read again,
correction), runway and sora (`directvideo.go`), general, misread and metered
(`UpdateVideoTaskStatus` with an adaptor that reports errors, takes them for
failures, or corrects the price while it asks), native (Ali and Doubao),
kling (its callback charges), picture (Runway's images), wan (Ali's images,
forgotten after a day), still (images of Kling and Flux on the general route:
charged, never settled). `redis` says whether the deployment has Redis, without which
`LockFree` gives xAI's lock to everyone. `making` follows the request, `work` the
provider, `row` and `paid` are what the database holds, `call` a handler: a client's
poll, the server's poller or a callback, with the row and the answer it got.
The kinds differ in when they read, what they guard and what they save, and in what
they do when that fails: a save (`SaveFails`), a refund (`Refund`), a correction
(`Meter`) or a charge that fails is logged, and the handler goes on or ends. Kling's
success may name no video (`KlingApply`), and is then free.
`causes` is history.

**Payments** – Checkout orders, payment links, crypto orders and redemption
codes, from the provider's report to the buyer's account, the inviter's
commission and the buyer's level. `provider` and `due` are the provider's view
and the reports it will (re)deliver, `order`, `account` and `record` the tables,
`job` the handlers between two transactions. A transaction that waits for a row
another holds is one step; where the code reads without a lock and writes later,
there are two. The administrator's edit of a code (`EditReads`, `EditSaves`) writes
the whole row it read, with any status; a handler that fails (`Fail`) leaves its
report due, but for the refund whose failed UPDATE is not noticed
(`RefundSwallowed`). `real`, `credits`, `lost` and `causes` are history.

**MetricsBoard** (abstract) – what one careful worker would make of the logs:
a bucket is passed over three times and shows, at each publication, the logs
then in the table.

**MetricsLease** – the workers of all instances, the administrator's rebuild
and deletion of logs, and the lease they share. `state` is the row with owner,
generation, bucket, pass and cursor; `stage`, `bucket` and `rollup` the staged
and published sums; `snap` the snapshots with their dirty marks; `at`, `page`
and `mem` what an actor remembers. A sum is how often each log is in it, so that
*counted twice* can be said. Time is abstract: a lease or a delay may run out at
any moment. It implements MetricsBoard.

**TaskBilling** (abstract) – a task fails, succeeds for free, or falls due and
is paid in full or given up.

**FluxTask** – Flux image tasks on BFL and Replicate. `status`, `quota`,
`known` are columns, `req` and `answer` the creating request, `upstream` the
prediction. Workers are goroutines serving a webhook, a query or a
reconciliation; each read is a step (`ReadRow`, `List`, `Poll`), each
`UpdateIfNotTerminal` another, each charge another. Webhooks come in any order
and number up to the bound, including for tasks whose id is not yet stored.
Upload to the mirror is the time between a read and the statement after it.
`query`'s two reads are merged, since the later one decides; the tick of the
reconciler lists one task at a time, which allows more interleavings than the
code. A failed poll of BFL is left to expiry. It implements TaskBilling: a task
is *due* while the goroutine that won it has not charged it.

**StreamScanner** – `StreamScannerHandler`: the request with its deferred
clean-up, the scanner, one handler goroutine per line, the ping goroutine and
one writer per ping. Every `select` takes any ready branch, every timer may
fire whenever its goroutine listens to it.

`MC*` modules give model values and functions for the runs. Definitions marked
*Mutant* are changed forms of the definition after them: a plausible bug. Every
property of a passing run is violated when one of them takes its place.

## 3. Runs, bounds and what they show

| Run | Instance | Shows |
|---|---|---|
| `relay_calls` | 2 calls, 2 tokens of one user, a retry each, a top-up, one fault or crash | reservations cannot overdraw; users and tokens tables agree; every hold ends; QuotaLedger is implemented |
| `relay_edits` | 2 calls on one token, 2 edits, status switches, deletions or returns of the other billing, token may expire, channel may be deleted | limits survive stale edits; only the owner or the other billing leaves a token exhausted with quota on it, and only the owner enables one that was switched off or expired; what the token says was used is on the user's and the channel's row, or held or lost by a call |
| `channel_status` | 3 operations (outage, test, batch change, edit, upstream task, application, deletion), 2 processes, 1 key, 1 model, one fault or restart | abilities follow row and status; one alert per outage; nobody waits for ever for a lock |
| `channel_keys` | 3 operations (failing and succeeding calls, tests, toggles, purges, cache loads, deletions), 1 process, 2 keys, one fault | errors of keys handled side by side all stay on record; the last key takes the channel with it |
| `flux_tasks` | a BFL and a Replicate task, 2 workers, 2 jobs, one fault or crash | results are final, charged at most once, as recorded; known tasks end; TaskBilling is implemented |
| `stream_scanner` | 3 lines, 2 pings | lines in turn, one writer, no blocked sender, prompt return |
| `call_quota` | 2 calls, a small and a large estimate, six setups (batch updates with chat and native; Redis with chat and audio; Redis with image and native; an unlimited token with audio and image; plain with image and Gemini; plain with an audio stream and chat); deletion, one fault or crash | quota is conserved; each call that no fault, crash or deletion hits ends with a right charge on both rows, whatever hits the other; rows settle |
| `channel_retry` | 3 channels in 2 priorities, 2 keys, 2 ids, every loop in turn, 2 calls, one change of a row, one failed query | a history stays with its channel and key, whatever the order of its references; attempts are bounded, stay in the provider, and repeat no channel too early unless a query failed |
| `video_tasks` | each kind in turn, xAI with and without Redis, 2 tasks, 2 handlers, a page of one task, one death, lost lock, failed save, charge or refund, one error answer | a task costs exactly its price, and its row says how it ended, unless one of the named causes struck; with Redis xAI settles once at a time; a finished task is ended here |
| `payments` | 2 orders of every pair of kinds, 2 processes, edits of a code to any status, one failure (answered as such, or dropped in a refund), one needless copy, one spending | credited once, but for an edited code and a raced crypto report; accounts are explained by orders and records; commission follows payment; nothing is answered unhandled, but in three named ways |
| `metrics_lease` | 2 workers, an administrator, 2 buckets that make an hour, 2 logs, pages of one, one disturbance | no log counted twice, rollups and snapshots agree, every bucket is sealed, MetricsBoard is implemented |
| `audio_rollback` | one audio call that fails | the disagreement of section 6: its user ends with more than before |

Why the bounds are enough. The races in the code are between two actors over
one row (a reader that decides and a writer in between), so two calls, two
workers or three operations, each free to stop anywhere, contain them; a third
operation is needed in Channel because one of the writers works from a cache, or
a row, that a second one has to outdate. Amounts are chosen so that the first
reservation fits and the second does not, that a cost is below, at and above
its reservation, and that in `call_quota` a user is trusted with the small
estimate and holds the large one. One fault suffices for the error paths,
which no code retries. Two keys are the least with a *last key* that is not the
only one; three lines give a line before, at and after the one that fails; a
page of one task or log gives a second page. One model suffices in
`channel_status`, since the rebuild treats models alike and a list that loses
its only one is the case with consequences; the channel cache is off there
because nothing in that run reads it. `call_quota` takes its setups one at a
time: together they exceed 20 million states, and the code reads the flags in
different places. `metrics_lease` bounds errors, crashes, expired leases,
pauses, rebuilds and deletions together by one; with two it was checked once by
hand (9.5 million states), and the proofs of section 5 have no bound.

Model values are not declared symmetric, as several runs check liveness. Where
two actors are interchangeable until they begin, an action constraint has the
first begin first: `FirstJobFirst` (`channel_status`), `FirstWorkerFirst`
(`flux_tasks`, `metrics_lease`), `FirstHandlerFirst` (`video_tasks`) and
`FirstCallFirst` (`relay_edits`). Each only drops behaviours whose image under a
swap of the two is kept: a handler or worker starts and ends in the same idle state,
so the swap can be made whenever both are idle, and calls and jobs begin once. The
fairness conditions treat the two alike and survive the swap: a start that another
one preempts is no longer enabled (the lease is taken, the poller busy), and the
disturbances that could be handed from one to the other are bounded.

Three bounds cut cases of which the code makes nothing. After a call that left an
origin, `channel_retry` continues with a Responses call (`OriginsAreRead`): the
other handlers neither read origins nor write them. In `video_tasks` handlers die
and answers are lost only for the tasks in `Asked`, which have a client as well as
the poller; the other task is there to fill the page. In FluxTask a row ages
(`Age`) only while that can still lead to its expiry.

Deadlock is checked except in Channel, ChannelRetry, VideoTask and Payments,
whose operations are finite in number and simply end.

## 4. Fairness

Safety is checked without fairness. Liveness assumes only what the code's own
scheduling gives:

- RelayQuota: a call's own goroutine goes on (`CallStep`); the deferred refund
  runs. Edits, top-ups and faults may never happen. Only `relay_calls` has fairness.
- Channel: a goroutine that has or waits for a lock goes on (`LockStep`).
- FluxTask: time passes for a row (`Age`) and the reconciler expires old rows
  (`Expire`), which it does at every tick before it starts any goroutine. It
  must be switched on (`ENABLE_VIDEO_TASK_POLLER`). Webhooks may never come,
  polls may always fail.
- StreamScanner: steps of the request and the scanner, and the ping goroutine's
  reaction to the end. Neither the streaming timeout nor the five seconds of the
  join are assumed to fire, nor a handler to return.
- CallQuota: each of a call's goroutines goes on (handler, settlement, return),
  and the batch updater wakes up. The upstream may never answer.
- VideoTask: a handler that runs goes on and its lock expires; the provider ends
  its tasks; the poller asks for a task again and again while it is in its page,
  and is answered at last (strong fairness: it may be busy, or without an answer,
  in between). The pollers are started by environment flags.
- MetricsLease: steps of a cycle and of an administrator who has begun, the
  expiry of an abandoned lease, and, strongly, the scan: a worker whose cycle is
  disturbed again and again is in the end left alone, as disturbances are
  bounded.

Payments and ChannelRetry are checked without fairness: a webhook may never come.

## 5. Proofs

TLAPS proves these for all values of the constants that satisfy the module's named
assumptions (amounts are naturals, sets over which something is summed are finite,
sets that must be nonempty are, no model value is also a job); bounds on counters
stay arbitrary. ChannelRetry has two more: a loop is a record of flags
(`LoopAssumption`), and "no home" is not the home of a history (`HomeAssumption`).

Every invariant and every action property of the passing runs is proved, and every
refinement. Each proof has the same form: an inductive invariant, with a lemma per
action or per part that an action can disturb, and one temporal step at the end.

- **RelayQuotaProofs.** `TypeCorrect`. `NoOverdraftCorrect` is inductive once
  every step is known to change the user's quota by the same amount as `overrun`
  allows. `TokenNoOverdraftCorrect` needs `TokenIInv`: a reservation that read
  *unlimited* on an unedited token may skip the condition, so the row and all
  snapshots of an unedited token must be limited. `OnlyOwnerStrandsCorrect` and
  `OnlyOwnerRevivesCorrect` rest on lemmas about `Charged` and `Marked`, the two
  conditional UPDATEs: whatever a call read before, the row they leave is not stranded
  if it was not before. `UsageExplainedCorrect` follows three sums (what tokens used,
  what the user used, what calls have outstanding) through each action by
  `SumChanges`; a call that reserves takes what it will have outstanding, an edit
  keeps `used`, and a crash loses holds without changing what they took.
  `TablesAgreeCorrect`: the transactions that move quota, and a return of the other
  billing, change the user's row and one token's by the same amount, and no other step
  changes what a token used; the sum over the tokens follows by `SumChanges`.
  `LedgerImplemented`: a step of one call simulates at most one ledger
  step, a crash simulates `Lose` of all held calls.
- **CallQuotaProofs.** `TypeCorrect`, `ChargedExactlyCorrect`, `BalancedCorrect`. The
  invariant has three parts: which goroutines each way of ending leaves behind
  (`Shape`); that a call nothing has hit ended before the token was deleted (`Sound`);
  and, for every point of every goroutine of such a call, what the call has taken from
  each row, as held plus paid less returned (`HeldUser`, `HeldToken`, `Paid`, `Back`):
  the hold takes from the token first, the settlement from the user first. A step of one
  call, and a fault in it, leave the other calls' accounts alone (`OthersSame`), so that
  a hit call harms only itself. Without the account of every point the
  two orders could not be known to end in the same amount. It covers any number
  of calls of any kinds and all configurations. `Balanced` needs `FlushInv`: the
  batch updater writes one store at a time, so that what is in its hands belongs to
  the account whose turn it is; then each of its steps moves quota between row,
  record and map (`Coming`), and a call takes from a row or a record what `taken` gains.
- **Sums.** What a sum over a finite set does when one term changes (`SumChanges`),
  for the three modules with balances. The library defines the sum by a recursion over
  subsets, and the induction theorems cannot be used (they take an operator as a
  parameter). The proofs take the least subset at which two solutions of the
  recursion would differ instead, which exists because strict inclusion is well
  founded on finite sets (`WFMin`).
- **TaskProofs**, about FluxTask. `TypeCorrect`, `ChargedAsRecordedCorrect`,
  `InflightHasOneWorkerCorrect`, `ResultsAreFinalCorrect`, `BillingImplemented`.
  The invariant: the goroutine, request or worker, that has won a task and not
  yet charged it is the only one, what it will charge is what the row says, and
  nothing was charged so far.
- **TaskProofs**, about VideoTask. `VideoTypeCorrect`, `OneSettlerHolds`,
  `SettledExactlyHolds`, for all kinds of providers. The invariant (`TaskInv`) says of
  one task what its handlers, its row and what was paid know of each other: a
  handler's answer is what the provider says or Ali forgot (`Told`), an end it has seen
  still stands (`Seen`), one handler refunds (`OneRefund`), Doubao's correction comes
  once and before the success (`Metered`), who is in xAI's lock is alone with a task
  that has not ended (`UnderLock`), and what was paid is the hold, corrected or given
  back as row and handlers say (`Money`); Kling, whose callbacks charge, has an account
  of its own (`KlingMoney`). Except for the first lines all of this may fail once one
  of the named causes has struck (`Clean`). A step of one handler is first reduced to
  what it does to its task (`Leaves`, `Saves`, `SavesAndRefunds`), then each part
  of the invariant is taken through it; a step on another task changes nothing
  (`Same`). The causes are those of the code: a save over an end not seen, an error
  read as a failure, a second correction, a handler's death, a lost lock, two handlers
  without Redis, a save or refund that failed and was only logged, a charge that failed,
  a Kling success without videos. `OneSettler` is about deployments with Redis and
  follows from `LockHeld`: while the lock guards a task, who is inside holds it and is
  alone.
- **ServingProofs**, about StreamScanner. `ScannerTypeCorrect` (which includes the
  bound of the channel), `LinesInTurnCorrect`, `OneWriterCorrect` (who writes holds the
  mutex), `StopHasRoomCorrect` (each of two senders sends once and the capacity
  is three).
- **ServingProofs**, about ChannelRetry. `HistoryStaysHomeHolds`, `AttemptsHold`,
  `StaysInProviderHolds`, `NoEarlyRepeatHolds`, `ServingTypeCorrect`,
  `BindIgnoresOrderHolds`, for any channels, priorities, keys, histories, budgets and
  loops. The invariant is about one call's context: requests sent and retries left add
  up to the budget wherever the call is (`AttemptsInv`), the channels of the round are
  the failed ones and the one being tried (`RoundInv`), and a bound call stays at its
  home (`HomeInv`). Where the failed channels are forgotten, no selectable one is
  left, or the step is that of a failed query. Every action is shown to keep it and
  both action properties at once (`Good`). That the order of a history's references
  does not matter is about a recursion: `BindHistory` takes them one by one, and each
  may fill in a provider, fix a home, or refuse. `Taken` says what it makes of a set
  of references, `TakenNext` that one more reference is one more step; the least
  position at which the recursion and `Taken` would differ gives the contradiction. It
  holds of the origins that can be stored, hence of every typed state (`TInv`).
- **MetricsLeaseProofs.** `TypeCorrect`, `CountedOnceCorrect`,
  `RollupsAgreeCorrect`, `SnapshotIsCurrentCorrect`, `BoardImplemented`, for any
  workers, logs, page size, resolutions and any number of disturbances. The
  invariant is built in layers: what an actor remembers of the row is true while
  it still owns the lease (`ViewInv`), its page begins behind the cursor
  (`JobInv`), the stage holds exactly the logs up to the cursor (`StageInv`), a
  bucket being published or rolled up says what its rows say (`WorkInv`,
  `RowsInv`), and a snapshot without a dirty mark was built after the last
  change (`SinceInv`).
- **PaymentsProofs.** `CreditedOnceHolds`, `CommissionHolds`, `AnsweredHolds`,
  `BooksBalanceHolds`, for any orders of any kinds, handlers, processes and amounts.
  The status of an order says how often it was credited (`CreditsAre`), but a handler
  acts on the status later, so the invariant also says what a handler at each step
  knows of its order (`JobSays`: a refund that has read "success" still finds it, as
  only one refund can be between its read and its commit, `OneRevoker`), and that what
  the provider knows was handled or is still due, or was given up in one of the three
  ways that `AnsweredIsHandled` names (`Reported`). A code an administrator has edited
  may be credited again; `CreditedOnce` and the invariant leave it out from then on.
  `BooksBalance` speaks of states in which no crypto order is between its insertion
  and its credit; its invariant (`BInv`) keeps what an order contributes to each
  account (`LedgerOf`) and what a refund is about to take back (`TakesBack`) at every
  step, counts the orders whose money is on the account, and takes the sums of
  commissions and losses through each change by `SumChanges`.
- **ChannelProofs.** `AbilitiesAgreeHolds`, `AlertPerOutageHolds`, `ErrorsStickHolds`,
  `LastKeyTakesChannelHolds`, for any processes, operations, models and keys. While no
  mark says that abilities may be wrong (`stale`), every rebuild on its way would add
  what the row asks for, so the abilities are the row's or none at all, and a rebuild
  that finds others in its place finds its own (`Agree`). A restart clears the mark
  only when that is so. The two properties of the keys need `KInv`: the lock is held
  by the one job at a locked step (`Owned`), and, in one process while no writer passes
  the lock by, every copy at a locked step and the cache have the errors of the row on
  record, the cache one more while a handler is about to commit it (`Marks`). A commit
  then decides from the true list whether its key was the last.

Only model-checked: liveness (`ReservationsEnd`, `HandlersEnd`, `SubmittedEnds`,
`ReturnsPromptly`, `RowsSettle`, `FinishedIsSettled`, `EveryBucketCloses`), for
which the installed provers have no support, and the counterexample of
`audio_rollback`. `TypeOK` of Channel and of Payments is in no run and has no theorem
of its own: their invariants carry the types that the proofs use (`Sound`,
`MoneyTyped`).

## 6. Disagreements between code and comments

One has a run that TLC ends with a counterexample:

- `audio_rollback`: a failed audio call gives its hold back to the user twice
  (`relay/controller/audio.go:206`; `PostConsumeTokenQuota` on line 197 has done
  it). A streamed answer takes the same path although it was served, as
  `succeed` is never set.

The following are behaviours of the models that a comment denies. Where a module
states the comment as a property, its own comment says that it does not hold.

- Tokens: validation writes *expired* from the row it read over an owner's
  disable; the next edit enables the token, which `controller/token.go:313`
  excludes (`ManualDisableHolds`).
- Channels: usage accounting saves key statuses without the lock that
  `model/channel.go:1415` says serialises all writes, and revives a failed key
  (`AutoOffStays`); deleting all keys of a channel because all are disabled
  leaves them, enabled (`model/channel.go:1282`, `PurgedKeysGone`);
  `UpdateChannelStatusById` "checks that the channel exists" by a query that does
  not fail when it does not (`model/channel.go:712`).
- Flux: the reconciler ends a task as a success and does not charge it, though
  `model/image.go:49` says the winner must (`WinnerCharges`).
- Stream scanner: the clean-up does not wait for the goroutine of a line
  (`relay/helper/stream_scanner.go:71`, `QuietAfterReturn`).
- Retry: with switch-on-success off, its default, a success elsewhere still moves
  the affinity (`AffinityIsKept`); several loops ask the upstream once more where
  they say they write the last failure (`controller/relay.go:1854`,
  `LastFailureIsWritten`); skip-retry-on-failure is honoured by `Relay` only.
- Video: the lock of `xai/video_native.go:209` does not cover the answer that is
  not final (line 268); `UpdateVideoTaskStatusWithCondition`
  (`model/video.go:130`), written for this, is not used; Sora's 404 may overwrite
  a failed status (`directvideo.go:1606`); FAILED of Runway is mapped to *unknown*
  on the general route (`video.go:921`).
- Runway's images: a failed one gives back the default of 250000 units where the
  comment says $0.05 (`directvideo.go:651`), because the search for its log asks
  for a type no log of a charge has (`directvideo.go:620`).
- Payments: no negative balance (`model/aff_commission.go:237`,
  `charge_order.go:187`, `NoNegativeBalance`), levels only rise
  (`model/user_level.go:17`, `LevelsOnlyRise`); both fail when quota is spent, or
  a level recalculated, between a read and a write. The order mutex
  (`controller/topup.go:14`) excludes nobody, since its map forgets a mutex that
  others wait for.
- Metrics: a log that cannot be read, or a bucket with too many, stops that bucket
  and the later ones (`metrics_v2_worker.go:338`), where `metrics_v2_capture.go:106`
  speaks of that bucket only.

Further behaviours of the models worth knowing. *Tokens*: the owner's status switch
stores any status of the request, *exhausted* on a token with quota among them
(`controller/token.go:299`); quota that the other billing gives back, unlike a refund
of `model/relay-quota.go:58`, leaves the status of an exhausted token, which then has
quota and cannot be used (`model/token.go:232`). *Routing*: a database error in the
selection empties the list of failed channels like their exhaustion does, so that a
failed channel may be tried again before one that was not
(`controller/retry_policy.go:35`). *Channels*: a failing call turns a manual disable
into an automatic one (`model/channel.go:804`); a test, or the upstream's task,
enables a channel disabled by hand after its read (`controller/channel-test.go:517`,
`channel_upstream_update.go:420`), and the task saves the list of models over an edit
made meanwhile (line 304); a toggle announces a status it does not save
(`model/channel.go:1188`); an edit of any field writes back the status read with it
(`controller/channel.go:609`); deleting keys renumbers those a call in flight will
report (`model/channel.go:1283`); a cache load that read before a handler's commit
replaces its update (`model/cache.go:371`); deleting all disabled channels leaves
their abilities (`model/channel.go:841`), and an edit in flight gives a deleted
channel abilities again; an edit, or the upstream's task, rebuilds abilities from a
row that has changed since it was read (`model/ability.go:148`). *Calls*: a chat call
cut off before its answer keeps its hold (`text.go:117`); an image of Gemini through
the alias keeps its hold (`image.go:1332`); a trusted user is charged the estimate
when the body of a good answer cannot be read (`image.go:1423`); a retry may be
refused because the hold of the attempt before it is not yet returned; records of the
batch updater are lost in a crash (`model/utils.go:53`); a cached quota can outlive
its rows (`model/cache.go:250`). *Tasks*: Doubao's price is corrected at each
successful poll (`doubao/video_adaptor.go:154`); error answers of the Ali and xAI
adaptors, and a task Ali no longer knows, are refunded as failures; two polls on the
unguarded kinds both refund; without Redis every poll gets xAI's lock
(`common/redis.go:102`); a save of xAI's that fails is logged while the charge goes
on, and the next poll settles again (`xai/video_native.go:268`); a refund that fails
is never repeated (`xai/video_native.go:346`, `ali_video.go:393`); Kling's success
without videos is free (`kling_video.go:526`); images of Kling and Flux are never
refunded; a hold that could not be taken is logged and the row still records it; a
Flux row whose task id could not be saved stays pending (`flux/adaptor.go:415`).
*Payments*: a Checkout refund has no handler; the expiry that fails is answered as
handled; a partial refund of a payment link revokes all of it; a crypto order is
created outside the transaction that credits it (`model/order.go:54`), and one that
two processes report at once is credited twice (line 44); the edit of a code saves any
status, so a used code can be redeemed again (`controller/redemption.go:250`); a
refund reported before its payment was handled is answered and revokes nothing, and so
is one whose UPDATE fails, as the error is dropped (`charge_order.go:172`, 423).

## 7. What is not modelled

Left out of the modelled parts: tariffs and token counting, logs, mails,
notifications, statistics; insertion of channels and import of keys; the polling
counter of keys; panics; faults of Redis beyond an error that ends the call. In
RelayQuota the other calls' holds and charges are left out, except that they give
quota back, whose two statements are one step. In CallQuota the owner does not edit
the token (RelayQuota has that). In ChannelRetry weights and the selection by
capability of `count_tokens` are left out; the queries of one selection, level by
level, are one step, and the last channel, to which a loop falls back, is taken to
exist still. In VideoTask: failed saves of the request that makes a Kling
task (a failed save of the kinds other than xAI and Kling ends the handler as its
death does); Sora's free operations, Kling's synchronous requests, Gemini's own result
route. In Payments:
the limit of five open orders (not atomic), truncated amounts, exports. In
MetricsLease: capture of attempts, unreadable logs, retention after 35 days,
histograms, HTTP caches.

Hazards that no property covers: a purge that leaves a channel without keys
(`model/channel.go:1312`) and statuses saved by usage accounting (line 1409), where
the code gives no guarantee to state; the cache ahead of the database after a
failed transaction (line 1476), overdraft by two calls that check before either
takes (`model/token.go:350`), a deleted token at settlement (line 371), the
handler of a line that outlives the stream function (`stream_scanner.go:226`): the
models contain these behaviours and their properties exclude or name them.
So it is with the hazards that have a note in `PROJECT.json`: what the code lets
happen is named by the property that leaves it out, or listed in section 6.
Two goroutines write the map in `monitor/metric.go:7` without synchronisation.

Not modelled at all, with reasons, in `PROJECT.json`: the adaptors, by far the
largest part of the source, convert formats and keep no state; prices are tables;
accounts, logs, dashboards, the earlier metrics and rankings are single-row CRUD,
periodic aggregates or queries; storage and mail are I/O; the watcher of the chain
behind crypto payments is outside the repository.

## 8. Plan

Done: RelayQuota, CallQuota, Channel with deletion and the upstream's models,
ChannelRetry with affinity and Responses state, FluxTask, VideoTask with the other
image tasks, StreamScanner, Payments, MetricsLease. Left:

1. Left to prove: the types of Channel (with the number of alerts, at most one per
   operation) and of Payments as theorems of their own; what the abstract modules
   promise as invariants of theirs (a ledger neither makes nor loses quota, a closed
   bucket counts every log at most once), which the refinements carry to the code.
2. **RateLimiter** and verification codes: separate Redis commands
   (`middleware/rate-limit.go:28`), a code consumed twice
   (`common/verification.go:98`); 2 clients at the limit.
3. The earlier metrics and the rankings, whose aggregates could be compared with
   a reference definition as MetricsLease compares its sums.
