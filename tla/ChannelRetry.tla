----------------------------- MODULE ChannelRetry -----------------------------
(***************************************************************************)
(* How a call is routed: the first choice of a channel                     *)
(* (middleware/distributor.go), the retry loops of the relay handlers      *)
(* (controller/relay.go, controller/retry_policy.go) over the selection of *)
(* model/cache.go, the affinity of a conversation to a channel             *)
(* (service/channel_affinity.go) and the binding of a Responses history to *)
(* the channel and key that made it (service/responses_state.go).          *)
(*                                                                         *)
(* The channels are those that serve the group and the model of the calls. *)
(* A key stands for its fingerprint; a slot of a channel's key list whose  *)
(* key is disabled holds Off.  The lists of failed channels of the code    *)
(* are only searched, so they are sets here.  One selection asks the       *)
(* database level by level; here it is one step, which can fail as a whole. *)
(***************************************************************************)
EXTENDS Naturals, Sequences, FiniteSets

CONSTANTS
    Channels,
    Priority,   \* priority of a channel
    Keys,
    Off,        \* a disabled key
    NoKey,      \* no fingerprint, and the key of a call that needs none
    Raw,        \* channel.Key as it is stored, sent when no key is enabled
    Providers,
    Start,      \* the rows of the channels at the start
    Rows,       \* the rows an administrator can give a channel
    Ids,        \* ids and ciphertexts a Responses history can refer to
    BoundIds,   \* those that live at the upstream: responses, conversations, items
    Histories,  \* the sequences of references calls come with
    NoHome,     \* a call no resource binds; an id without a known origin
    NoEntry,    \* no entry in Redis
    Loops,      \* the handlers that are called
    Calls,
    RetryTimes,     \* config.RetryTimes
    MaxCalls, MaxEdits, MaxFaults   \* bounds: calls begun, changes of rows, failed queries

NoProvider == ""

\* A row: its status, the provider of its config and its slots of keys.
RowType == [enabled : BOOLEAN, provider : Providers \cup {NoProvider},
            keys : Seq(Keys \cup {Off}) \ {<<>>}]

ASSUME RetryAssumption ==
    /\ Channels # {} /\ Priority \in [Channels -> Nat]
    /\ Start \subseteq [Channels -> RowType] /\ Rows \subseteq RowType
    /\ NoProvider \notin Providers
    /\ BoundIds \subseteq Ids
    /\ Histories \subseteq Seq(Ids)
    /\ Off \notin Keys /\ NoKey \notin Keys /\ Raw \notin Keys
    /\ RetryTimes \in Nat /\ MaxCalls \in Nat /\ MaxEdits \in Nat /\ MaxFaults \in Nat

VARIABLES
    chan,       \* rows of channels
    origin,     \* where an id was made (responses_state:v1:...)
    affinity,   \* the affinity entry of the conversation: channel and key index
    call,       \* the request context of each call
    begun, edits, faults    \* bounded counters

vars == <<chan, origin, affinity, call, begun, edits, faults>>

-----------------------------------------------------------------------------
(* The handlers.  Their loops are copies of one another that differ in:    *)
(*   resets     the failed channels are forgotten when no other is left    *)
(*   fallsBack  with nothing to select, the last channel is tried again    *)
(*   marks      a success is marked, so that the affinity is recorded      *)
(*   skips      an affinity rule can forbid the retries                    *)
(*   stateful   history is bound, and retries stop at what was written     *)
(*   sendsLast  the answer to the last failure is got by one more request  *)
Loop(resets, fallsBack, marks, skips, stateful, sendsLast) ==
    [resets |-> resets, fallsBack |-> fallsBack, marks |-> marks,
     skips |-> skips, stateful |-> stateful, sendsLast |-> sendsLast]

ASSUME LoopAssumption ==
    Loops \subseteq [resets : BOOLEAN, fallsBack : BOOLEAN, marks : BOOLEAN, skips : BOOLEAN,
                     stateful : BOOLEAN, sendsLast : BOOLEAN]

Relay              == Loop(TRUE, TRUE, TRUE, TRUE, FALSE, FALSE)
RelayClaude        == Loop(TRUE, TRUE, TRUE, FALSE, FALSE, FALSE)
RelayGemini        == Loop(TRUE, TRUE, FALSE, FALSE, FALSE, FALSE)
RelayResponse      == Loop(TRUE, FALSE, TRUE, FALSE, TRUE, FALSE)
RelayVideoGenerate == Loop(TRUE, TRUE, FALSE, FALSE, FALSE, FALSE)
RelayRecraft       == Loop(TRUE, TRUE, FALSE, FALSE, FALSE, FALSE)
RelayImageGenerateAsync == Loop(TRUE, TRUE, FALSE, FALSE, FALSE, FALSE)
RelayRunway        == Loop(TRUE, TRUE, FALSE, FALSE, FALSE, TRUE)
RelaySoraVideo     == Loop(TRUE, TRUE, FALSE, FALSE, FALSE, TRUE)
RelaySoraCharacter == Loop(FALSE, FALSE, FALSE, FALSE, FALSE, TRUE)
relayXaiVideoWithRetry == Loop(TRUE, TRUE, FALSE, FALSE, FALSE, TRUE)

-----------------------------------------------------------------------------
(* Keys.                                                                   *)

GetKeyByIndex(row, i) == IF i \in DOMAIN row.keys THEN row.keys[i] ELSE Off

\* The keys a call can be given: the cached index when its slot has a key, else
\* any enabled slot, else the stored text.
SelectKey(row, cached) ==
    LET live == {i \in DOMAIN row.keys : row.keys[i] # Off}
    IN  IF GetKeyByIndex(row, cached) # Off
        THEN {[idx |-> cached, key |-> row.keys[cached]]}
        ELSE IF live # {} THEN {[idx |-> i, key |-> row.keys[i]] : i \in live}
        ELSE {[idx |-> 1, key |-> Raw]}

-----------------------------------------------------------------------------
(* Histories.                                                              *)

Homes == [channel : Channels, idx : Nat \ {0}, fp : Keys \cup {NoKey, Raw}]
Origins == [provider : Providers \cup {NoProvider}, home : Homes]

ASSUME HomeAssumption == NoHome \notin Homes

Known(id) == origin[id] # NoHome

\* The provider the history asks for, whatever the order of its references.
TargetProviders(refs, explicit) ==
    ({explicit} \cup {origin[refs[i]].provider : i \in {j \in DOMAIN refs : Known(refs[j])}})
        \ {NoProvider}

\* A reference to a channel that had no provider is taken into the provider the
\* others name when the channel has it by now and still has the key.
CanFill(o, target) ==
    LET row == chan[o.home.channel]
    IN  /\ o.home.fp # NoKey
        /\ row.provider = target
        /\ GetKeyByIndex(row, o.home.idx) = o.home.fp

Refused == [ok |-> FALSE, provider |-> NoProvider, have |-> FALSE, home |-> NoHome]

\* One reference with origin o, after those before it.
BindOrigin(acc, o, bound, target) ==
    LET fill == o.provider = NoProvider /\ target # NoProvider
        provider == IF fill THEN target ELSE o.provider
        binds == bound \/ o.provider = NoProvider
    IN  IF \/ fill /\ ~CanFill(o, target)
           \/ acc.have /\ acc.provider # provider
           \/ binds /\ acc.home \notin {NoHome, o.home}
        THEN Refused
        ELSE [ok |-> TRUE, provider |-> provider, have |-> TRUE,
              home |-> IF binds THEN o.home ELSE acc.home]

\* Mutant: the provider to fill in is that of the references read so far.
BindReferenceInTurn(acc, id, explicit, target) ==
    IF ~acc.ok \/ ~Known(id) THEN Refused
    ELSE BindOrigin(acc, origin[id], id \in BoundIds, acc.provider)

\* A reference without an origin is refused, unless the client names the provider
\* of something it can carry there.
BindReference(acc, id, explicit, target) ==
    IF ~acc.ok THEN acc
    ELSE IF Known(id) THEN BindOrigin(acc, origin[id], id \in BoundIds, target)
    ELSE IF explicit # NoProvider /\ id \notin BoundIds THEN acc ELSE Refused

\* bindResponsesStateWithChannelLookup.
BindHistory(refs, explicit) ==
    LET targets == TargetProviders(refs, explicit)
        target == IF targets = {} THEN NoProvider ELSE CHOOSE p \in targets : TRUE
        first == [ok |-> TRUE, provider |-> explicit, have |-> explicit # NoProvider,
                  home |-> NoHome]
        bound[n \in 0..Len(refs)] ==
            IF n = 0 THEN first ELSE BindReference(bound[n - 1], refs[n], explicit, target)
    IN  IF Cardinality(targets) > 1 THEN Refused ELSE bound[Len(refs)]

\* The key a bound call needs is in its slot (RestoreResponsesStateKey).
RestoreResponsesStateKey(home, row) ==
    LET key == GetKeyByIndex(row, home.idx)
    IN  home # NoHome => key # Off /\ home.fp \in {NoKey, key}

\* The call got it (VerifyResponsesStateKey).
VerifyResponsesStateKey(home, use) ==
    home # NoHome => use.idx = home.idx /\ home.fp \in {NoKey, use.key}

\* SETNX: an id that has an origin keeps it.
Remember(ids, o) ==
    origin' = [id \in Ids |-> IF id \in ids /\ ~Known(id) THEN o ELSE origin[id]]

-----------------------------------------------------------------------------
(* Contexts of calls.                                                      *)

Idle ==
    [pc |-> "idle", loop |-> Relay, provider |-> NoProvider, home |-> NoHome,
     forced |-> FALSE, keyed |-> FALSE, skip |-> FALSE,
     channel |-> NoEntry, idx |-> 0, key |-> NoKey,
     failed |-> {}, left |-> RetryTimes, status |-> "none", started |-> FALSE,
     sent |-> 0, round |-> {}]

CallType ==
    [pc : {"idle", "bound", "sent", "failed", "again", "waiting", "last", "ended"},
     loop : Loops \cup {Relay},
     provider : Providers \cup {NoProvider}, home : Homes \cup {NoHome},
     forced : BOOLEAN, keyed : BOOLEAN, skip : BOOLEAN,
     channel : Channels \cup {NoEntry}, idx : Nat, key : Keys \cup {NoKey, Raw},
     failed : SUBSET Channels, left : 0..RetryTimes,
     status : {"none", "retry", "limited", "refused", "unrecorded"},
     started : BOOLEAN, sent : Nat, round : SUBSET Channels]

\* Mutant: only a stored resource counts as a boundary.
HasBoundaryHome(m) == m.home # NoHome

\* Mutant: a history only fixes the provider.
AllowsProvider(m, c) == m.provider # NoProvider => chan[c].provider = m.provider

\* HasRetryBoundary and RetryProviderAllows.
HasBoundary(m) == m.provider # NoProvider \/ m.home # NoHome
Allows(m, c) ==
    /\ m.home # NoHome => c = m.home.channel
    /\ m.provider # NoProvider => chan[c].provider = m.provider

\* Mutant: the failed channels are not excluded.
SelectableAgain(m, excluded) == {c \in Channels : chan[c].enabled /\ Allows(m, c)}

\* CacheGetRandomSatisfiedChannel: the best priority that has a channel left;
\* which of its channels is left to chance and weights.
Selectable(m, excluded) == {c \in Channels \ excluded : chan[c].enabled /\ Allows(m, c)}
Best(S) == {c \in S : \A d \in S : Priority[d] <= Priority[c]}

\* SetupContextForSelectedChannel, and the request that follows.  The key and
\* its index are kept where something depends on them.  round is history: the channels tried
\* since the failed ones were last forgotten.
SendTo(m, c, use) ==
    [m EXCEPT !.pc = "sent", !.channel = c,
              !.idx = IF m.loop.stateful \/ (m.loop.marks /\ m.keyed) THEN use.idx ELSE 0,
              !.key = IF m.loop.stateful THEN use.key ELSE NoKey,
              !.sent = @ + 1, !.started = FALSE,
              !.round = @ \cup {c}]

\* What outlives the call: reports of its failed channels, still to be processed.
End(m) == [Idle EXCEPT !.pc = "ended", !.failed = m.failed]

\* The loop is over without success: writeLastFailureResponse and its copies run
\* the request once more, with the context of the last attempt.
GiveUp(m) == IF m.loop.sendsLast THEN [m EXCEPT !.pc = "last", !.sent = @ + 1] ELSE End(m)

-----------------------------------------------------------------------------
Init ==
    /\ chan \in Start
    /\ origin = [id \in Ids |-> NoHome]
    /\ affinity = NoEntry
    /\ call = [r \in Calls |-> Idle]
    /\ begun = 0 /\ edits = 0 /\ faults = 0

\* A call arrives; a Responses call is bound to its history, or refused (409).
BindResponsesState(r) ==
    /\ call[r].pc \in {"idle", "ended"} /\ begun < MaxCalls
    /\ begun' = begun + 1
    /\ \E loop \in Loops :
        \/ /\ ~loop.stateful
           /\ call' = [call EXCEPT ![r] = [Idle EXCEPT !.pc = "bound", !.loop = loop]]
        \/ /\ loop.stateful
           /\ \E refs \in Histories, explicit \in Providers \cup {NoProvider} :
                LET b == BindHistory(refs, explicit)
                IN  call' = [call EXCEPT ![r] =
                        IF b.ok THEN [Idle EXCEPT !.pc = "bound", !.loop = loop,
                                                  !.provider = b.provider, !.home = b.home]
                        ELSE End(Idle)]
    /\ UNCHANGED <<chan, origin, affinity, edits, faults>>

\* What follows the choice of a channel: the boundary, the key of the history,
\* and the provider, which stays that of this channel.
Admit(r, m, c, cached) ==
    IF ~Allows(m, c) \/ ~RestoreResponsesStateKey(m.home, chan[c])
    THEN call' = [call EXCEPT ![r] = End(m)]
    ELSE \E use \in SelectKey(chan[c], IF m.home # NoHome THEN m.home.idx ELSE cached) :
            call' = [call EXCEPT ![r] =
                IF VerifyResponsesStateKey(m.home, use)
                THEN [SendTo(m, c, use) EXCEPT !.provider = chan[c].provider] ELSE End(m)]

\* The request names its channel: an enabled one is taken.
DistributeSpecific(r) ==
    /\ call[r].pc = "bound"
    /\ \E c \in Channels :
        IF chan[c].enabled THEN Admit(r, [call[r] EXCEPT !.forced = TRUE], c, 0)
        ELSE call' = [call EXCEPT ![r] = End(call[r])]
    /\ UNCHANGED <<chan, origin, affinity, begun, edits, faults>>

\* A query of the database fails.
QueryFails == faults < MaxFaults /\ faults' = faults + 1

\* CacheGetRandomSatisfiedChannel answers with an error: no channel is left, or a
\* query has failed.
NoChannel(m, excluded) == (Selectable(m, excluded) = {} /\ UNCHANGED faults) \/ QueryFails

\* The first choice by chance, for a context m.
Distribute(r, m) ==
    \/ NoChannel(m, {}) /\ call' = [call EXCEPT ![r] = End(m)]
    \/ \E c \in Best(Selectable(m, {})) : Admit(r, m, c, 0) /\ UNCHANGED faults

\* The request has no affinity key.  Its response id can be known to Redis: that
\* only prefers a channel, and a key, among those that can be selected.
DistributeByChance(r) ==
    /\ call[r].pc = "bound"
    /\ \/ Distribute(r, call[r])
       \/ \E c \in Selectable(call[r], {}) :
            \E i \in DOMAIN chan[c].keys : Admit(r, call[r], c, i) /\ UNCHANGED faults
    /\ UNCHANGED <<chan, origin, affinity, begun, edits>>

\* An affinity rule matches the request.  Its entry is used while its channel
\* can be; else the entry is deleted and this call leaves none
\* (InvalidateChannelAffinity).  Whether the rule forbids retries matters to the
\* handlers that ask.
DistributeByAffinity(r) ==
    /\ call[r].pc = "bound"
    /\ IF affinity = NoEntry
       THEN /\ Distribute(r, [call[r] EXCEPT !.keyed = TRUE])
            /\ UNCHANGED affinity
       ELSE IF chan[affinity.channel].enabled /\ Allows(call[r], affinity.channel)
       THEN /\ \E skip \in {FALSE, call[r].loop.skips} :
                Admit(r, [call[r] EXCEPT !.keyed = TRUE, !.skip = skip], affinity.channel, affinity.idx)
            /\ UNCHANGED <<affinity, faults>>
       ELSE /\ affinity' = NoEntry
            /\ Distribute(r, call[r])
    /\ UNCHANGED <<chan, origin, begun, edits>>

-----------------------------------------------------------------------------
(* The upstream's answer.                                                  *)

Origin(m) == [provider |-> m.provider,
              home |-> [channel |-> m.channel, idx |-> m.idx, fp |-> m.key]]

\* Some of what the answer can be referred by is remembered before it is passed on.
RememberResponsesState(m) ==
    IF m.loop.stateful THEN \E ids \in SUBSET Ids : Remember(ids, Origin(m))
    ELSE UNCHANGED origin

\* Success.  After the handler, Distribute records the affinity of a marked call.
Succeed(r) ==
    LET m == call[r]
    IN  /\ m.pc = "sent"
        /\ RememberResponsesState(m)
        /\ affinity' = IF m.loop.marks /\ m.keyed
                       THEN [channel |-> m.channel, idx |-> m.idx] ELSE affinity
        /\ call' = [call EXCEPT ![r] = End(m)]
        /\ UNCHANGED <<chan, begun, edits, faults>>

\* Failure, maybe after part of the answer has been passed on: only
\* RelayResponse asks whether it was, and then the status does not matter.
Fail(r) ==
    LET m == call[r]
    IN  /\ m.pc = "sent"
        /\ \E status \in {"retry", "limited", "refused"}
                \cup (IF m.loop.stateful THEN {"unrecorded"} ELSE {}),
             started \in BOOLEAN :
            /\ started => m.loop.stateful /\ status = "retry"
            /\ IF started THEN RememberResponsesState(m) ELSE UNCHANGED origin
            /\ call' = [call EXCEPT ![r] =
                   [m EXCEPT !.pc = "failed", !.status = status, !.started = started,
                             !.failed = @ \cup {m.channel}]]
        /\ UNCHANGED <<chan, affinity, begun, edits, faults>>

-----------------------------------------------------------------------------
(* The loop.                                                               *)

\* shouldRetry, and for responses responsesRetryStopReason.
ShouldRetry(m) ==
    /\ ~m.forced /\ m.status # "refused"
    /\ m.loop.stateful => ~m.started /\ m.status # "unrecorded"

\* No further attempt.  A client that is gone ends the loop of RelayResponse.
Stop(r) ==
    LET m == call[r]
        forbidden == m.loop.skips /\ m.skip
    IN  /\ m.pc = "failed"
        /\ ~ShouldRetry(m) \/ m.left = 0 \/ forbidden \/ m.loop.stateful
        /\ call' = [call EXCEPT ![r] =
               IF forbidden THEN End(m) ELSE GiveUp(m)]
        /\ UNCHANGED <<chan, origin, affinity, begun, edits, faults>>

\* Mutant: the attempt is not counted.
AttemptUncounted(r, m, c) ==
    \E use \in SelectKey(chan[c], 0) : call' = [call EXCEPT ![r] = SendTo(m, c, use)]

\* The next attempt goes to c; a bound one needs the key of its history.
Attempt(r, m, c) ==
    IF ~RestoreResponsesStateKey(m.home, chan[c]) THEN call' = [call EXCEPT ![r] = End(m)]
    ELSE \E use \in SelectKey(chan[c], IF m.home # NoHome THEN m.home.idx ELSE 0) :
            call' = [call EXCEPT ![r] =
                IF VerifyResponsesStateKey(m.home, use)
                THEN [SendTo(m, c, use) EXCEPT !.left = @ - 1] ELSE End(m)]

MayRetry(m) ==
    /\ m.pc = "failed" /\ ShouldRetry(m) /\ m.left > 0
    /\ ~(m.loop.skips /\ m.skip)

Bound429(m) == m.loop.stateful /\ m.home # NoHome /\ m.status = "limited"

\* With no channel to select, most loops try the last one again.
NothingLeft(r, m) ==
    IF m.loop.fallsBack /\ ~HasBoundary(m) THEN Attempt(r, m, m.channel)
    ELSE call' = [call EXCEPT ![r] = GiveUp(m)]

\* selectRetryChannel: with any error the failed channels are forgotten, unless the
\* call has a boundary.
selectRetryChannel(r) ==
    LET m == call[r]
    IN  /\ MayRetry(m) /\ ~Bound429(m)
        /\ \/ \E c \in Best(Selectable(m, m.failed)) : Attempt(r, m, c) /\ UNCHANGED faults
           \/ /\ NoChannel(m, m.failed)
              /\ IF m.loop.resets /\ ~HasBoundary(m)
                 THEN call' = [call EXCEPT ![r] =
                          [m EXCEPT !.pc = "again", !.failed = {}, !.round = {}]]
                 ELSE NothingLeft(r, m)
        /\ UNCHANGED <<chan, origin, affinity, begun, edits>>

\* Its second selection, which excludes nothing.
SelectAgain(r) ==
    LET m == call[r]
    IN  /\ m.pc = "again"
        /\ \/ \E c \in Best(Selectable(m, {})) : Attempt(r, m, c) /\ UNCHANGED faults
           \/ NoChannel(m, {}) /\ NothingLeft(r, m)
        /\ UNCHANGED <<chan, origin, affinity, begun, edits>>

\* selectResponsesRetryChannel: a limited call that is bound waits as long as the
\* upstream asks, and then tries the same resource again.
WaitRetryAfter(r) ==
    /\ MayRetry(call[r]) /\ Bound429(call[r])
    /\ call' = [call EXCEPT ![r].pc = "waiting"]
    /\ UNCHANGED <<chan, origin, affinity, begun, edits, faults>>

AfterRetryAfter(r) ==
    LET m == call[r]
    IN  /\ m.pc = "waiting"
        /\ \/ \E c \in Selectable(m, {}) : Attempt(r, m, c)
           \/ call' = [call EXCEPT ![r] = End(m)]
        /\ UNCHANGED <<chan, origin, affinity, begun, edits, faults>>

\* Whatever that last request answers is passed on.
WriteLastFailureResponse(r) ==
    /\ call[r].pc = "last"
    /\ call' = [call EXCEPT ![r] = End(@)]
    /\ UNCHANGED <<chan, origin, affinity, begun, edits, faults>>

-----------------------------------------------------------------------------
(* Around the calls.                                                       *)

\* An administrator changes a row: its status, provider or keys.
EditChannel(c) ==
    /\ edits < MaxEdits
    /\ \E row \in Rows \ {chan[c]} : chan' = [chan EXCEPT ![c] = row]
    /\ edits' = edits + 1
    /\ UNCHANGED <<origin, affinity, call, begun, faults>>

\* processChannelRelayError switches a channel off that a call has tried.
DisableChannel(c) ==
    /\ chan[c].enabled /\ \E r \in Calls : c \in call[r].failed
    /\ chan' = [chan EXCEPT ![c].enabled = FALSE]
    /\ UNCHANGED <<origin, affinity, call, begun, edits, faults>>

\* An origin expires, or leaves the bounded store of one process.
ForgetOrigin(id) ==
    /\ Known(id)
    /\ origin' = [origin EXCEPT ![id] = NoHome]
    /\ UNCHANGED <<chan, affinity, call, begun, edits, faults>>

Next ==
    \/ \E r \in Calls :
        \/ BindResponsesState(r)
        \/ DistributeSpecific(r) \/ DistributeByChance(r) \/ DistributeByAffinity(r)
        \/ Succeed(r) \/ Fail(r)
        \/ Stop(r) \/ selectRetryChannel(r) \/ SelectAgain(r)
        \/ WaitRetryAfter(r) \/ AfterRetryAfter(r)
        \/ WriteLastFailureResponse(r)
    \/ \E c \in Channels : EditChannel(c) \/ DisableChannel(c)
    \/ \E id \in Ids : ForgetOrigin(id)

Spec == Init /\ [][Next]_vars

-----------------------------------------------------------------------------
(* Properties.                                                             *)

TypeOK ==
    /\ chan \in [Channels -> RowType]
    /\ origin \in [Ids -> Origins \cup {NoHome}]
    /\ affinity \in [channel : Channels, idx : Nat \ {0}] \cup {NoEntry}
    /\ call \in [Calls -> CallType]
    /\ begun \in 0..MaxCalls /\ edits \in 0..MaxEdits /\ faults \in 0..MaxFaults

\* Every attempt of a call that continues a history stored at an upstream goes
\* to the channel and with the key that made it, whatever has been renumbered,
\* removed or disabled meanwhile (RestoreResponsesStateKey: "no silent change
\* of key").
HistoryStaysHome ==
    \A r \in Calls : LET m == call[r] IN
        m.home # NoHome /\ m.pc \in {"sent", "failed", "waiting"} =>
            /\ m.channel = m.home.channel
            /\ m.idx = m.home.idx
            /\ m.home.fp \in {NoKey, m.key}

\* What a history is bound to does not depend on the order of its references
\* (bindResponsesStateWithChannelLookup collects the providers first for that).
BindIgnoresOrder ==
    \A refs \in Histories, explicit \in Providers \cup {NoProvider} :
        \A other \in Histories \ {refs} :
            (Len(other) = Len(refs) /\ {refs[i] : i \in DOMAIN refs} = {other[i] : i \in DOMAIN other})
                => BindHistory(refs, explicit) = BindHistory(other, explicit)

\* The loops send a bounded number of requests: the first and RetryTimes more,
\* and one more where the last answer is got by sending again.
AttemptsAreBounded ==
    \A r \in Calls : call[r].sent <= 1 + RetryTimes + (IF call[r].loop.sendsLast THEN 1 ELSE 0)

\* A step that sends an attempt of r.
Sends(r) == call'[r].pc = "sent" /\ call[r].pc # "sent"

\* An attempt never leaves the provider the history, or the first choice, fixed.
StaysInProvider ==
    [][\A r \in Calls : Sends(r) /\ call[r].provider # NoProvider =>
            chan[call'[r].channel].provider = call[r].provider]_vars

\* The failed channels of r are forgotten.
Forgets(r) == call'[r].pc = "again" /\ call[r].pc # "again"

\* A channel that failed is neither tried again nor forgotten while one that has not
\* been tried can be selected (selectRetryChannel), with one exception: a query
\* fails, and its error is taken for the lack of a channel.
NoEarlyRepeat ==
    [][\A r \in Calls :
        (Sends(r) /\ call'[r].channel \in call[r].round) \/ Forgets(r) =>
            Selectable(call[r], {}) \subseteq call[r].round \/ faults' # faults]_vars

\* With SwitchAffinityOnSuccess off, its default, the success of a retry on
\* another channel leaves the entry alone (common/channel_affinity_config.go).
\* It does not hold: README, section 6.
AffinityIsKept ==
    [][affinity # NoEntry /\ affinity' # NoEntry => affinity'.channel = affinity.channel]_vars

\* The last failure is written to the client, not asked for again (the comments
\* of writeLastFailureResponse and its copies).
\* It does not hold: README, section 6.
LastFailureIsWritten ==
    \A r \in Calls : call[r].sent <= 1 + RetryTimes
=============================================================================
