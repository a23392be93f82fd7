-------------------------- MODULE ServingProofs --------------------------
(* Theorems about the serving of a call: about ChannelRetry, for any       *)
(* channels, keys, histories and loops, and, at the end, about             *)
(* StreamScanner, for any number of lines and pings.  The two share no     *)
(* variable.                                                               *)
EXTENDS ChannelRetry, StreamScanner, FiniteSetTheorems, WellFoundedInduction, TLAPS

Fields == DOMAIN Idle

\* What a call's context says at each point of its way; the amounts of a retry are
\* what it has left.
AttemptsInv(m) ==
    /\ m.pc \in {"idle", "bound", "sent", "failed", "again", "waiting", "last", "ended"}
    /\ m.sent \in Nat /\ m.left \in Nat
    /\ m.pc \in {"idle", "ended"} => m.sent = 0
    /\ m.pc = "bound" => m.sent = 0 /\ m.left = RetryTimes
    /\ m.pc \in {"sent", "failed", "again", "waiting"} => m.sent + m.left = 1 + RetryTimes
    /\ m.pc \in {"again", "waiting"} => m.left > 0
    /\ m.pc = "last" => m.loop.sendsLast /\ m.sent <= 2 + RetryTimes

\* The channels tried in this round are the failed ones and the one being tried; a
\* call that is bound to a channel has tried no other.
RoundInv(m) ==
    /\ m.pc \in {"bound", "again"} => m.round = {} /\ m.failed = {}
    /\ m.pc = "sent" => m.round = m.failed \cup {m.channel}
    /\ m.pc \in {"failed", "waiting"} => m.round = m.failed /\ m.channel \in m.round
    /\ m.home # NoHome /\ m.pc \in {"sent", "failed", "waiting"} => m.round \subseteq {m.home.channel}

HomeInv(m) ==
    /\ m.pc = "waiting" => m.home # NoHome
    /\ m.home # NoHome => m.loop.stateful
    /\ m.home # NoHome /\ m.pc \in {"sent", "failed", "waiting"} =>
         /\ m.channel = m.home.channel /\ m.idx = m.home.idx
         /\ m.home.fp \in {NoKey, m.key}

CallInv(m) == DOMAIN m = Fields /\ AttemptsInv(m) /\ RoundInv(m) /\ HomeInv(m)

IInv == call = [r \in Calls |-> call[r]] /\ \A r \in Calls : CallInv(call[r])

-----------------------------------------------------------------------------
(* The contexts the handlers make. *)

LEMMA IdleContext ==
    /\ Idle.pc = "idle" /\ Idle.loop = Relay /\ Idle.provider = NoProvider /\ Idle.home = NoHome
    /\ Idle.failed = {} /\ Idle.left = RetryTimes /\ Idle.sent = 0 /\ Idle.round = {}
    /\ Fields = {"pc", "loop", "provider", "home", "forced", "keyed", "skip", "channel", "idx", "key",
                 "failed", "left", "status", "started", "sent", "round"}
  BY DEF Idle, Fields

\* The context of a request to channel c, with use of one of its keys, made from m.
SentContext(m, c, use, n) ==
    /\ DOMAIN n = Fields
    /\ n.pc = "sent" /\ n.channel = c /\ n.sent = m.sent + 1
    /\ n.idx = IF m.loop.stateful \/ (m.loop.marks /\ m.keyed) THEN use.idx ELSE 0
    /\ n.key = IF m.loop.stateful THEN use.key ELSE NoKey
    /\ n.round = m.round \cup {c}
    /\ n.loop = m.loop /\ n.home = m.home /\ n.failed = m.failed

LEMMA SendToContext ==
    ASSUME NEW m, DOMAIN m = Fields, NEW c, NEW use
    PROVE  SentContext(m, c, use, SendTo(m, c, use)) /\ SendTo(m, c, use).left = m.left
  BY IdleContext DEF SendTo, SentContext

LEMMA ProviderContext ==
    ASSUME NEW m, NEW c, NEW use, NEW k, SentContext(m, c, use, k), NEW p
    PROVE  /\ SentContext(m, c, use, [k EXCEPT !.provider = p])
           /\ [k EXCEPT !.provider = p].left = k.left
  BY DEF SentContext

LEMMA LeftContext ==
    ASSUME NEW m, NEW c, NEW use, NEW k, SentContext(m, c, use, k)
    PROVE  /\ SentContext(m, c, use, [k EXCEPT !.left = @ - 1])
           /\ [k EXCEPT !.left = @ - 1].left = k.left - 1
  BY IdleContext DEF SentContext

LEMMA RetryNat == RetryTimes \in Nat
  BY RetryAssumption

LEMMA EndContext ==
    ASSUME NEW m
    PROVE  CallInv(End(m)) /\ End(m).pc = "ended"
  BY IdleContext, RetryNat DEF End, CallInv, AttemptsInv, RoundInv, HomeInv, Fields

LEMMA IdleInv == CallInv(Idle)
  BY IdleContext, RetryNat DEF CallInv, AttemptsInv, RoundInv, HomeInv, Fields

LEMMA IInvInit == Init => IInv
  BY IdleInv DEF Init, IInv

\* A context that differs in what the invariant does not speak of.
Alike(m, n) ==
    /\ DOMAIN n = DOMAIN m
    /\ n.pc = m.pc /\ n.loop = m.loop /\ n.provider = m.provider /\ n.home = m.home
    /\ n.channel = m.channel /\ n.idx = m.idx /\ n.key = m.key
    /\ n.failed = m.failed /\ n.left = m.left /\ n.sent = m.sent /\ n.round = m.round

LEMMA AlikeInv == ASSUME NEW m, NEW n, Alike(m, n), CallInv(m) PROVE CallInv(n)
  BY DEF Alike, CallInv, AttemptsInv, RoundInv, HomeInv

OthersRest(r) == \A q \in Calls : q # r => call'[q] = call[q]

\* A step of one call keeps the invariant if it keeps it for that call.
LEMMA OneCall ==
    ASSUME IInv, NEW r \in Calls, NEW n, call' = [call EXCEPT ![r] = n], CallInv(n)
    PROVE  IInv' /\ OthersRest(r) /\ call'[r] = n
  BY DEF IInv, CallInv, AttemptsInv, RoundInv, HomeInv, OthersRest

-----------------------------------------------------------------------------
(* The first choice, and the attempts after it. *)

\* An attempt that is sent, by Admit or by Attempt.
LEMMA SentInv ==
    ASSUME NEW m, AttemptsInv(m), HomeInv(m), NEW c, NEW use, NEW n,
           SentContext(m, c, use, n),
           n.left \in Nat, n.sent + n.left = 1 + RetryTimes,
           VerifyResponsesStateKey(m.home, use),
           m.home # NoHome => c = m.home.channel /\ m.round \subseteq {c},
           m.round = m.failed
    PROVE  CallInv(n)
<1>1. AttemptsInv(n)
  BY DEF AttemptsInv, SentContext
<1>2. RoundInv(n)
  BY DEF RoundInv, SentContext
<1>3. HomeInv(n)
  BY DEF HomeInv, VerifyResponsesStateKey, SentContext
<1> QED  BY <1>1, <1>2, <1>3 DEF CallInv, SentContext

LEMMA AdmitKeeps ==
    ASSUME IInv, NEW r \in Calls, NEW m, CallInv(m), m.pc = "bound", NEW c, NEW cached,
           Admit(r, m, c, cached)
    PROVE  /\ IInv' /\ OthersRest(r)
           /\ call'[r].pc # "again"
           /\ call'[r].pc = "sent" => call'[r].channel = c /\ Allows(m, c)
<1>1. CASE ~Allows(m, c) \/ ~RestoreResponsesStateKey(m.home, chan[c])
  <2>1. call' = [call EXCEPT ![r] = End(m)]
    BY <1>1 DEF Admit
  <2> QED  BY <2>1, EndContext, OneCall DEF IInv
<1>2. CASE Allows(m, c) /\ RestoreResponsesStateKey(m.home, chan[c])
  <2>1. PICK use : call' = [call EXCEPT ![r] =
                      IF VerifyResponsesStateKey(m.home, use)
                      THEN [SendTo(m, c, use) EXCEPT !.provider = chan[c].provider] ELSE End(m)]
    BY <1>2 DEF Admit
  <2>2. CASE VerifyResponsesStateKey(m.home, use)
    <3>1. PICK n : /\ call' = [call EXCEPT ![r] = n]
                   /\ SentContext(m, c, use, n) /\ n.left = m.left
      <4>1. /\ SentContext(m, c, use, SendTo(m, c, use))
            /\ SendTo(m, c, use).left = m.left
        BY SendToContext DEF CallInv
      <4>2. /\ SentContext(m, c, use, [SendTo(m, c, use) EXCEPT !.provider = chan[c].provider])
            /\ [SendTo(m, c, use) EXCEPT !.provider = chan[c].provider].left = m.left
        BY <4>1, ProviderContext
      <4>3. call' = [call EXCEPT ![r] = [SendTo(m, c, use) EXCEPT !.provider = chan[c].provider]]
        BY <2>1, <2>2
      <4> QED  BY <4>2, <4>3, Zenon
    <3>2. m.round = {} /\ m.failed = {} /\ m.sent = 0 /\ m.left = RetryTimes
      BY DEF CallInv, RoundInv, AttemptsInv
    <3>3. n.left \in Nat /\ n.sent + n.left = 1 + RetryTimes /\ n.channel = c /\ n.pc = "sent"
      BY <3>1, <3>2, RetryNat DEF SentContext
    <3>4. m.home # NoHome => c = m.home.channel
      BY <1>2 DEF Allows
    <3>5. CallInv(n)
      BY <2>2, <3>1, <3>2, <3>3, <3>4, SentInv DEF CallInv
    <3> QED  BY <1>2, <3>1, <3>3, <3>5, OneCall DEF IInv
  <2>3. CASE ~VerifyResponsesStateKey(m.home, use)
    BY <2>1, <2>3, EndContext, OneCall DEF IInv
  <2> QED  BY <2>2, <2>3
<1> QED  BY <1>1, <1>2

\* An attempt after a failure, to a channel the call's boundary allows.
LEMMA AttemptKeeps ==
    ASSUME IInv, NEW r \in Calls, NEW m, DOMAIN m = Fields, AttemptsInv(m), HomeInv(m),
           m.pc \in {"failed", "again", "waiting"}, m.left > 0, NEW c, Attempt(r, m, c),
           m.home # NoHome => c = m.home.channel /\ m.round \subseteq {c},
           m.round = m.failed
    PROVE  /\ IInv' /\ OthersRest(r)
           /\ call'[r].pc # "again"
           /\ call'[r].pc = "sent" => call'[r].channel = c
<1>1. CASE ~RestoreResponsesStateKey(m.home, chan[c])
  <2>1. call' = [call EXCEPT ![r] = End(m)]
    BY <1>1 DEF Attempt
  <2> QED  BY <2>1, EndContext, OneCall DEF IInv
<1>2. CASE RestoreResponsesStateKey(m.home, chan[c])
  <2>1. PICK use : call' = [call EXCEPT ![r] =
                      IF VerifyResponsesStateKey(m.home, use)
                      THEN [SendTo(m, c, use) EXCEPT !.left = @ - 1] ELSE End(m)]
    BY <1>2 DEF Attempt
  <2>2. CASE VerifyResponsesStateKey(m.home, use)
    <3>1. PICK n : /\ call' = [call EXCEPT ![r] = n]
                   /\ SentContext(m, c, use, n) /\ n.left = m.left - 1
      <4>1. /\ SentContext(m, c, use, SendTo(m, c, use))
            /\ SendTo(m, c, use).left = m.left
        BY SendToContext
      <4>2. /\ SentContext(m, c, use, [SendTo(m, c, use) EXCEPT !.left = @ - 1])
            /\ [SendTo(m, c, use) EXCEPT !.left = @ - 1].left = m.left - 1
        BY <4>1, LeftContext
      <4>3. call' = [call EXCEPT ![r] = [SendTo(m, c, use) EXCEPT !.left = @ - 1]]
        BY <2>1, <2>2
      <4> QED  BY <4>2, <4>3, Zenon
    <3>2. n.left \in Nat /\ n.sent + n.left = 1 + RetryTimes /\ n.channel = c /\ n.pc = "sent"
      <4>1. n.left = m.left - 1 /\ n.sent = m.sent + 1 /\ n.channel = c /\ n.pc = "sent"
        BY <3>1 DEF SentContext
      <4>2. m.left \in Nat /\ m.left > 0 /\ m.sent \in Nat /\ m.sent + m.left = 1 + RetryTimes
        BY DEF AttemptsInv
      <4> QED  BY <4>1, <4>2, RetryNat
    <3>3. CallInv(n)
      BY <2>2, <3>1, <3>2, SentInv
    <3> QED  BY <3>1, <3>2, <3>3, OneCall DEF IInv
  <2>3. CASE ~VerifyResponsesStateKey(m.home, use)
    BY <2>1, <2>3, EndContext, OneCall DEF IInv
  <2> QED  BY <2>2, <2>3
<1> QED  BY <1>1, <1>2

-----------------------------------------------------------------------------
(* The steps. *)

ProviderStep(r) ==
    Sends(r) /\ call[r].provider # NoProvider =>
        chan[call'[r].channel].provider = call[r].provider

RepeatStep(r) ==
    (Sends(r) /\ call'[r].channel \in call[r].round) \/ Forgets(r) =>
        Selectable(call[r], {}) \subseteq call[r].round \/ faults' # faults

Good == IInv' /\ \A r \in Calls : ProviderStep(r) /\ RepeatStep(r)

LEMMA OneSends ==
    ASSUME NEW r \in Calls, IInv', OthersRest(r), ProviderStep(r), RepeatStep(r)
    PROVE  Good
  BY DEF OthersRest, ProviderStep, RepeatStep, Sends, Forgets, Good

LEMMA NoneSends ==
    ASSUME NEW r \in Calls, IInv', OthersRest(r), call'[r].pc \notin {"sent", "again"}
    PROVE  Good
  BY OneSends DEF ProviderStep, RepeatStep, Sends, Forgets

\* The first choice: a context like the call's own, for a channel it allows.
LEMMA FirstChoice ==
    ASSUME IInv, NEW r \in Calls, call[r].pc = "bound", NEW m, Alike(call[r], m),
           NEW c, NEW cached, Admit(r, m, c, cached)
    PROVE  Good
<1>1. CallInv(call[r]) /\ CallInv(m) /\ m.pc = "bound" /\ m.provider = call[r].provider
  BY AlikeInv DEF IInv, Alike
<1>2. /\ IInv' /\ OthersRest(r) /\ call'[r].pc # "again"
      /\ call'[r].pc = "sent" => call'[r].channel = c /\ Allows(m, c)
  BY <1>1, AdmitKeeps
<1>3. ProviderStep(r)
  BY <1>1, <1>2 DEF ProviderStep, Sends, Allows
<1>4. RepeatStep(r)
  BY <1>1, <1>2 DEF RepeatStep, Forgets, CallInv, RoundInv
<1> QED  BY <1>2, <1>3, <1>4, OneSends

LEMMA FlagContexts ==
    ASSUME NEW m, DOMAIN m = Fields, NEW b
    PROVE  /\ Alike(m, [m EXCEPT !.forced = TRUE])
           /\ Alike(m, [m EXCEPT !.keyed = TRUE])
           /\ Alike(m, [m EXCEPT !.keyed = TRUE, !.skip = b])
           /\ Alike(m, m)
  BY DEF Alike

LEMMA DistributeGood ==
    ASSUME IInv, NEW r \in Calls, call[r].pc = "bound", NEW m, Alike(call[r], m), Distribute(r, m)
    PROVE  Good
<1>1. CASE call' = [call EXCEPT ![r] = End(m)]
  BY <1>1, EndContext, OneCall, NoneSends DEF IInv
<1>2. CASE \E c \in Best(Selectable(m, {})) : Admit(r, m, c, 0)
  BY <1>2, FirstChoice
<1> QED  BY <1>1, <1>2 DEF Distribute, NoChannel

LEMMA BindGood ==
    ASSUME IInv, NEW r \in Calls, BindResponsesState(r)
    PROVE  Good
<1>1. PICK loop \in Loops :
        \/ call' = [call EXCEPT ![r] = [Idle EXCEPT !.pc = "bound", !.loop = loop]]
        \/ /\ loop.stateful
           /\ \E provider, home : call' = [call EXCEPT ![r] =
                 [Idle EXCEPT !.pc = "bound", !.loop = loop, !.provider = provider, !.home = home]]
        \/ call' = [call EXCEPT ![r] = End(Idle)]
  <2>1. PICK loop \in Loops :
           \/ call' = [call EXCEPT ![r] = [Idle EXCEPT !.pc = "bound", !.loop = loop]]
           \/ /\ loop.stateful
              /\ \E refs \in Histories, explicit \in Providers \cup {NoProvider} :
                    LET b == BindHistory(refs, explicit)
                    IN  call' = [call EXCEPT ![r] =
                            IF b.ok THEN [Idle EXCEPT !.pc = "bound", !.loop = loop,
                                                      !.provider = b.provider, !.home = b.home]
                            ELSE End(Idle)]
    BY DEF BindResponsesState
  <2>2. ASSUME NEW b, loop.stateful,
               call' = [call EXCEPT ![r] =
                            IF b.ok THEN [Idle EXCEPT !.pc = "bound", !.loop = loop,
                                                      !.provider = b.provider, !.home = b.home]
                            ELSE End(Idle)]
        PROVE  \/ /\ loop.stateful
                  /\ \E provider, home : call' = [call EXCEPT ![r] =
                        [Idle EXCEPT !.pc = "bound", !.loop = loop, !.provider = provider,
                                     !.home = home]]
               \/ call' = [call EXCEPT ![r] = End(Idle)]
    <3>1. CASE b.ok
      BY <2>2, <3>1, Zenon
    <3>2. CASE ~b.ok
      BY <2>2, <3>2, Zenon
    <3> QED  BY <3>1, <3>2
  <2>3. CASE call' = [call EXCEPT ![r] = [Idle EXCEPT !.pc = "bound", !.loop = loop]]
    BY <2>3, Zenon
  <2> QED  BY <2>1, <2>2, <2>3, Zenon
<1>2. CASE call' = [call EXCEPT ![r] = [Idle EXCEPT !.pc = "bound", !.loop = loop]]
  <2> DEFINE n == [Idle EXCEPT !.pc = "bound", !.loop = loop]
  <2>1. CallInv(n) /\ n.pc = "bound"
    <3>1. /\ DOMAIN n = Fields /\ n.pc = "bound" /\ n.loop = loop /\ n.home = Idle.home
          /\ n.sent = Idle.sent /\ n.left = Idle.left /\ n.round = Idle.round
          /\ n.failed = Idle.failed
      BY IdleContext DEF Fields
    <3> HIDE DEF n
    <3> QED  BY <3>1, IdleContext, RetryNat DEF CallInv, AttemptsInv, RoundInv, HomeInv
  <2> HIDE DEF n
  <2> QED  BY <1>2, <2>1, OneCall, NoneSends DEF n
<1>3. ASSUME NEW provider, NEW home, loop.stateful,
             call' = [call EXCEPT ![r] =
               [Idle EXCEPT !.pc = "bound", !.loop = loop, !.provider = provider, !.home = home]]
      PROVE  Good
  <2> DEFINE n == [Idle EXCEPT !.pc = "bound", !.loop = loop, !.provider = provider, !.home = home]
  <2>1. CallInv(n) /\ n.pc = "bound"
    <3>1. /\ DOMAIN n = Fields /\ n.pc = "bound" /\ n.loop = loop
          /\ n.sent = Idle.sent /\ n.left = Idle.left /\ n.round = Idle.round
          /\ n.failed = Idle.failed
      BY IdleContext DEF Fields
    <3> HIDE DEF n
    <3> QED  BY <1>3, <3>1, IdleContext, RetryNat
             DEF CallInv, AttemptsInv, RoundInv, HomeInv
  <2> HIDE DEF n
  <2> QED  BY <1>3, <2>1, OneCall, NoneSends DEF n
<1>4. CASE call' = [call EXCEPT ![r] = End(Idle)]
  BY <1>4, EndContext, OneCall, NoneSends
<1> QED  BY <1>1, <1>2, <1>3, <1>4

LEMMA ChoiceGood ==
    ASSUME IInv, NEW r \in Calls,
           DistributeSpecific(r) \/ DistributeByChance(r) \/ DistributeByAffinity(r)
    PROVE  Good
<1>1. call[r].pc = "bound" /\ DOMAIN call[r] = Fields
  BY DEF DistributeSpecific, DistributeByChance, DistributeByAffinity, IInv, CallInv
<1>2. /\ Alike(call[r], call[r]) /\ Alike(call[r], [call[r] EXCEPT !.forced = TRUE])
      /\ Alike(call[r], [call[r] EXCEPT !.keyed = TRUE])
      /\ \A b : Alike(call[r], [call[r] EXCEPT !.keyed = TRUE, !.skip = b])
  BY <1>1, FlagContexts
<1>3. CASE DistributeSpecific(r)
  <2>1. CASE call' = [call EXCEPT ![r] = End(call[r])]
    BY <2>1, EndContext, OneCall, NoneSends
  <2>2. CASE \E c \in Channels : Admit(r, [call[r] EXCEPT !.forced = TRUE], c, 0)
    BY <1>1, <1>2, <2>2, FirstChoice
  <2> QED  BY <1>3, <2>1, <2>2 DEF DistributeSpecific
<1>4. CASE DistributeByChance(r)
  <2>1. CASE Distribute(r, call[r])
    BY <1>1, <1>2, <2>1, DistributeGood
  <2>2. CASE \E c \in Selectable(call[r], {}) : \E i \in DOMAIN chan[c].keys :
                Admit(r, call[r], c, i)
    BY <1>1, <1>2, <2>2, FirstChoice
  <2> QED  BY <1>4, <2>1, <2>2 DEF DistributeByChance
<1>5. CASE DistributeByAffinity(r)
  <2>1. CASE Distribute(r, [call[r] EXCEPT !.keyed = TRUE]) \/ Distribute(r, call[r])
    BY <1>1, <1>2, <2>1, DistributeGood
  <2>2. CASE \E skip \in {FALSE, call[r].loop.skips} :
                Admit(r, [call[r] EXCEPT !.keyed = TRUE, !.skip = skip], affinity.channel, affinity.idx)
    BY <1>1, <1>2, <2>2, FirstChoice
  <2> QED  BY <1>5, <2>1, <2>2 DEF DistributeByAffinity
<1> QED  BY <1>3, <1>4, <1>5

\* The upstream answers.
LEMMA SucceedGood ==
    ASSUME IInv, NEW r \in Calls, Succeed(r)
    PROVE  Good
  BY EndContext, OneCall, NoneSends DEF Succeed

LEMMA FailedContext ==
    ASSUME NEW m, CallInv(m), m.pc = "sent", NEW st, NEW b
    PROVE  LET n == [m EXCEPT !.pc = "failed", !.status = st, !.started = b,
                              !.failed = @ \cup {m.channel}]
           IN  CallInv(n) /\ n.pc = "failed"
<1> DEFINE n == [m EXCEPT !.pc = "failed", !.status = st, !.started = b,
                          !.failed = @ \cup {m.channel}]
<1>1. /\ DOMAIN n = Fields /\ n.pc = "failed" /\ n.loop = m.loop /\ n.home = m.home
      /\ n.channel = m.channel /\ n.idx = m.idx /\ n.key = m.key
      /\ n.failed = m.failed \cup {m.channel} /\ n.left = m.left /\ n.sent = m.sent
      /\ n.round = m.round
  BY IdleContext DEF CallInv
<1> HIDE DEF n
<1>2. AttemptsInv(n)
  BY <1>1 DEF CallInv, AttemptsInv
<1>3. RoundInv(n)
  BY <1>1 DEF CallInv, RoundInv
<1>4. HomeInv(n)
  BY <1>1 DEF CallInv, HomeInv
<1> QED  BY <1>1, <1>2, <1>3, <1>4 DEF CallInv, n

LEMMA FailGood ==
    ASSUME IInv, NEW r \in Calls, Fail(r)
    PROVE  Good
<1>1. CallInv(call[r]) /\ call[r].pc = "sent"
  BY DEF IInv, Fail
<1>2. PICK st, b : call' = [call EXCEPT ![r] =
         [call[r] EXCEPT !.pc = "failed", !.status = st, !.started = b,
                         !.failed = @ \cup {call[r].channel}]]
  <2>1. PICK st \in {"retry", "limited", "refused"}
                  \cup (IF call[r].loop.stateful THEN {"unrecorded"} ELSE {}), b \in BOOLEAN :
           /\ b => call[r].loop.stateful /\ st = "retry"
           /\ IF b THEN RememberResponsesState(call[r]) ELSE UNCHANGED origin
           /\ call' = [call EXCEPT ![r] =
                 [call[r] EXCEPT !.pc = "failed", !.status = st, !.started = b,
                                 !.failed = @ \cup {call[r].channel}]]
    BY ONLY Fail(r), ZenonT(60) DEF Fail
  <2> QED  BY ONLY <2>1, Zenon
<1> DEFINE n == [call[r] EXCEPT !.pc = "failed", !.status = st, !.started = b,
                                !.failed = @ \cup {call[r].channel}]
<1>3. CallInv(n) /\ n.pc = "failed" /\ call' = [call EXCEPT ![r] = n]
  BY <1>1, <1>2, FailedContext
<1> HIDE DEF n
<1> QED  BY <1>3, OneCall, NoneSends

\* The loop ends, or goes on.
LEMMA GiveUpContext ==
    ASSUME NEW m, CallInv(m), m.pc \in {"failed", "again"}
    PROVE  CallInv(GiveUp(m)) /\ GiveUp(m).pc \notin {"sent", "again"}
<1>1. CASE m.loop.sendsLast
  <2> DEFINE n == [m EXCEPT !.pc = "last", !.sent = @ + 1]
  <2>1. /\ DOMAIN n = Fields /\ n.pc = "last" /\ n.loop = m.loop /\ n.home = m.home
        /\ n.left = m.left /\ n.sent = m.sent + 1
    BY IdleContext DEF CallInv
  <2>2. GiveUp(m) = n
    BY <1>1 DEF GiveUp
  <2> HIDE DEF n
  <2> QED  BY <1>1, <2>1, <2>2, RetryNat DEF CallInv, AttemptsInv, RoundInv, HomeInv
<1>2. CASE ~m.loop.sendsLast
  BY <1>2, EndContext DEF GiveUp
<1> QED  BY <1>1, <1>2

LEMMA StopGood ==
    ASSUME IInv, NEW r \in Calls, Stop(r)
    PROVE  Good
<1>1. CallInv(call[r]) /\ call[r].pc = "failed"
  BY DEF IInv, Stop
<1>2. call' = [call EXCEPT ![r] = End(call[r])] \/ call' = [call EXCEPT ![r] = GiveUp(call[r])]
  BY DEF Stop
<1> QED  BY <1>1, <1>2, EndContext, GiveUpContext, OneCall, NoneSends

\* Another attempt, to a channel the boundary allows, that has either not been tried in
\* this round or is taken when every channel there is has been, or a query has failed.
LEMMA AnotherAttempt ==
    ASSUME IInv, NEW r \in Calls, call[r].pc \in {"failed", "again", "waiting"}, call[r].left > 0,
           NEW c, Attempt(r, call[r], c), Allows(call[r], c),
           c \in call[r].round =>
                Selectable(call[r], {}) \subseteq call[r].round \/ faults' # faults
    PROVE  Good
<1>1. CallInv(call[r])
  BY DEF IInv
<1>2. AttemptsInv(call[r]) /\ HomeInv(call[r]) /\ DOMAIN call[r] = Fields
  BY <1>1 DEF CallInv
<1>3. call[r].home # NoHome => c = call[r].home.channel /\ call[r].round \subseteq {c}
  BY <1>1 DEF CallInv, RoundInv, Allows
<1>4. call[r].round = call[r].failed
  BY <1>1 DEF CallInv, RoundInv
<1>5. /\ IInv' /\ OthersRest(r) /\ call'[r].pc # "again"
      /\ call'[r].pc = "sent" => call'[r].channel = c
  BY <1>2, <1>3, <1>4, AttemptKeeps
<1>6. ProviderStep(r)
  BY <1>5 DEF ProviderStep, Sends, Allows
<1>7. RepeatStep(r)
  BY <1>5 DEF RepeatStep, Sends, Forgets
<1> QED  BY <1>5, <1>6, <1>7, OneSends

\* The last channel again, or the end.
LEMMA NothingLeftGood ==
    ASSUME IInv, NEW r \in Calls, call[r].pc \in {"failed", "again"}, call[r].left > 0,
           NothingLeft(r, call[r]),
           Selectable(call[r], {}) \subseteq call[r].round \/ faults' # faults \/ call[r].round = {}
    PROVE  Good
<1>1. CASE call' = [call EXCEPT ![r] = GiveUp(call[r])]
  <2>1. CallInv(GiveUp(call[r])) /\ GiveUp(call[r]).pc \notin {"sent", "again"}
    BY GiveUpContext DEF IInv
  <2>2. IInv' /\ OthersRest(r) /\ call'[r] = GiveUp(call[r])
    BY <1>1, <2>1, OneCall
  <2> QED  BY <2>1, <2>2, NoneSends
<1>2. CASE ~HasBoundary(call[r]) /\ Attempt(r, call[r], call[r].channel)
  <2>1. Allows(call[r], call[r].channel)
    BY <1>2 DEF Allows, HasBoundary
  <2> QED  BY <1>2, <2>1, AnotherAttempt
<1> QED  BY <1>1, <1>2 DEF NothingLeft

\* The failed channels are forgotten.
LEMMA ForgetGood ==
    ASSUME IInv, NEW r \in Calls, call[r].pc = "failed", call[r].left > 0,
           call' = [call EXCEPT ![r] = [call[r] EXCEPT !.pc = "again", !.failed = {}, !.round = {}]],
           Selectable(call[r], {}) \subseteq call[r].round \/ faults' # faults
    PROVE  Good
<1> DEFINE m == call[r]
           n == [m EXCEPT !.pc = "again", !.failed = {}, !.round = {}]
<1>1. CallInv(m)
  BY DEF IInv
<1>2. /\ DOMAIN n = Fields /\ n.pc = "again" /\ n.loop = m.loop /\ n.home = m.home
      /\ n.failed = {} /\ n.round = {} /\ n.left = m.left /\ n.sent = m.sent
  BY <1>1, IdleContext DEF CallInv
<1>3. call' = [call EXCEPT ![r] = n]
  OBVIOUS
<1> HIDE DEF n
<1>4. CallInv(n)
  BY <1>1, <1>2 DEF CallInv, AttemptsInv, RoundInv, HomeInv
<1>5. IInv' /\ OthersRest(r) /\ call'[r] = n
  BY <1>3, <1>4, OneCall
<1>6. ProviderStep(r) /\ RepeatStep(r)
  BY <1>2, <1>5 DEF ProviderStep, RepeatStep, Sends
<1> QED  BY <1>5, <1>6, OneSends

\* A selection that fails has nothing to choose from, or a query has failed.
LEMMA NoChannelStep ==
    ASSUME NEW m, NEW S, faults \in Nat, NoChannel(m, S)
    PROVE  Selectable(m, {}) \subseteq S \/ faults' # faults
<1>1. CASE Selectable(m, S) = {}
  BY <1>1 DEF Selectable
<1>2. CASE QueryFails
  BY <1>2 DEF QueryFails
<1> QED  BY <1>1, <1>2 DEF NoChannel

LEMMA RetryGood ==
    ASSUME IInv, faults \in Nat, NEW r \in Calls, selectRetryChannel(r)
    PROVE  Good
<1> DEFINE m == call[r]
<1>1. CallInv(m) /\ m.pc = "failed" /\ m.left > 0 /\ m.round = m.failed
  BY DEF IInv, CallInv, RoundInv, selectRetryChannel, MayRetry
<1>2. CASE \E c \in Best(Selectable(m, m.failed)) : Attempt(r, m, c)
  <2>1. PICK c \in Selectable(m, m.failed) : Attempt(r, m, c)
    BY <1>2 DEF Best
  <2>2. c \notin m.round /\ Allows(m, c)
    BY <1>1, <2>1 DEF Selectable
  <2> QED  BY <1>1, <2>1, <2>2, AnotherAttempt
<1>3. ASSUME NoChannel(m, m.failed)
      PROVE  Selectable(m, {}) \subseteq m.round \/ faults' # faults
  BY <1>1, <1>3, NoChannelStep
<1>4. CASE NoChannel(m, m.failed) /\ NothingLeft(r, m)
  BY <1>1, <1>3, <1>4, NothingLeftGood
<1>5. CASE /\ NoChannel(m, m.failed)
           /\ call' = [call EXCEPT ![r] = [m EXCEPT !.pc = "again", !.failed = {}, !.round = {}]]
  BY <1>1, <1>3, <1>5, ForgetGood
<1> QED  BY <1>2, <1>4, <1>5 DEF selectRetryChannel

LEMMA AgainGood ==
    ASSUME IInv, NEW r \in Calls, SelectAgain(r)
    PROVE  Good
<1> DEFINE m == call[r]
<1>1. CallInv(m) /\ m.pc = "again" /\ m.left > 0 /\ m.round = {}
  BY DEF IInv, CallInv, AttemptsInv, RoundInv, SelectAgain
<1>2. CASE \E c \in Best(Selectable(m, {})) : Attempt(r, m, c)
  <2>1. PICK c \in Selectable(m, {}) : Attempt(r, m, c)
    BY <1>2 DEF Best
  <2>2. c \notin m.round /\ Allows(m, c)
    BY <1>1, <2>1 DEF Selectable
  <2> QED  BY <1>1, <2>1, <2>2, AnotherAttempt
<1>3. CASE NothingLeft(r, m)
  BY <1>1, <1>3, NothingLeftGood
<1> QED  BY <1>2, <1>3 DEF SelectAgain

LEMMA WaitGood ==
    ASSUME IInv, NEW r \in Calls, WaitRetryAfter(r)
    PROVE  Good
<1> DEFINE m == call[r]
           n == [m EXCEPT !.pc = "waiting"]
<1>1. /\ CallInv(m) /\ m.pc = "failed" /\ m.left > 0 /\ m.home # NoHome
      /\ call' = [call EXCEPT ![r] = n]
  BY DEF IInv, WaitRetryAfter, MayRetry, Bound429
<1>2. /\ DOMAIN n = Fields /\ n.pc = "waiting" /\ n.loop = m.loop /\ n.home = m.home
      /\ n.channel = m.channel /\ n.idx = m.idx /\ n.key = m.key
      /\ n.failed = m.failed /\ n.left = m.left /\ n.sent = m.sent /\ n.round = m.round
  BY <1>1, IdleContext DEF CallInv
<1> HIDE DEF n
<1>3. AttemptsInv(n)
  BY <1>1, <1>2 DEF CallInv, AttemptsInv
<1>4. RoundInv(n)
  BY <1>1, <1>2 DEF CallInv, RoundInv
<1>5. HomeInv(n)
  BY <1>1, <1>2 DEF CallInv, HomeInv
<1> QED  BY <1>1, <1>2, <1>3, <1>4, <1>5, OneCall, NoneSends DEF CallInv

LEMMA AfterGood ==
    ASSUME IInv, NEW r \in Calls, AfterRetryAfter(r)
    PROVE  Good
<1> DEFINE m == call[r]
<1>1. /\ CallInv(m) /\ DOMAIN m = Fields /\ m.pc = "waiting" /\ m.left > 0 /\ m.home # NoHome
      /\ m.round = m.failed /\ m.channel \in m.round /\ m.round \subseteq {m.home.channel}
  BY DEF IInv, CallInv, AttemptsInv, RoundInv, HomeInv, AfterRetryAfter
<1>2. ASSUME NEW c \in Selectable(m, {}), Attempt(r, m, c) PROVE Good
  <2>1. Allows(m, c) /\ c = m.home.channel
    BY <1>1, <1>2 DEF Selectable, Allows
  <2>2. Selectable(m, {}) \subseteq m.round /\ m.failed \subseteq {c} /\ c \in m.round
    BY <1>1, <2>1 DEF Selectable, Allows
  <2> QED  BY <1>1, <1>2, <2>1, <2>2, AnotherAttempt
<1>3. CASE call' = [call EXCEPT ![r] = End(m)]
  BY <1>3, EndContext, OneCall, NoneSends
<1> QED  BY <1>2, <1>3 DEF AfterRetryAfter

LEMMA LastGood ==
    ASSUME IInv, NEW r \in Calls, WriteLastFailureResponse(r)
    PROVE  Good
  BY EndContext, OneCall, NoneSends DEF WriteLastFailureResponse, IInv

\* Failed queries are counted.
LEMMA FaultsFrame ==
    ASSUME [Next]_vars PROVE faults' = faults \/ QueryFails
<1>1. ASSUME NEW r \in Calls, NEW m, Distribute(r, m) PROVE faults' = faults \/ QueryFails
  BY <1>1 DEF Distribute, NoChannel
<1>2. ASSUME NEW r \in Calls,
             DistributeSpecific(r) \/ DistributeByChance(r) \/ DistributeByAffinity(r)
      PROVE  faults' = faults \/ QueryFails
  BY <1>1, <1>2 DEF DistributeSpecific, DistributeByChance, DistributeByAffinity
<1>3. ASSUME NEW r \in Calls, selectRetryChannel(r) \/ SelectAgain(r)
      PROVE  faults' = faults \/ QueryFails
  BY <1>3 DEF selectRetryChannel, SelectAgain, NoChannel
<1>4. ASSUME NEW r \in Calls,
             \/ BindResponsesState(r) \/ Succeed(r) \/ Fail(r) \/ Stop(r)
             \/ WaitRetryAfter(r) \/ AfterRetryAfter(r) \/ WriteLastFailureResponse(r)
      PROVE  faults' = faults
  BY <1>4 DEF BindResponsesState, Succeed, Fail, Stop, WaitRetryAfter, AfterRetryAfter,
              WriteLastFailureResponse
<1>5. ASSUME NEW c \in Channels, EditChannel(c) \/ DisableChannel(c) PROVE faults' = faults
  BY <1>5 DEF EditChannel, DisableChannel
<1>6. ASSUME NEW id \in Ids, ForgetOrigin(id) PROVE faults' = faults
  BY <1>6 DEF ForgetOrigin
<1>7. CASE UNCHANGED vars
  BY <1>7 DEF vars
<1> QED  BY <1>2, <1>3, <1>4, <1>5, <1>6, <1>7 DEF Next

LEMMA FaultsHold == Spec => [](faults \in 0..MaxFaults)
<1>1. Init => faults \in 0..MaxFaults
  BY RetryAssumption DEF Init
<1>2. faults \in 0..MaxFaults /\ [Next]_vars => (faults \in 0..MaxFaults)'
  BY FaultsFrame, RetryAssumption DEF QueryFails
<1> QED  BY <1>1, <1>2, PTL DEF Spec

LEMMA NextGood == faults \in 0..MaxFaults /\ IInv /\ [Next]_vars => Good
<1> SUFFICES ASSUME faults \in 0..MaxFaults, IInv, [Next]_vars PROVE Good
  OBVIOUS
<1>1. ASSUME NEW r \in Calls,
             \/ BindResponsesState(r)
             \/ DistributeSpecific(r) \/ DistributeByChance(r) \/ DistributeByAffinity(r)
             \/ Succeed(r) \/ Fail(r)
             \/ Stop(r) \/ selectRetryChannel(r) \/ SelectAgain(r)
             \/ WaitRetryAfter(r) \/ AfterRetryAfter(r)
             \/ WriteLastFailureResponse(r)
      PROVE  Good
  <2>1. faults \in Nat
    BY RetryAssumption
  <2> QED  BY <1>1, <2>1, BindGood, ChoiceGood, SucceedGood, FailGood, StopGood, RetryGood,
              AgainGood, WaitGood, AfterGood, LastGood
<1>2. CASE UNCHANGED call
  BY <1>2 DEF IInv, CallInv, AttemptsInv, RoundInv, HomeInv, Good, ProviderStep, RepeatStep, Sends,
              Forgets
<1>3. ASSUME NEW c \in Channels, EditChannel(c) \/ DisableChannel(c) PROVE Good
  BY <1>2, <1>3 DEF EditChannel, DisableChannel
<1>4. ASSUME NEW id \in Ids, ForgetOrigin(id) PROVE Good
  BY <1>2, <1>4 DEF ForgetOrigin
<1>5. CASE UNCHANGED vars
  BY <1>2, <1>5 DEF vars
<1> QED  BY <1>1, <1>3, <1>4, <1>5 DEF Next

LEMMA IInvHolds == Spec => []IInv
<1>1. faults \in 0..MaxFaults /\ IInv /\ [Next]_vars => IInv'
  BY NextGood DEF Good
<1> QED  BY IInvInit, FaultsHold, <1>1, PTL DEF Spec

-----------------------------------------------------------------------------
\* A call that continues a stored history is only ever sent to the channel, and with
\* the key, that made it.
THEOREM HistoryStaysHomeHolds == Spec => []HistoryStaysHome
<1>1. IInv => HistoryStaysHome
  BY DEF IInv, CallInv, HomeInv, HistoryStaysHome
<1> QED  BY <1>1, IInvHolds, PTL

\* Whatever fails, a call sends 1 + RetryTimes requests, and one more only where the
\* last answer is got by sending again.
THEOREM AttemptsHold == Spec => []AttemptsAreBounded
<1>1. IInv => AttemptsAreBounded
  <2> SUFFICES ASSUME IInv, NEW r \in Calls
               PROVE  call[r].sent <= 1 + RetryTimes + (IF call[r].loop.sendsLast THEN 1 ELSE 0)
    BY DEF AttemptsAreBounded
  <2>1. AttemptsInv(call[r])
    BY DEF IInv, CallInv
  <2> QED  BY <2>1, RetryNat DEF AttemptsInv
<1> QED  BY <1>1, IInvHolds, PTL

\* No attempt leaves the provider that the history or the first choice fixed, for
\* any edits of the rows between the attempts.
THEOREM StaysInProviderHolds == Spec => StaysInProvider
<1>1. faults \in 0..MaxFaults /\ IInv /\ [Next]_vars =>
        [\A r \in Calls : Sends(r) /\ call[r].provider # NoProvider =>
            chan[call'[r].channel].provider = call[r].provider]_vars
  BY NextGood DEF Good, ProviderStep
<1> QED  BY <1>1, FaultsHold, IInvHolds, PTL DEF Spec, StaysInProvider

\* A failed channel is tried again, or forgotten, only when every channel that can be
\* selected has been tried or a query has failed in that very step.
THEOREM NoEarlyRepeatHolds == Spec => NoEarlyRepeat
<1>1. faults \in 0..MaxFaults /\ IInv /\ [Next]_vars =>
        [\A r \in Calls :
            (Sends(r) /\ call'[r].channel \in call[r].round) \/ Forgets(r) =>
                Selectable(call[r], {}) \subseteq call[r].round \/ faults' # faults]_vars
  BY NextGood DEF Good, RepeatStep
<1> QED  BY <1>1, FaultsHold, IInvHolds, PTL DEF Spec, NoEarlyRepeat

-----------------------------------------------------------------------------
(* Histories.  BindHistory reads the references one by one; Taken says      *)
(* what it makes of a set of them.                                          *)

\* The reference binds the call to a channel and a key.
Binds(id) == Known(id) /\ (id \in BoundIds \/ origin[id].provider = NoProvider)

\* Nothing of S is refused: what has no origin can be carried, what has no provider can
\* be filled in, and what binds a channel binds one.
CanTake(S, explicit, target) ==
    /\ \A id \in S : Known(id) \/ (explicit # NoProvider /\ id \notin BoundIds)
    /\ \A id \in S : Known(id) /\ origin[id].provider = NoProvider /\ target # NoProvider
                        => CanFill(origin[id], target)
    /\ \A a, b \in S : Binds(a) /\ Binds(b) => origin[a].home = origin[b].home

HomeOf(S) ==
    IF \E id \in S : Binds(id) THEN origin[CHOOSE id \in S : Binds(id)].home ELSE NoHome

Taken(S, explicit, target) ==
    IF CanTake(S, explicit, target)
    THEN [ok |-> TRUE,
          provider |-> IF \E id \in S : Known(id) THEN target ELSE explicit,
          have |-> explicit # NoProvider \/ \E id \in S : Known(id),
          home |-> HomeOf(S)]
    ELSE Refused

\* The client and the known references of S name no provider but target.
OneTarget(S, explicit, target) ==
    /\ explicit \in {NoProvider, target}
    /\ \A id \in S : Known(id) => origin[id].provider \in {NoProvider, target}

HomesKnown == \A id \in Ids : Known(id) => origin[id].home # NoHome

LEMMA HomeOfBinding ==
    ASSUME NEW S, \A a, b \in S : Binds(a) /\ Binds(b) => origin[a].home = origin[b].home
    PROVE  \A a \in S : Binds(a) => HomeOf(S) = origin[a].home
  BY DEF HomeOf

LEMMA HomeOfNone == ASSUME NEW S, \A id \in S : ~Binds(id) PROVE HomeOf(S) = NoHome
  BY DEF HomeOf

\* One reference more, read after the others.
LEMMA TakenNext ==
    ASSUME HomesKnown, NEW S \in SUBSET Ids, NEW id \in Ids, NEW explicit, NEW target,
           OneTarget(S \cup {id}, explicit, target)
    PROVE  Taken(S \cup {id}, explicit, target)
             = BindReference(Taken(S, explicit, target), id, explicit, target)
<1> DEFINE T == S \cup {id}
           o == origin[id]
           acc == Taken(S, explicit, target)
           all == Taken(T, explicit, target)
<1> HIDE DEF acc, all
<1>1. CASE ~CanTake(S, explicit, target)
  <2>1. ~CanTake(T, explicit, target)
    BY <1>1 DEF CanTake
  <2>2. acc = Refused /\ all = Refused /\ ~Refused.ok
    BY <1>1, <2>1 DEF Taken, Refused, acc, all
  <2> QED  BY <2>2 DEF BindReference, acc, all
<1>2. CASE CanTake(S, explicit, target)
  <2>1. acc = [ok |-> TRUE,
               provider |-> IF \E i \in S : Known(i) THEN target ELSE explicit,
               have |-> explicit # NoProvider \/ \E i \in S : Known(i),
               home |-> HomeOf(S)]
    BY <1>2 DEF Taken, acc
  <2>2. /\ acc.ok
        /\ acc.provider = IF \E i \in S : Known(i) THEN target ELSE explicit
        /\ acc.have <=> explicit # NoProvider \/ \E i \in S : Known(i)
        /\ acc.home = HomeOf(S)
    BY <2>1
  <2>3. CASE ~Known(id)
    <3>1. CanTake(T, explicit, target) <=> explicit # NoProvider /\ id \notin BoundIds
      BY <1>2, <2>3 DEF CanTake, Binds
    <3>2. (\E i \in T : Known(i)) <=> \E i \in S : Known(i)
      BY <2>3
    <3>3. HomeOf(T) = HomeOf(S)
      <4>1. CASE \E i \in S : Binds(i)
        <5>1. \A a, b \in T : Binds(a) /\ Binds(b) => origin[a].home = origin[b].home
          BY <1>2, <2>3 DEF CanTake, Binds
        <5> QED  BY <4>1, <5>1, HomeOfBinding
      <4>2. CASE ~\E i \in S : Binds(i)
        BY <2>3, <4>2, HomeOfNone DEF Binds
      <4> QED  BY <4>1, <4>2
    <3>4. CanTake(T, explicit, target) => all = acc
      BY <2>1, <3>2, <3>3 DEF Taken, all
    <3>5. ~CanTake(T, explicit, target) => all = Refused
      BY DEF Taken, all
    <3>6. BindReference(acc, id, explicit, target)
            = IF explicit # NoProvider /\ id \notin BoundIds THEN acc ELSE Refused
      BY <2>2, <2>3 DEF BindReference
    <3> QED  BY <3>1, <3>4, <3>5, <3>6 DEF acc, all
  <2>4. CASE Known(id)
    <3> DEFINE fill == o.provider = NoProvider /\ target # NoProvider
               binds == id \in BoundIds \/ o.provider = NoProvider
               p == IF fill THEN target ELSE o.provider
    <3>1. p = target /\ (acc.have => acc.provider = target) /\ (binds <=> Binds(id))
      BY <2>2, <2>4 DEF OneTarget, Binds
    <3>2. BindReference(acc, id, explicit, target) = BindOrigin(acc, o, id \in BoundIds, target)
      BY <2>2, <2>4 DEF BindReference
    <3>3. BindOrigin(acc, o, id \in BoundIds, target)
            = IF (fill /\ ~CanFill(o, target)) \/ (binds /\ acc.home \notin {NoHome, o.home})
              THEN Refused
              ELSE [ok |-> TRUE, provider |-> target, have |-> TRUE,
                    home |-> IF binds THEN o.home ELSE acc.home]
      BY <3>1 DEF BindOrigin
    <3>4. binds => (acc.home \notin {NoHome, o.home} <=>
                      \E a \in S : Binds(a) /\ origin[a].home # o.home)
      <4>1. \A a \in S : Binds(a) => acc.home = origin[a].home /\ acc.home # NoHome
        <5>1. \A a \in S : Binds(a) => acc.home = origin[a].home
          BY <1>2, <2>2, HomeOfBinding DEF CanTake
        <5> QED  BY <5>1 DEF HomesKnown, Binds
      <4>2. (\A a \in S : ~Binds(a)) => acc.home = NoHome
        BY <2>2, HomeOfNone
      <4> QED  BY <4>1, <4>2
    <3>5. CanTake(T, explicit, target) <=>
            ~((fill /\ ~CanFill(o, target)) \/ (binds /\ acc.home \notin {NoHome, o.home}))
      BY <1>2, <2>4, <3>1, <3>4 DEF CanTake
    <3>6. CASE CanTake(T, explicit, target)
      <4>1. all = [ok |-> TRUE, provider |-> target, have |-> TRUE, home |-> HomeOf(T)]
        BY <2>4, <3>6 DEF Taken, all
      <4>2. HomeOf(T) = IF binds THEN o.home ELSE acc.home
        <5>1. \A a, b \in T : Binds(a) /\ Binds(b) => origin[a].home = origin[b].home
          BY <3>6 DEF CanTake
        <5>2. CASE binds
          BY <3>1, <5>1, <5>2, HomeOfBinding
        <5>3. CASE ~binds /\ \E i \in S : Binds(i)
          BY <2>2, <5>1, <5>3, HomeOfBinding
        <5>4. CASE ~binds /\ ~\E i \in S : Binds(i)
          BY <2>2, <3>1, <5>4, HomeOfNone
        <5> QED  BY <5>2, <5>3, <5>4
      <4> QED  BY <3>2, <3>3, <3>5, <3>6, <4>1, <4>2 DEF acc, all
    <3>7. CASE ~CanTake(T, explicit, target)
      <4>1. all = Refused
        BY <3>7 DEF Taken, all
      <4> QED  BY <3>2, <3>3, <3>5, <3>7, <4>1 DEF acc, all
    <3> QED  BY <3>6, <3>7
  <2> QED  BY <2>3, <2>4
<1> QED  BY <1>1, <1>2

-----------------------------------------------------------------------------
\* A set of numbers has a least one.
LEMMA LeastNumber ==
    ASSUME NEW T, T \subseteq Nat, T # {}
    PROVE  \E n \in T : \A k \in Nat : k < n => k \notin T
<1>1. IsWellFoundedOn(OpToRel(<, Nat), Nat)
  BY NatLessThanWellFounded
<1>2. PICK n \in T : \A k \in T : <<k, n>> \notin OpToRel(<, Nat)
  BY <1>1, WFMin
<1>3. \A k, m \in Nat : k < m => <<k, m>> \in OpToRel(<, Nat)
  BY DEF OpToRel
<1> QED  BY <1>2, <1>3

\* The references of a history, up to the nth.
Upto(refs, n) == {refs[i] : i \in 1..n}

\* The target of BindHistory: the one provider that is named, if any.
TargetOf(refs, explicit) ==
    LET targets == TargetProviders(refs, explicit)
    IN  IF targets = {} THEN NoProvider ELSE CHOOSE p \in targets : TRUE

\* The equation of BindHistory's recursion.
Reads(g, refs, explicit, target) ==
    g = [n \in 0..Len(refs) |->
            IF n = 0 THEN [ok |-> TRUE, provider |-> explicit, have |-> explicit # NoProvider,
                           home |-> NoHome]
            ELSE BindReference(g[n - 1], refs[n], explicit, target)]

LEMMA BindHistoryIs ==
    ASSUME NEW refs, NEW explicit
    PROVE  BindHistory(refs, explicit) =
             IF Cardinality(TargetProviders(refs, explicit)) > 1 THEN Refused
             ELSE (CHOOSE g : Reads(g, refs, explicit, TargetOf(refs, explicit)))[Len(refs)]
  BY DEF BindHistory, Reads, TargetOf

\* The equation has one solution.
LEMMA ReadsUnique ==
    ASSUME NEW refs \in Seq(Ids), NEW explicit, NEW target, NEW f, NEW g,
           Reads(f, refs, explicit, target), Reads(g, refs, explicit, target)
    PROVE  f[Len(refs)] = g[Len(refs)]
<1> DEFINE T == {n \in 0..Len(refs) : f[n] # g[n]}
<1>1. SUFFICES ASSUME T # {} PROVE FALSE
  BY Len(refs) \in 0..Len(refs)
<1>2. T \subseteq Nat
  OBVIOUS
<1>3. PICK n \in T : \A k \in Nat : k < n => k \notin T
  <2> HIDE DEF T
  <2> QED  BY <1>1, <1>2, LeastNumber
<1>4. n # 0
  BY <1>3 DEF Reads
<1>5. n - 1 \in 0..Len(refs) /\ n \in 0..Len(refs) /\ n - 1 \in Nat /\ n - 1 < n
  BY <1>3, <1>4
<1>6. f[n - 1] = g[n - 1]
  BY <1>3, <1>5
<1>7. /\ f[n] = BindReference(f[n - 1], refs[n], explicit, target)
      /\ g[n] = BindReference(g[n - 1], refs[n], explicit, target)
  BY <1>4, <1>5 DEF Reads
<1> QED  BY <1>3, <1>6, <1>7

\* Read one by one or taken as a set: the same.
LEMMA BindsTheSet ==
    ASSUME HomesKnown, NEW refs \in Seq(Ids), NEW explicit, NEW target,
           OneTarget(Upto(refs, Len(refs)), explicit, target)
    PROVE  (CHOOSE g : Reads(g, refs, explicit, target))[Len(refs)]
             = Taken(Upto(refs, Len(refs)), explicit, target)
<1> DEFINE f == [n \in 0..Len(refs) |-> Taken(Upto(refs, n), explicit, target)]
<1>1. f[0] = [ok |-> TRUE, provider |-> explicit, have |-> explicit # NoProvider, home |-> NoHome]
  <2>1. Upto(refs, 0) = {}
    BY DEF Upto
  <2>2. HomeOf({}) = NoHome
    BY HomeOfNone
  <2>3. CanTake({}, explicit, target)
    BY DEF CanTake
  <2>4. Taken({}, explicit, target)
          = [ok |-> TRUE, provider |-> explicit, have |-> explicit # NoProvider, home |-> NoHome]
    BY <2>2, <2>3 DEF Taken
  <2> QED  BY <2>1, <2>4
<1>2. ASSUME NEW n \in 1..Len(refs)
      PROVE  f[n] = BindReference(f[n - 1], refs[n], explicit, target)
  <2>1. /\ Upto(refs, n) = Upto(refs, n - 1) \cup {refs[n]}
        /\ Upto(refs, n) \subseteq Upto(refs, Len(refs))
    BY DEF Upto
  <2>2. Upto(refs, n - 1) \in SUBSET Ids /\ refs[n] \in Ids
    BY DEF Upto
  <2>3. OneTarget(Upto(refs, n), explicit, target)
    BY <2>1 DEF OneTarget
  <2>4. Taken(Upto(refs, n), explicit, target)
          = BindReference(Taken(Upto(refs, n - 1), explicit, target), refs[n], explicit, target)
    BY <2>1, <2>2, <2>3, TakenNext
  <2> QED  BY <2>4
<1>3. f = [n \in 0..Len(refs) |-> f[n]]
  OBVIOUS
<1>4. \A n \in 0..Len(refs) : n # 0 => n \in 1..Len(refs)
  OBVIOUS
<1>e. f[Len(refs)] = Taken(Upto(refs, Len(refs)), explicit, target)
  OBVIOUS
<1> HIDE DEF f
<1>5. Reads(f, refs, explicit, target)
  BY <1>1, <1>2, <1>3, <1>4 DEF Reads
<1> DEFINE g == CHOOSE g : Reads(g, refs, explicit, target)
<1>6. Reads(g, refs, explicit, target)
  BY <1>5
<1> HIDE DEF g
<1>7. g[Len(refs)] = f[Len(refs)]
  BY <1>5, <1>6, ReadsUnique
<1> QED  BY <1>7, <1>e DEF g

\* So are the providers they name, which are finitely many.
LEMMA TargetsAre ==
    ASSUME NEW refs \in Seq(Ids), NEW explicit
    PROVE  /\ TargetProviders(refs, explicit) =
                ({explicit} \cup {origin[id].provider : id \in {i \in Upto(refs, Len(refs)) : Known(i)}})
                    \ {NoProvider}
           /\ IsFiniteSet(TargetProviders(refs, explicit))
<1> DEFINE I == {j \in DOMAIN refs : Known(refs[j])}
           P == {origin[refs[i]].provider : i \in I}
<1>1. TargetProviders(refs, explicit) = ({explicit} \cup P) \ {NoProvider}
  BY DEF TargetProviders
<1>2. P = {origin[id].provider : id \in {i \in Upto(refs, Len(refs)) : Known(i)}}
  BY DEF Upto
<1>3. IsFiniteSet(I)
  <2>1. IsFiniteSet(1..Len(refs))
    BY FS_Interval
  <2> QED  BY <2>1, FS_Subset
<1>4. IsFiniteSet(P)
  <2> DEFINE h == [i \in I |-> origin[refs[i]].provider]
  <2>1. h \in [I -> P] /\ \A p \in P : \E i \in I : h[i] = p
    OBVIOUS
  <2>2. h \in Surjection(I, P)
    BY <2>1 DEF Surjection
  <2> QED  BY <1>3, <2>2, FS_Surjection
<1>5. IsFiniteSet(P \cup {explicit})
  BY <1>4, FS_AddElement
<1>6. IsFiniteSet(({explicit} \cup P) \ {NoProvider})
  BY <1>5, FS_Subset
<1> QED  BY <1>1, <1>2, <1>6

LEMMA OneTargetOf ==
    ASSUME NEW refs \in Seq(Ids), NEW explicit,
           ~(Cardinality(TargetProviders(refs, explicit)) > 1)
    PROVE  OneTarget(Upto(refs, Len(refs)), explicit, TargetOf(refs, explicit))
<1> DEFINE targets == TargetProviders(refs, explicit)
<1>1. \A p, q \in targets : p = q
  <2> SUFFICES ASSUME NEW p \in targets, NEW q \in targets, p # q PROVE FALSE
    OBVIOUS
  <2>1. IsFiniteSet(targets)
    BY TargetsAre
  <2>2. IsFiniteSet({p, q}) /\ Cardinality({p, q}) = 2
    <3>1. IsFiniteSet({p}) /\ Cardinality({p}) = 1
      BY FS_Singleton
    <3>2. /\ IsFiniteSet({p} \cup {q})
          /\ Cardinality({p} \cup {q}) = IF q \in {p} THEN Cardinality({p}) ELSE Cardinality({p}) + 1
      BY <3>1, FS_AddElement
    <3>3. {p, q} = {p} \cup {q}
      OBVIOUS
    <3>4. q \notin {p}
      OBVIOUS
    <3>5. Cardinality({p} \cup {q}) = 2
      <4>1. Cardinality({p} \cup {q}) = Cardinality({p}) + 1
        BY ONLY <3>2, <3>4, Zenon
      <4>2. 1 + 1 = 2
        OBVIOUS
      <4> QED  BY ONLY <3>1, <4>1, <4>2, Zenon
    <3> QED  BY ONLY <3>2, <3>3, <3>5, Zenon
  <2>3. Cardinality({p, q}) <= Cardinality(targets) /\ Cardinality(targets) \in Nat
    BY <2>1, FS_Subset, FS_CardinalityType
  <2> QED  BY <2>2, <2>3
<1>2. \A p \in targets : p = TargetOf(refs, explicit)
  BY <1>1 DEF TargetOf
<1>3. /\ explicit \in {NoProvider} \cup targets
      /\ \A id \in Upto(refs, Len(refs)) : Known(id) => origin[id].provider \in {NoProvider} \cup targets
  BY TargetsAre
<1> HIDE DEF targets
<1> QED  BY <1>2, <1>3 DEF OneTarget

\* BindHistory is a function of the set of the references.
LEMMA BindHistorySet ==
    ASSUME HomesKnown, NEW refs \in Seq(Ids), NEW explicit
    PROVE  BindHistory(refs, explicit) =
             IF Cardinality(TargetProviders(refs, explicit)) > 1 THEN Refused
             ELSE Taken(Upto(refs, Len(refs)), explicit, TargetOf(refs, explicit))
  BY BindHistoryIs, OneTargetOf, BindsTheSet

\* So the order in which they come does not matter.
LEMMA BindOrderFree == HomesKnown => BindIgnoresOrder
<1> SUFFICES ASSUME HomesKnown, NEW refs \in Histories, NEW other \in Histories,
                    NEW explicit, Len(other) = Len(refs),
                    {refs[i] : i \in DOMAIN refs} = {other[i] : i \in DOMAIN other}
             PROVE  BindHistory(refs, explicit) = BindHistory(other, explicit)
  BY DEF BindIgnoresOrder
<1>1. refs \in Seq(Ids) /\ other \in Seq(Ids)
  BY RetryAssumption
<1>2. Upto(refs, Len(refs)) = Upto(other, Len(other))
  <2>1. DOMAIN refs = 1..Len(refs) /\ DOMAIN other = 1..Len(other)
    BY <1>1
  <2> QED  BY <2>1 DEF Upto
<1>3. TargetProviders(refs, explicit) = TargetProviders(other, explicit)
  BY <1>1, <1>2, TargetsAre
<1>4. TargetOf(refs, explicit) = TargetOf(other, explicit)
  BY <1>3 DEF TargetOf
<1> QED  BY <1>1, <1>2, <1>3, <1>4, BindHistorySet

-----------------------------------------------------------------------------
(* Types. *)

\* A call is typed; while it is at an upstream its channel is known, and so is the
\* index of its key where something is recorded of it.
CallTyped(m) ==
    /\ m \in CallType
    /\ m.pc \in {"sent", "failed", "again", "waiting"} => m.channel \in Channels
    /\ m.pc = "sent" /\ (m.loop.stateful \/ (m.loop.marks /\ m.keyed)) => m.idx \in Nat \ {0}

TInv == TypeOK /\ \A r \in Calls : CallTyped(call[r])

LEMMA HomesTyped == TInv => HomesKnown
  BY HomeAssumption DEF TInv, TypeOK, HomesKnown, Known, Origins

LEMMA SelectKeyTyped ==
    ASSUME NEW row \in RowType, NEW cached, NEW use \in SelectKey(row, cached)
    PROVE  use.idx \in Nat \ {0} /\ use.key \in Keys \cup {Raw}
<1>1. /\ row.keys \in Seq(Keys \cup {Off})
      /\ \A i \in DOMAIN row.keys : i \in Nat \ {0} /\ row.keys[i] \in Keys \cup {Off}
  <2>1. row.keys \in Seq(Keys \cup {Off})
    BY DEF RowType
  <2> QED  BY <2>1
<1>2. CASE GetKeyByIndex(row, cached) # Off
  <2>1. cached \in DOMAIN row.keys /\ row.keys[cached] # Off
    BY <1>2 DEF GetKeyByIndex
  <2>2. use = [idx |-> cached, key |-> row.keys[cached]]
    BY <1>2 DEF SelectKey
  <2> QED  BY <1>1, <2>1, <2>2
<1>3. CASE GetKeyByIndex(row, cached) = Off
  <2>1. \/ \E i \in DOMAIN row.keys : row.keys[i] # Off /\ use = [idx |-> i, key |-> row.keys[i]]
        \/ use = [idx |-> 1, key |-> Raw]
    BY <1>3 DEF SelectKey
  <2> QED  BY <1>1, <2>1
<1> QED  BY <1>2, <1>3

\* One field at a time.
LEMMA FieldsTyped ==
    ASSUME NEW m, m \in CallType
    PROVE  /\ \A p \in {"idle", "bound", "sent", "failed", "again", "waiting", "last", "ended"} :
                [m EXCEPT !.pc = p] \in CallType
           /\ \A loop \in Loops : [m EXCEPT !.loop = loop] \in CallType
           /\ \A p \in Providers \cup {NoProvider} : [m EXCEPT !.provider = p] \in CallType
           /\ \A h \in Homes \cup {NoHome} : [m EXCEPT !.home = h] \in CallType
           /\ \A b \in BOOLEAN : /\ [m EXCEPT !.forced = b] \in CallType
                                 /\ [m EXCEPT !.keyed = b] \in CallType
                                 /\ [m EXCEPT !.skip = b] \in CallType
                                 /\ [m EXCEPT !.started = b] \in CallType
           /\ \A c \in Channels : [m EXCEPT !.channel = c] \in CallType
           /\ \A i \in Nat : [m EXCEPT !.idx = i] \in CallType /\ [m EXCEPT !.sent = i] \in CallType
           /\ \A k \in Keys \cup {NoKey, Raw} : [m EXCEPT !.key = k] \in CallType
           /\ \A S \in SUBSET Channels : /\ [m EXCEPT !.failed = S] \in CallType
                                         /\ [m EXCEPT !.round = S] \in CallType
           /\ \A n \in 0..RetryTimes : [m EXCEPT !.left = n] \in CallType
           /\ \A st \in {"retry", "limited", "refused", "unrecorded"} :
                [m EXCEPT !.status = st] \in CallType
<1>1. ASSUME NEW p \in {"idle", "bound", "sent", "failed", "again", "waiting", "last", "ended"}
      PROVE  [m EXCEPT !.pc = p] \in CallType
  BY DEF CallType
<1>2. ASSUME NEW loop \in Loops PROVE [m EXCEPT !.loop = loop] \in CallType
  BY DEF CallType
<1>3. ASSUME NEW p \in Providers \cup {NoProvider} PROVE [m EXCEPT !.provider = p] \in CallType
  BY DEF CallType
<1>4. ASSUME NEW h \in Homes \cup {NoHome} PROVE [m EXCEPT !.home = h] \in CallType
  BY DEF CallType
<1>5. ASSUME NEW b \in BOOLEAN PROVE [m EXCEPT !.forced = b] \in CallType
  BY DEF CallType
<1>6. ASSUME NEW b \in BOOLEAN PROVE [m EXCEPT !.keyed = b] \in CallType
  BY DEF CallType
<1>7. ASSUME NEW b \in BOOLEAN PROVE [m EXCEPT !.skip = b] \in CallType
  BY DEF CallType
<1>8. ASSUME NEW b \in BOOLEAN PROVE [m EXCEPT !.started = b] \in CallType
  BY DEF CallType
<1>9. ASSUME NEW c \in Channels PROVE [m EXCEPT !.channel = c] \in CallType
  BY DEF CallType
<1>10. ASSUME NEW i \in Nat PROVE [m EXCEPT !.idx = i] \in CallType
  BY DEF CallType
<1>11. ASSUME NEW i \in Nat PROVE [m EXCEPT !.sent = i] \in CallType
  BY DEF CallType
<1>12. ASSUME NEW k \in Keys \cup {NoKey, Raw} PROVE [m EXCEPT !.key = k] \in CallType
  BY DEF CallType
<1>13. ASSUME NEW S \in SUBSET Channels PROVE [m EXCEPT !.failed = S] \in CallType
  BY DEF CallType
<1>14. ASSUME NEW S \in SUBSET Channels PROVE [m EXCEPT !.round = S] \in CallType
  BY DEF CallType
<1>15. ASSUME NEW n \in 0..RetryTimes PROVE [m EXCEPT !.left = n] \in CallType
  BY DEF CallType
<1>16. ASSUME NEW st \in {"retry", "limited", "refused", "unrecorded"}
      PROVE [m EXCEPT !.status = st] \in CallType
  BY DEF CallType
<1> QED  BY <1>1, <1>2, <1>3, <1>4, <1>5, <1>6, <1>7, <1>8, <1>9, <1>10, <1>11, <1>12, <1>13,
            <1>14, <1>15, <1>16

LEMMA IdleTyped == CallTyped(Idle)
  BY RetryNat DEF CallTyped, Idle, CallType, Relay, Loop

LEMMA EndTyped == ASSUME NEW m, CallTyped(m) PROVE CallTyped(End(m))
<1>1. Idle \in CallType /\ m.failed \in SUBSET Channels
  BY IdleTyped DEF CallTyped, CallType
<1> DEFINE n == [Idle EXCEPT !.pc = "ended", !.failed = m.failed]
<1>2. n \in CallType /\ n.pc = "ended"
  BY <1>1 DEF CallType
<1> HIDE DEF n
<1>3. End(m) = n
  BY DEF End, n
<1> QED  BY <1>2, <1>3 DEF CallTyped

LEMMA SendToTyped ==
    ASSUME NEW m, CallTyped(m), NEW c \in Channels,
           NEW use, use.idx \in Nat \ {0}, use.key \in Keys \cup {Raw}
    PROVE  CallTyped(SendTo(m, c, use))
<1> DEFINE i == IF m.loop.stateful \/ (m.loop.marks /\ m.keyed) THEN use.idx ELSE 0
           k == IF m.loop.stateful THEN use.key ELSE NoKey
           q == m.round \cup {c}
           n == [m EXCEPT !.pc = "sent", !.channel = c, !.idx = i, !.key = k,
                          !.sent = m.sent + 1, !.started = FALSE, !.round = q]
<1>1. i \in Nat /\ k \in Keys \cup {NoKey, Raw}
  OBVIOUS
<1>2. m \in CallType /\ q \in SUBSET Channels /\ m.sent + 1 \in Nat
  BY DEF CallTyped, CallType
<1>3. SendTo(m, c, use) = n
  BY <1>2 DEF SendTo, CallType
<1>4. m.loop.stateful \/ (m.loop.marks /\ m.keyed) => i \in Nat \ {0}
  OBVIOUS
<1> HIDE DEF i, k, q
<1>5. n \in CallType
  <2> DEFINE n1 == [m EXCEPT !.pc = "sent"]
             n2 == [n1 EXCEPT !.channel = c]
             n3 == [n2 EXCEPT !.idx = i]
             n4 == [n3 EXCEPT !.key = k]
             n5 == [n4 EXCEPT !.sent = m.sent + 1]
             n6 == [n5 EXCEPT !.started = FALSE]
             n7 == [n6 EXCEPT !.round = q]
  <2>1. n = n7
    OBVIOUS
  <2> HIDE DEF n, n1, n2, n3, n4, n5, n6, n7
  <2>2. n1 \in CallType
    BY <1>2, FieldsTyped DEF n1
  <2>3. n2 \in CallType
    BY <2>2, FieldsTyped DEF n2
  <2>4. n3 \in CallType
    BY <1>1, <2>3, FieldsTyped DEF n3
  <2>5. n4 \in CallType
    BY <1>1, <2>4, FieldsTyped DEF n4
  <2>6. n5 \in CallType
    BY <1>2, <2>5, FieldsTyped DEF n5
  <2>7. n6 \in CallType
    BY <2>6, FieldsTyped DEF n6
  <2>8. n7 \in CallType
    BY <1>2, <2>7, FieldsTyped DEF n7
  <2> QED  BY <2>1, <2>8
<1>6. n.channel = c /\ n.loop = m.loop /\ n.keyed = m.keyed /\ n.idx = i
  BY <1>2 DEF CallType
<1> HIDE DEF n
<1> QED  BY <1>3, <1>4, <1>5, <1>6 DEF CallTyped

LEMMA AlteredTyped ==
    ASSUME NEW m, CallTyped(m)
    PROVE  /\ \A p \in Providers \cup {NoProvider} : CallTyped([m EXCEPT !.provider = p])
           /\ m.left > 0 => CallTyped([m EXCEPT !.left = @ - 1])
           /\ CallTyped([m EXCEPT !.forced = TRUE])
           /\ m.pc = "bound" => \A b \in BOOLEAN :
                CallTyped([m EXCEPT !.keyed = TRUE]) /\ CallTyped([m EXCEPT !.keyed = TRUE, !.skip = b])
           /\ m.pc = "failed" =>
                /\ CallTyped([m EXCEPT !.pc = "waiting"])
                /\ CallTyped([m EXCEPT !.pc = "again", !.failed = {}, !.round = {}])
           /\ CallTyped([m EXCEPT !.pc = "last", !.sent = @ + 1])
<1>1. m \in CallType
  BY DEF CallTyped
<1>2. ASSUME NEW p \in Providers \cup {NoProvider} PROVE CallTyped([m EXCEPT !.provider = p])
  BY <1>1 DEF CallType, CallTyped
<1>3. m.left > 0 => CallTyped([m EXCEPT !.left = @ - 1])
  <2>1. m.left > 0 => m.left - 1 \in 0..RetryTimes
    BY <1>1, RetryNat DEF CallType
  <2> QED  BY <1>1, <2>1 DEF CallType, CallTyped
<1>4. CallTyped([m EXCEPT !.forced = TRUE])
  <2> DEFINE n == [m EXCEPT !.forced = TRUE]
  <2>1. n \in CallType /\ n.pc = m.pc /\ n.channel = m.channel /\ n.idx = m.idx
        /\ n.loop = m.loop /\ n.keyed = m.keyed
    BY <1>1 DEF CallType
  <2> HIDE DEF n
  <2> QED  BY <2>1 DEF CallTyped, n
<1>5. m.pc = "failed" => CallTyped([m EXCEPT !.pc = "again", !.failed = {}, !.round = {}])
  <2> DEFINE n1 == [m EXCEPT !.pc = "again"]
             n2 == [n1 EXCEPT !.failed = {}]
             n3 == [n2 EXCEPT !.round = {}]
  <2>1. n3.pc = "again" /\ n3.channel = m.channel
        /\ n3 = [m EXCEPT !.pc = "again", !.failed = {}, !.round = {}]
    BY <1>1 DEF CallType
  <2> HIDE DEF n1, n2, n3
  <2>2. n1 \in CallType
    BY <1>1, FieldsTyped DEF n1
  <2>3. n2 \in CallType
    BY <2>2, FieldsTyped DEF n2
  <2>4. n3 \in CallType
    BY <2>3, FieldsTyped DEF n3
  <2> QED  BY <2>1, <2>4 DEF CallTyped
<1>6. m.pc = "bound" => CallTyped([m EXCEPT !.keyed = TRUE])
  BY <1>1 DEF CallType, CallTyped
<1>7. ASSUME NEW b \in BOOLEAN, m.pc = "bound"
      PROVE  CallTyped([m EXCEPT !.keyed = TRUE, !.skip = b])
  <2> DEFINE n1 == [m EXCEPT !.keyed = TRUE]
             n2 == [n1 EXCEPT !.skip = b]
  <2>1. n2.pc = m.pc /\ n2 = [m EXCEPT !.keyed = TRUE, !.skip = b]
    BY <1>1 DEF CallType
  <2> HIDE DEF n1, n2
  <2>2. n1 \in CallType
    BY <1>1, FieldsTyped DEF n1
  <2>3. n2 \in CallType
    BY <2>2, FieldsTyped DEF n2
  <2> QED  BY <1>7, <2>1, <2>3 DEF CallTyped
<1>8. m.pc = "failed" => CallTyped([m EXCEPT !.pc = "waiting"])
  BY <1>1 DEF CallType, CallTyped
<1>9. CallTyped([m EXCEPT !.pc = "last", !.sent = @ + 1])
  <2> DEFINE n1 == [m EXCEPT !.pc = "last"]
             n2 == [n1 EXCEPT !.sent = m.sent + 1]
  <2>1. n2.pc = "last" /\ n2 = [m EXCEPT !.pc = "last", !.sent = @ + 1] /\ m.sent + 1 \in Nat
    BY <1>1 DEF CallType
  <2> HIDE DEF n1, n2
  <2>2. n1 \in CallType
    BY <1>1, FieldsTyped DEF n1
  <2>3. n2 \in CallType
    BY <2>1, <2>2, FieldsTyped DEF n2
  <2> QED  BY <2>1, <2>3 DEF CallTyped
<1> QED  BY <1>2, <1>3, <1>4, <1>5, <1>6, <1>7, <1>8, <1>9

LEMMA FailedTyped ==
    ASSUME NEW m, CallTyped(m), m.pc = "sent", NEW b \in BOOLEAN,
           NEW st \in {"retry", "limited", "refused", "unrecorded"}
    PROVE  CallTyped([m EXCEPT !.pc = "failed", !.status = st, !.started = b,
                               !.failed = @ \cup {m.channel}])
<1> DEFINE S == m.failed \cup {m.channel}
           n == [m EXCEPT !.pc = "failed", !.status = st, !.started = b, !.failed = S]
           n1 == [m EXCEPT !.pc = "failed"]
           n2 == [n1 EXCEPT !.status = st]
           n3 == [n2 EXCEPT !.started = b]
           n4 == [n3 EXCEPT !.failed = S]
<1>1. m \in CallType /\ S \in SUBSET Channels /\ m.channel \in Channels
  BY DEF CallTyped, CallType
<1>2. n = n4
  OBVIOUS
<1>3. n4.channel = m.channel /\ n4.pc = "failed"
  BY <1>1 DEF CallType
<1> HIDE DEF S, n1, n2, n3, n4, n
<1>4. n1 \in CallType
  BY <1>1, FieldsTyped DEF n1
<1>5. n2 \in CallType
  BY <1>4, FieldsTyped DEF n2
<1>6. n3 \in CallType
  BY <1>5, FieldsTyped DEF n3
<1>7. n4 \in CallType
  BY <1>1, <1>6, FieldsTyped DEF n4
<1> QED  BY <1>1, <1>2, <1>3, <1>7 DEF CallTyped, n, S
\* A step of one call.
LEMMA CallSteps ==
    ASSUME TInv, NEW r \in Calls, NEW n, CallTyped(n), call' = [call EXCEPT ![r] = n]
    PROVE  call' \in [Calls -> CallType] /\ \A q \in Calls : CallTyped(call[q])'
<1>1. n \in CallType /\ call \in [Calls -> CallType]
  BY DEF CallTyped, TInv, TypeOK
<1>2. call' \in [Calls -> CallType]
  BY <1>1
<1>3. \A q \in Calls : call'[q] = IF q = r THEN n ELSE call[q]
  BY <1>1
<1> QED  BY <1>2, <1>3 DEF TInv, CallTyped

CallsTyped == call \in [Calls -> CallType] /\ \A q \in Calls : CallTyped(call[q])

LEMMA AdmitTyped ==
    ASSUME TInv, NEW r \in Calls, NEW m, CallTyped(m), NEW c \in Channels, NEW cached,
           Admit(r, m, c, cached)
    PROVE  CallsTyped'
<1>1. chan[c] \in RowType
  BY DEF TInv, TypeOK
<1>2. CASE call' = [call EXCEPT ![r] = End(m)]
  BY <1>2, EndTyped, CallSteps DEF CallsTyped
<1>3. ASSUME NEW use \in SelectKey(chan[c], IF m.home # NoHome THEN m.home.idx ELSE cached),
             call' = [call EXCEPT ![r] = [SendTo(m, c, use) EXCEPT !.provider = chan[c].provider]]
      PROVE  CallsTyped'
  <2>1. use.idx \in Nat \ {0} /\ use.key \in Keys \cup {Raw}
    BY <1>1, SelectKeyTyped
  <2>2. chan[c].provider \in Providers \cup {NoProvider}
    BY <1>1 DEF RowType
  <2>3. CallTyped(SendTo(m, c, use))
    BY <2>1, SendToTyped
  <2>4. CallTyped([SendTo(m, c, use) EXCEPT !.provider = chan[c].provider])
    BY <2>2, <2>3, AlteredTyped
  <2> QED  BY <1>3, <2>4, CallSteps DEF CallsTyped
<1>4. CASE ~(~Allows(m, c) \/ ~RestoreResponsesStateKey(m.home, chan[c]))
  <2>1. PICK use \in SelectKey(chan[c], IF m.home # NoHome THEN m.home.idx ELSE cached) :
           call' = [call EXCEPT ![r] = IF VerifyResponsesStateKey(m.home, use)
                   THEN [SendTo(m, c, use) EXCEPT !.provider = chan[c].provider] ELSE End(m)]
    BY <1>4, Zenon DEF Admit
  <2>2. CASE VerifyResponsesStateKey(m.home, use)
    BY <1>3, <2>1, <2>2, Zenon
  <2>3. CASE ~VerifyResponsesStateKey(m.home, use)
    BY <1>2, <2>1, <2>3, Zenon
  <2> QED  BY <2>2, <2>3
<1> QED  BY <1>2, <1>4 DEF Admit

LEMMA AttemptTyped ==
    ASSUME TInv, NEW r \in Calls, NEW m, CallTyped(m), m.left > 0, NEW c \in Channels,
           Attempt(r, m, c)
    PROVE  CallsTyped'
<1>1. chan[c] \in RowType
  BY DEF TInv, TypeOK
<1>2. CASE call' = [call EXCEPT ![r] = End(m)]
  BY <1>2, EndTyped, CallSteps DEF CallsTyped
<1>3. ASSUME NEW use \in SelectKey(chan[c], IF m.home # NoHome THEN m.home.idx ELSE 0),
             call' = [call EXCEPT ![r] = [SendTo(m, c, use) EXCEPT !.left = @ - 1]]
      PROVE  CallsTyped'
  <2>1. use.idx \in Nat \ {0} /\ use.key \in Keys \cup {Raw}
    BY <1>1, SelectKeyTyped
  <2>2. CallTyped(SendTo(m, c, use))
    BY <2>1, SendToTyped
  <2>3. SendTo(m, c, use).left = m.left
    BY DEF SendTo, CallTyped, CallType
  <2>4. CallTyped([SendTo(m, c, use) EXCEPT !.left = @ - 1])
    BY <2>2, <2>3, AlteredTyped
  <2> QED  BY <1>3, <2>4, CallSteps DEF CallsTyped
<1>4. CASE RestoreResponsesStateKey(m.home, chan[c])
  <2>1. PICK use \in SelectKey(chan[c], IF m.home # NoHome THEN m.home.idx ELSE 0) :
           call' = [call EXCEPT ![r] = IF VerifyResponsesStateKey(m.home, use)
                   THEN [SendTo(m, c, use) EXCEPT !.left = @ - 1] ELSE End(m)]
    BY <1>4, Zenon DEF Attempt
  <2>2. CASE VerifyResponsesStateKey(m.home, use)
    BY <1>3, <2>1, <2>2, Zenon
  <2>3. CASE ~VerifyResponsesStateKey(m.home, use)
    BY <1>2, <2>1, <2>3, Zenon
  <2> QED  BY <2>2, <2>3
<1> QED  BY <1>2, <1>4 DEF Attempt

\* What a history binds a call to is typed.
LEMMA BindTyped ==
    ASSUME TInv, NEW refs \in Histories, NEW explicit \in Providers \cup {NoProvider}
    PROVE  /\ BindHistory(refs, explicit).provider \in Providers \cup {NoProvider}
           /\ BindHistory(refs, explicit).home \in Homes \cup {NoHome}
<1> DEFINE S == Upto(refs, Len(refs))
           target == TargetOf(refs, explicit)
<1>1. refs \in Seq(Ids) /\ HomesKnown
  BY RetryAssumption, HomesTyped
<1>2. S \subseteq Ids
  BY <1>1 DEF Upto
<1>3. \A id \in Ids : Known(id) => /\ origin[id].provider \in Providers \cup {NoProvider}
                                   /\ origin[id].home \in Homes
  BY DEF TInv, TypeOK, Known, Origins
<1>4. target \in Providers \cup {NoProvider}
  <2>1. TargetProviders(refs, explicit) \subseteq Providers
    BY <1>1, <1>2, <1>3, TargetsAre
  <2> QED  BY <2>1 DEF TargetOf
<1>5. HomeOf(S) \in Homes \cup {NoHome}
  <2>1. CASE \E id \in S : Binds(id)
    <3>1. PICK id \in S : HomeOf(S) = origin[id].home /\ Binds(id)
      BY <2>1 DEF HomeOf
    <3> QED  BY <1>2, <1>3, <3>1 DEF Binds
  <2> QED  BY <2>1 DEF HomeOf
<1> HIDE DEF S, target
<1>6. /\ Taken(S, explicit, target).provider \in Providers \cup {NoProvider}
      /\ Taken(S, explicit, target).home \in Homes \cup {NoHome}
  BY <1>4, <1>5 DEF Taken, Refused
<1>7. BindHistory(refs, explicit) = Refused \/ BindHistory(refs, explicit) = Taken(S, explicit, target)
  BY <1>1, BindHistorySet DEF S, target
<1> QED  BY <1>6, <1>7 DEF Refused

LEMMA BindStepTyped ==
    ASSUME TInv, NEW r \in Calls, BindResponsesState(r)
    PROVE  CallsTyped'
<1>1. PICK loop \in Loops :
        \/ call' = [call EXCEPT ![r] = [Idle EXCEPT !.pc = "bound", !.loop = loop]]
        \/ \E refs \in Histories, explicit \in Providers \cup {NoProvider} :
              LET b == BindHistory(refs, explicit)
              IN  call' = [call EXCEPT ![r] =
                      IF b.ok THEN [Idle EXCEPT !.pc = "bound", !.loop = loop,
                                                !.provider = b.provider, !.home = b.home]
                      ELSE End(Idle)]
  BY DEF BindResponsesState
<1>2. Idle \in CallType
  BY IdleTyped DEF CallTyped
<1>3. CASE call' = [call EXCEPT ![r] = [Idle EXCEPT !.pc = "bound", !.loop = loop]]
  <2> DEFINE n == [Idle EXCEPT !.pc = "bound", !.loop = loop]
             n1 == [Idle EXCEPT !.pc = "bound"]
             n2 == [n1 EXCEPT !.loop = loop]
  <2>1. n \in CallType /\ n.pc = "bound"
    <3>1. n = n2 /\ n2.pc = "bound"
      BY <1>2 DEF CallType
    <3> HIDE DEF n, n1, n2
    <3>2. n1 \in CallType
      BY <1>2, FieldsTyped DEF n1
    <3>3. n2 \in CallType
      BY <3>2, FieldsTyped DEF n2
    <3> QED  BY <3>1, <3>3
  <2>2. call' = [call EXCEPT ![r] = n]
    BY <1>3
  <2> HIDE DEF n
  <2> QED  BY <2>1, <2>2, CallSteps DEF CallTyped, CallsTyped
<1>4. ASSUME NEW b, b.provider \in Providers \cup {NoProvider}, b.home \in Homes \cup {NoHome},
             call' = [call EXCEPT ![r] =
                      IF b.ok THEN [Idle EXCEPT !.pc = "bound", !.loop = loop,
                                                !.provider = b.provider, !.home = b.home]
                      ELSE End(Idle)]
      PROVE  CallsTyped'
  <2> DEFINE n == [Idle EXCEPT !.pc = "bound", !.loop = loop,
                               !.provider = b.provider, !.home = b.home]
             n1 == [Idle EXCEPT !.pc = "bound"]
             n2 == [n1 EXCEPT !.loop = loop]
             n3 == [n2 EXCEPT !.provider = b.provider]
             n4 == [n3 EXCEPT !.home = b.home]
  <2>1. n \in CallType /\ n.pc = "bound"
    <3>1. n = n4 /\ n4.pc = "bound"
      BY <1>2 DEF CallType
    <3> HIDE DEF n, n1, n2, n3, n4
    <3>2. n1 \in CallType
      BY <1>2, FieldsTyped DEF n1
    <3>3. n2 \in CallType
      BY <3>2, FieldsTyped DEF n2
    <3>4. n3 \in CallType
      BY <1>4, <3>3, FieldsTyped DEF n3
    <3>5. n4 \in CallType
      BY <1>4, <3>4, FieldsTyped DEF n4
    <3> QED  BY <3>1, <3>5
  <2>2. call' = [call EXCEPT ![r] = IF b.ok THEN n ELSE End(Idle)]
    BY <1>4
  <2> HIDE DEF n
  <2>3. CASE b.ok
    BY <2>1, <2>2, <2>3, CallSteps DEF CallTyped, CallsTyped
  <2>4. CASE ~b.ok
    BY <2>2, <2>4, IdleTyped, EndTyped, CallSteps DEF CallsTyped
  <2> QED  BY <2>3, <2>4
<1>5. CASE \E refs \in Histories, explicit \in Providers \cup {NoProvider} :
              LET b == BindHistory(refs, explicit)
              IN  call' = [call EXCEPT ![r] =
                      IF b.ok THEN [Idle EXCEPT !.pc = "bound", !.loop = loop,
                                                !.provider = b.provider, !.home = b.home]
                      ELSE End(Idle)]
  BY <1>4, <1>5, BindTyped
<1> QED  BY <1>1, <1>3, <1>5

LEMMA DistributeTyped ==
    ASSUME TInv, NEW r \in Calls, NEW m, CallTyped(m), Distribute(r, m)
    PROVE  CallsTyped'
<1>1. CASE call' = [call EXCEPT ![r] = End(m)]
  BY <1>1, EndTyped, CallSteps DEF CallsTyped
<1>2. CASE \E c \in Best(Selectable(m, {})) : Admit(r, m, c, 0)
  <2>1. PICK c \in Channels : Admit(r, m, c, 0)
    BY <1>2 DEF Best, Selectable
  <2> QED  BY <2>1, AdmitTyped
<1> QED  BY <1>1, <1>2 DEF Distribute, NoChannel

LEMMA LoopsTyped == \A loop \in Loops \cup {Relay} : loop.skips \in BOOLEAN
<1>1. Relay.skips \in BOOLEAN
  BY DEF Relay, Loop
<1>2. \A loop \in Loops : loop.skips \in BOOLEAN
  BY LoopAssumption
<1> QED  BY <1>1, <1>2

LEMMA ChoiceTyped ==
    ASSUME TInv, NEW r \in Calls,
           DistributeSpecific(r) \/ DistributeByChance(r) \/ DistributeByAffinity(r)
    PROVE  CallsTyped'
<1>1. CallTyped(call[r]) /\ call[r].pc = "bound"
  BY DEF TInv, DistributeSpecific, DistributeByChance, DistributeByAffinity
<1>2. /\ CallTyped([call[r] EXCEPT !.forced = TRUE])
      /\ CallTyped([call[r] EXCEPT !.keyed = TRUE])
      /\ \A b \in BOOLEAN : CallTyped([call[r] EXCEPT !.keyed = TRUE, !.skip = b])
  BY <1>1, AlteredTyped
<1>3. CASE DistributeSpecific(r)
  <2>1. CASE call' = [call EXCEPT ![r] = End(call[r])]
    BY <1>1, <2>1, EndTyped, CallSteps DEF CallsTyped
  <2>2. CASE \E c \in Channels : Admit(r, [call[r] EXCEPT !.forced = TRUE], c, 0)
    BY <1>2, <2>2, AdmitTyped
  <2> QED  BY <1>3, <2>1, <2>2 DEF DistributeSpecific
<1>4. CASE DistributeByChance(r)
  <2>1. CASE Distribute(r, call[r])
    BY <1>1, <2>1, DistributeTyped
  <2>2. CASE \E c \in Selectable(call[r], {}) : \E i \in DOMAIN chan[c].keys :
                Admit(r, call[r], c, i)
    <3>1. PICK c \in Channels : \E i : Admit(r, call[r], c, i)
      BY <2>2 DEF Selectable
    <3> QED  BY <1>1, <3>1, AdmitTyped
  <2> QED  BY <1>4, <2>1, <2>2 DEF DistributeByChance
<1>5. CASE DistributeByAffinity(r)
  <2>1. CASE Distribute(r, [call[r] EXCEPT !.keyed = TRUE]) \/ Distribute(r, call[r])
    BY <1>1, <1>2, <2>1, DistributeTyped
  <2>2. ASSUME affinity # NoEntry, NEW skip \in {FALSE, call[r].loop.skips},
               Admit(r, [call[r] EXCEPT !.keyed = TRUE, !.skip = skip], affinity.channel, affinity.idx)
        PROVE  CallsTyped'
    <3>1. affinity.channel \in Channels
      BY <2>2 DEF TInv, TypeOK
    <3>2. skip \in BOOLEAN
      BY <1>1, <2>2, LoopsTyped DEF CallTyped, CallType
    <3> QED  BY <1>2, <2>2, <3>1, <3>2, AdmitTyped
  <2> QED  BY <1>5, <2>1, <2>2 DEF DistributeByAffinity
<1> QED  BY <1>3, <1>4, <1>5

LEMMA RememberTyped ==
    ASSUME TInv, NEW m, CallTyped(m), m.pc = "sent", RememberResponsesState(m)
    PROVE  origin' \in [Ids -> Origins \cup {NoHome}]
<1>1. origin \in [Ids -> Origins \cup {NoHome}]
  BY DEF TInv, TypeOK
<1>2. CASE m.loop.stateful
  <2>1. PICK ids : origin' = [id \in Ids |-> IF id \in ids /\ ~Known(id) THEN Origin(m) ELSE origin[id]]
    BY <1>2 DEF RememberResponsesState, Remember
  <2>2. /\ m.channel \in Channels /\ m.idx \in Nat \ {0} /\ m.key \in Keys \cup {NoKey, Raw}
        /\ m.provider \in Providers \cup {NoProvider}
    BY <1>2 DEF CallTyped, CallType
  <2>3. Origin(m) \in Origins
    BY <2>2 DEF Origin, Origins, Homes
  <2> QED  BY <1>1, <2>1, <2>3
<1>3. CASE ~m.loop.stateful
  BY <1>1, <1>3 DEF RememberResponsesState
<1> QED  BY <1>2, <1>3

\* The upstream's answer: what is recorded is the channel and the key of the call.
LEMMA SucceedTyped ==
    ASSUME TInv, NEW r \in Calls, Succeed(r)
    PROVE  /\ CallsTyped'
           /\ origin' \in [Ids -> Origins \cup {NoHome}]
           /\ affinity' \in [channel : Channels, idx : Nat \ {0}] \cup {NoEntry}
<1> DEFINE m == call[r]
<1>1. CallTyped(m) /\ m.pc = "sent"
  BY DEF TInv, Succeed
<1>2. call' = [call EXCEPT ![r] = End(m)]
  BY DEF Succeed
<1>3. CallsTyped'
  BY <1>1, <1>2, EndTyped, CallSteps DEF CallsTyped
<1>4. origin' \in [Ids -> Origins \cup {NoHome}]
  BY <1>1, RememberTyped DEF Succeed
<1>5. affinity' \in [channel : Channels, idx : Nat \ {0}] \cup {NoEntry}
  BY <1>1 DEF CallTyped, Succeed, TInv, TypeOK
<1> QED  BY <1>3, <1>4, <1>5

LEMMA FailTyped ==
    ASSUME TInv, NEW r \in Calls, Fail(r)
    PROVE  CallsTyped' /\ origin' \in [Ids -> Origins \cup {NoHome}]
<1> DEFINE m == call[r]
<1>1. CallTyped(m) /\ m.pc = "sent"
  BY DEF TInv, Fail
<1>2. PICK status \in {"retry", "limited", "refused", "unrecorded"}, started \in BOOLEAN :
        /\ IF started THEN RememberResponsesState(m) ELSE UNCHANGED origin
        /\ call' = [call EXCEPT ![r] =
               [m EXCEPT !.pc = "failed", !.status = status, !.started = started,
                         !.failed = @ \cup {m.channel}]]
  BY ZenonT(60) DEF Fail
<1>3. CallsTyped'
  BY <1>1, <1>2, FailedTyped, CallSteps DEF CallsTyped
<1>4. origin' \in [Ids -> Origins \cup {NoHome}]
  BY <1>1, <1>2, RememberTyped DEF TInv, TypeOK
<1> QED  BY <1>3, <1>4

\* The loop.
LEMMA GiveUpTyped ==
    ASSUME NEW m, CallTyped(m)
    PROVE  CallTyped(GiveUp(m))
  BY EndTyped, AlteredTyped DEF GiveUp

LEMMA RetryTyped ==
    ASSUME TInv, IInv, NEW r \in Calls, selectRetryChannel(r) \/ SelectAgain(r)
    PROVE  CallsTyped'
<1> DEFINE m == call[r]
<1>1. CallTyped(m) /\ m.left > 0 /\ m.channel \in Channels
  BY DEF TInv, CallTyped, IInv, CallInv, AttemptsInv, selectRetryChannel, SelectAgain, MayRetry
<1>2. ASSUME NEW S, \E c \in Best(Selectable(m, S)) : Attempt(r, m, c) PROVE CallsTyped'
  <2>1. PICK c \in Channels : Attempt(r, m, c)
    BY <1>2 DEF Best, Selectable
  <2> QED  BY <1>1, <2>1, AttemptTyped
<1>3. CASE NothingLeft(r, m)
  <2>1. CASE Attempt(r, m, m.channel)
    BY <1>1, <2>1, AttemptTyped
  <2>2. CASE call' = [call EXCEPT ![r] = GiveUp(m)]
    BY <1>1, <2>2, GiveUpTyped, CallSteps DEF CallsTyped
  <2> QED  BY <1>3, <2>1, <2>2 DEF NothingLeft
<1>4. CASE /\ m.pc = "failed"
           /\ call' = [call EXCEPT ![r] = [m EXCEPT !.pc = "again", !.failed = {}, !.round = {}]]
  <2>1. CallTyped([m EXCEPT !.pc = "again", !.failed = {}, !.round = {}])
    BY <1>1, <1>4, AlteredTyped
  <2> QED  BY <1>4, <2>1, CallSteps DEF CallsTyped
<1>5. CASE selectRetryChannel(r)
  BY <1>2, <1>3, <1>4, <1>5 DEF selectRetryChannel, MayRetry
<1>6. CASE SelectAgain(r)
  BY <1>2, <1>3, <1>6 DEF SelectAgain
<1> QED  BY <1>5, <1>6

LEMMA LoopTyped ==
    ASSUME TInv, IInv, NEW r \in Calls,
           Stop(r) \/ WaitRetryAfter(r) \/ AfterRetryAfter(r) \/ WriteLastFailureResponse(r)
    PROVE  CallsTyped'
<1> DEFINE m == call[r]
<1>1. CallTyped(m)
  BY DEF TInv
<1>2. CASE call' = [call EXCEPT ![r] = End(m)]
  BY <1>1, <1>2, EndTyped, CallSteps DEF CallsTyped
<1>3. CASE Stop(r)
  <2>1. m.pc = "failed" /\ (call' = [call EXCEPT ![r] = End(m)] \/ call' = [call EXCEPT ![r] = GiveUp(m)])
    BY <1>3 DEF Stop
  <2> QED  BY <1>1, <1>2, <2>1, GiveUpTyped, CallSteps DEF CallsTyped
<1>4. CASE WaitRetryAfter(r)
  <2>1. CallTyped([m EXCEPT !.pc = "waiting"])
    BY <1>1, <1>4, AlteredTyped DEF WaitRetryAfter, MayRetry
  <2>2. call' = [call EXCEPT ![r] = [m EXCEPT !.pc = "waiting"]]
    BY <1>4 DEF WaitRetryAfter, TInv, TypeOK
  <2> QED  BY <2>1, <2>2, CallSteps DEF CallsTyped
<1>5. CASE AfterRetryAfter(r)
  <2>1. m.left > 0
    BY <1>5 DEF AfterRetryAfter, IInv, CallInv, AttemptsInv
  <2>2. \A c \in Selectable(m, {}) : c \in Channels
    BY DEF Selectable
  <2> QED  BY <1>1, <1>2, <1>5, <2>1, <2>2, AttemptTyped DEF AfterRetryAfter
<1>6. CASE WriteLastFailureResponse(r)
  BY <1>2, <1>6 DEF WriteLastFailureResponse
<1> QED  BY <1>3, <1>4, <1>5, <1>6

\* Around the calls.
LEMMA RowsTyped ==
    ASSUME TInv, NEW c \in Channels, EditChannel(c) \/ DisableChannel(c)
    PROVE  chan' \in [Channels -> RowType]
<1>1. chan \in [Channels -> RowType] /\ Rows \subseteq RowType
  BY RetryAssumption DEF TInv, TypeOK
<1>2. CASE EditChannel(c)
  BY <1>1, <1>2 DEF EditChannel
<1>3. CASE DisableChannel(c)
  <2>1. [chan[c] EXCEPT !.enabled = FALSE] \in RowType
    BY <1>1 DEF RowType
  <2>2. chan' = [chan EXCEPT ![c] = [chan[c] EXCEPT !.enabled = FALSE]]
    BY <1>1, <1>3 DEF DisableChannel
  <2> QED  BY <1>1, <2>1, <2>2
<1> QED  BY <1>2, <1>3

LEMMA NextTyped == TInv /\ IInv /\ [Next]_vars => TInv'
<1> SUFFICES ASSUME TInv, IInv, [Next]_vars PROVE TInv'
  OBVIOUS
<1>0. /\ chan \in [Channels -> RowType] /\ origin \in [Ids -> Origins \cup {NoHome}]
      /\ affinity \in [channel : Channels, idx : Nat \ {0}] \cup {NoEntry}
      /\ begun \in 0..MaxCalls /\ edits \in 0..MaxEdits /\ CallsTyped
      /\ faults' \in 0..MaxFaults
  <2>1. faults' \in 0..MaxFaults
    BY FaultsFrame, RetryAssumption DEF TInv, TypeOK, QueryFails
  <2> QED  BY <2>1 DEF TInv, TypeOK, CallsTyped
<1>1. ASSUME NEW r \in Calls, BindResponsesState(r) PROVE TInv'
  <2>1. CallsTyped'
    BY <1>1, BindStepTyped
  <2>2. begun' \in 0..MaxCalls /\ UNCHANGED <<chan, origin, affinity, edits>>
    <3>1. begun < MaxCalls /\ begun' = begun + 1 /\ UNCHANGED <<chan, origin, affinity, edits>>
      BY <1>1 DEF BindResponsesState
    <3> QED  BY <1>0, <3>1, RetryAssumption
  <2> QED  BY <1>0, <2>1, <2>2 DEF TInv, TypeOK, CallsTyped
<1>2. ASSUME NEW r \in Calls,
             DistributeSpecific(r) \/ DistributeByChance(r) \/ DistributeByAffinity(r)
      PROVE  TInv'
  <2>1. CallsTyped'
    BY <1>2, ChoiceTyped
  <2>2. (affinity' = affinity \/ affinity' = NoEntry) /\ UNCHANGED <<chan, origin, begun, edits>>
    BY <1>2 DEF DistributeSpecific, DistributeByChance, DistributeByAffinity
  <2> QED  BY <1>0, <2>1, <2>2 DEF TInv, TypeOK, CallsTyped
<1>3. ASSUME NEW r \in Calls, Succeed(r) PROVE TInv'
  <2>1. UNCHANGED <<chan, begun, edits>>
    BY <1>3 DEF Succeed
  <2> QED  BY <1>0, <1>3, <2>1, SucceedTyped DEF TInv, TypeOK, CallsTyped
<1>4. ASSUME NEW r \in Calls, Fail(r) PROVE TInv'
  <2>1. UNCHANGED <<chan, affinity, begun, edits>>
    BY <1>4 DEF Fail
  <2> QED  BY <1>0, <1>4, <2>1, FailTyped DEF TInv, TypeOK, CallsTyped
<1>5. ASSUME NEW r \in Calls,
             \/ Stop(r) \/ WaitRetryAfter(r) \/ AfterRetryAfter(r) \/ WriteLastFailureResponse(r)
             \/ selectRetryChannel(r) \/ SelectAgain(r)
      PROVE  TInv'
  <2>1. CallsTyped'
    BY <1>5, LoopTyped, RetryTyped
  <2>2. UNCHANGED <<chan, origin, affinity, begun, edits>>
    BY <1>5 DEF Stop, WaitRetryAfter, AfterRetryAfter, WriteLastFailureResponse, selectRetryChannel,
                SelectAgain
  <2> QED  BY <1>0, <2>1, <2>2 DEF TInv, TypeOK, CallsTyped
<1>6. ASSUME NEW c \in Channels, EditChannel(c) \/ DisableChannel(c) PROVE TInv'
  <2>1. chan' \in [Channels -> RowType]
    BY <1>6, RowsTyped
  <2>2. edits' \in 0..MaxEdits /\ UNCHANGED <<origin, affinity, call, begun>>
    BY <1>0, <1>6, RetryAssumption DEF EditChannel, DisableChannel
  <2>3. CallsTyped'
    BY <1>0, <2>2 DEF CallsTyped, CallTyped
  <2> QED  BY <1>0, <2>1, <2>2, <2>3 DEF TInv, TypeOK, CallsTyped
<1>7. ASSUME NEW id \in Ids, ForgetOrigin(id) PROVE TInv'
  <2>1. origin' \in [Ids -> Origins \cup {NoHome}] /\ UNCHANGED <<chan, affinity, call, begun, edits>>
    BY <1>0, <1>7 DEF ForgetOrigin
  <2>2. CallsTyped'
    BY <1>0, <2>1 DEF CallsTyped, CallTyped
  <2> QED  BY <1>0, <2>1, <2>2 DEF TInv, TypeOK, CallsTyped
<1>8. CASE UNCHANGED vars
  <2>1. UNCHANGED <<chan, origin, affinity, call, begun, edits>>
    BY <1>8 DEF vars
  <2>2. CallsTyped'
    BY <1>0, <2>1 DEF CallsTyped, CallTyped
  <2> QED  BY <1>0, <2>1, <2>2 DEF TInv, TypeOK, CallsTyped
<1> QED  BY <1>1, <1>2, <1>3, <1>4, <1>5, <1>6, <1>7, <1>8 DEF Next

LEMMA InitTyped == Init => TInv
<1> SUFFICES ASSUME Init PROVE TInv
  OBVIOUS
<1>1. \A r \in Calls : CallTyped(call[r])
  BY IdleTyped DEF Init
<1>2. call \in [Calls -> CallType]
  BY IdleTyped DEF Init, CallTyped
<1> QED  BY <1>1, <1>2, RetryAssumption DEF Init, TInv, TypeOK

LEMMA TInvHolds == Spec => []TInv
  BY InitTyped, NextTyped, IInvHolds, PTL DEF Spec

\* Every variable keeps its type, whatever administrators, histories and upstreams do.
THEOREM ServingTypeCorrect == Spec => []TypeOK
<1>1. TInv => TypeOK
  BY DEF TInv
<1> QED  BY <1>1, TInvHolds, PTL

\* What a history is bound to is a function of the set of its references.
THEOREM BindIgnoresOrderHolds == Spec => []BindIgnoresOrder
<1>1. TInv => BindIgnoresOrder
  BY HomesTyped, BindOrderFree
<1> QED  BY <1>1, TInvHolds, PTL

-----------------------------------------------------------------------------
(* StreamScanner. *)

\* Every reachable state is well typed, except for the bound of stopChan,
\* which SentOnce gives.
ScannerTyped ==
    /\ main \in {"waiting", "cancelling", "signalling", "closing", "joining", "returned"}
    /\ scanner \in {"scanning", "checking", "handling", "leaving", "signalled", "done"}
    /\ line \in 0..Lines
    /\ handler \in [Number -> {"none", "locking", "running", "ok", "refused"}]
    /\ ping \in {"listening", "pinging", "done"}
    /\ writer \in {"none", "locking", "writing"}
    /\ mutex \in {"free", "handler", "writer"}
    /\ stop \in Nat /\ pings \in 0..MaxPings
    /\ body \in {"open", "ended", "closed"}

Flags == scannerDone \in BOOLEAN /\ cancelled \in BOOLEAN /\ clientGone \in BOOLEAN

\* Values the scanner and the request have sent.
SentByScanner == IF scanner \in {"signalled", "done"} THEN 1 ELSE 0
SentByMain == IF main \in {"closing", "joining", "returned"} THEN 1 ELSE 0

\* Each of the two senders sends once.
SentOnce == stop <= SentByScanner + SentByMain

\* What is known of the lines before, at and after the scanner's.
LinesInv ==
    /\ \A i \in Number : i < line => handler[i] = "ok"
    /\ \A i \in Number : i > line => handler[i] = "none"
    /\ scanner = "scanning" /\ line \in Number => handler[line] = "ok"
    /\ scanner = "checking" => line \in Number /\ handler[line] = "none"
    /\ scanner = "handling" => line \in Number

\* Whoever writes holds the mutex.
WritersInv ==
    /\ \A i \in Number : handler[i] = "running" => mutex = "handler"
    /\ writer = "writing" => mutex = "writer"

ScannerInv == ScannerTyped /\ Flags /\ SentOnce /\ LinesInv /\ WritersInv

LEMMA ScannerInvInit == ScannerInit => ScannerInv
<1> SUFFICES ASSUME ScannerInit PROVE ScannerInv
  OBVIOUS
<1>1. ScannerTyped  BY StreamScannerAssumption DEF ScannerInit, ScannerTyped, Number
<1>f. Flags  BY DEF ScannerInit, Flags
<1>2. SentOnce  BY DEF ScannerInit, SentOnce, SentByScanner, SentByMain
<1>3. LinesInv  <2>1. \A i \in Number : i > 0 /\ handler[i] = "none"
    BY StreamScannerAssumption DEF ScannerInit, Number
  <2> QED  BY <2>1, StreamScannerAssumption DEF ScannerInit, LinesInv, Number
<1>4. WritersInv  BY DEF ScannerInit, WritersInv
<1> QED  BY <1>1, <1>f, <1>2, <1>3, <1>4 DEF ScannerInv

\* The flags are only ever raised.
LEMMA FlagsNext == Flags /\ [ScannerNext]_scannerVars => Flags'
<1> SUFFICES ASSUME Flags, [ScannerNext]_scannerVars PROVE Flags'
  OBVIOUS
<1> USE DEF Flags, mainVars
<1>1. CASE ScannerStep
  BY <1>1, Zenon DEF ScannerStep, ScanEnds, CheckStops, CheckPasses, HandlerAnswers,
     HandlerGivenUp, HandlerStopped, ScannerSignals, ScannerCloses
<1>2. CASE MainStep \/ TimesOut \/ JoinTimesOut
  BY <1>2, Zenon DEF MainStep, Wakes, Cancels, Signals, Closes, Joins, TimesOut, JoinTimesOut
<1>3. CASE ClientLeaves \/ UpstreamEnds \/ ScanLine
  BY <1>3, Zenon DEF ClientLeaves, UpstreamEnds, ScanLine
<1>4. ASSUME NEW i \in Number, HandlerLocks(i) \/ HandlerReturns(i) PROVE Flags'
  BY <1>4, Zenon DEF HandlerLocks, HandlerReturns
<1>5. CASE PingTicks \/ WriterLocks \/ WriterReturns \/ PingSent \/ PingStops \/ PingTimesOut
  BY <1>5, Zenon DEF PingTicks, WriterLocks, WriterReturns, PingSent, PingStops, PingTimesOut
<1>6. CASE Done \/ UNCHANGED scannerVars
  BY <1>6, Zenon DEF Done, scannerVars
<1> QED  BY <1>1, <1>2, <1>3, <1>4, <1>5, <1>6 DEF ScannerNext

\* One case for every goroutine; only the scanner and the handlers disturb
\* LinesInv, only the senders SentOnce.
LEMMA ScannerInvNext == ScannerInv /\ [ScannerNext]_scannerVars => ScannerInv'
<1> SUFFICES ASSUME ScannerInv, [ScannerNext]_scannerVars PROVE ScannerInv'
  OBVIOUS
<1>f. Flags'  BY FlagsNext DEF ScannerInv
<1> USE StreamScannerAssumption DEF ScannerInv, mainVars
<1>1. CASE ScanLine
  <2>1. ScannerTyped'  BY <1>1 DEF ScanLine, ScannerTyped
  <2>2. SentOnce'  BY <1>1 DEF ScanLine, SentOnce, SentByScanner, SentByMain, ScannerTyped
  <2>3. LinesInv'  BY <1>1 DEF ScanLine, LinesInv, ScannerTyped, Number
  <2>4. WritersInv'  BY <1>1 DEF ScanLine, WritersInv
  <2> QED  BY <1>f, <2>1, <2>2, <2>3, <2>4
<1>2. CASE CheckPasses
  <2>1. ScannerTyped'  BY <1>2 DEF CheckPasses, ScannerTyped, LinesInv
  <2>2. SentOnce'  BY <1>2 DEF CheckPasses, SentOnce, SentByScanner, SentByMain, ScannerTyped
  <2>3. LinesInv'  BY <1>2 DEF CheckPasses, LinesInv, ScannerTyped, Number
  <2>4. WritersInv'  BY <1>2 DEF CheckPasses, WritersInv, ScannerTyped, LinesInv
  <2> QED  BY <1>f, <2>1, <2>2, <2>3, <2>4
<1>3. CASE ScanEnds \/ CheckStops \/ HandlerGivenUp \/ HandlerStopped \/ HandlerAnswers
  <2> USE <1>3 DEF ScanEnds, CheckStops, HandlerGivenUp, HandlerStopped, HandlerAnswers,
                   Receive, ScannerTyped
  <2>1. ScannerTyped'  OBVIOUS
  <2>2. SentOnce'  BY DEF SentOnce, SentByScanner, SentByMain
  <2>3. LinesInv'  BY DEF LinesInv, Number
  <2>4. WritersInv'  BY DEF WritersInv
  <2> QED  BY <1>f, <2>1, <2>2, <2>3, <2>4
<1>4. CASE ScannerSignals \/ ScannerCloses
  <2> USE <1>4 DEF ScannerSignals, ScannerCloses, Send, Buffer, ScannerTyped
  <2>1. ScannerTyped'  OBVIOUS
  <2>2. SentOnce'  BY DEF SentOnce, SentByScanner, SentByMain
  <2>3. LinesInv'  BY DEF LinesInv, Number
  <2>4. WritersInv'  BY DEF WritersInv
  <2> QED  BY <1>f, <2>1, <2>2, <2>3, <2>4
<1>5. ASSUME NEW i \in Number, HandlerLocks(i) PROVE ScannerInv'
  <2> USE <1>5 DEF HandlerLocks, ScannerTyped
  <2>1. ScannerTyped'  OBVIOUS
  <2>2. SentOnce'  BY DEF SentOnce, SentByScanner, SentByMain
  <2>3. i = line  BY DEF LinesInv, Number
  <2>4. LinesInv'  BY <2>3 DEF LinesInv, Number
  <2>5. WritersInv'  BY DEF WritersInv
  <2> QED  BY <1>f, <2>1, <2>2, <2>4, <2>5
<1>6. ASSUME NEW i \in Number, HandlerReturns(i) PROVE ScannerInv'
  <2> USE <1>6 DEF HandlerReturns, ScannerTyped
  <2>1. ScannerTyped'  OBVIOUS
  <2>2. SentOnce'  BY DEF SentOnce, SentByScanner, SentByMain
  <2>3. i = line  BY DEF LinesInv, Number
  <2>4. LinesInv'  BY <2>3 DEF LinesInv, Number
  <2>5. \A j \in Number : handler'[j] # "running"
    <3>1. \A j \in Number : j # line => handler[j] # "running"  BY DEF LinesInv, Number
    <3> QED  BY <2>3, <3>1
  <2>6. WritersInv'  BY <2>5 DEF WritersInv
  <2> QED  BY <1>f, <2>1, <2>2, <2>4, <2>6
<1>7. CASE PingTicks \/ WriterLocks \/ WriterReturns \/ PingSent \/ PingStops \/ PingTimesOut
  <2> USE <1>7 DEF PingTicks, WriterLocks, WriterReturns, PingSent, PingStops,
                   PingTimesOut, Receive, ScannerTyped
  <2>1. ScannerTyped'  OBVIOUS
  <2>2. SentOnce'  BY DEF SentOnce, SentByScanner, SentByMain
  <2>3. LinesInv'  BY DEF LinesInv, Number
  <2>4. WritersInv'  BY DEF WritersInv
  <2> QED  BY <1>f, <2>1, <2>2, <2>3, <2>4
<1>8. CASE MainStep \/ TimesOut \/ JoinTimesOut \/ ClientLeaves \/ UpstreamEnds
  <2> USE <1>8 DEF MainStep, Wakes, Woken, Cancels, Signals, Closes, Joins, TimesOut,
                   JoinTimesOut, ClientLeaves, UpstreamEnds, Send, Buffer, Receive, ScannerTyped
  <2>1. ScannerTyped'  OBVIOUS
  <2>2. SentOnce'  BY DEF SentOnce, SentByScanner, SentByMain
  <2>3. LinesInv'  BY DEF LinesInv, Number
  <2>4. WritersInv'  BY DEF WritersInv
  <2> QED  BY <1>f, <2>1, <2>2, <2>3, <2>4
<1>9. CASE Done \/ UNCHANGED scannerVars
  <2> USE <1>9 DEF Done, scannerVars
  <2>1. ScannerTyped' /\ SentOnce'  BY DEF ScannerTyped, SentOnce, SentByScanner, SentByMain
  <2>2. LinesInv' /\ WritersInv'  BY DEF LinesInv, WritersInv
  <2> QED  BY <1>f, <2>1, <2>2
<1> QED  BY <1>1, <1>2, <1>3, <1>4, <1>5, <1>6, <1>7, <1>8, <1>9 DEF ScannerNext, ScannerStep

LEMMA ScannerInvAlways == ScannerSpec => []ScannerInv
<1>1. QED  BY ScannerInvInit, ScannerInvNext, PTL DEF ScannerSpec

\* Every reachable state is well typed, however many lines and pings there are.
THEOREM ScannerTypeCorrect == ScannerSpec => []ScannerTypeOK
<1>1. ScannerInv => ScannerTypeOK
  BY DEF ScannerInv, ScannerTyped, Flags, SentOnce, SentByScanner, SentByMain, ScannerTypeOK
<1> QED  BY <1>1, ScannerInvAlways, PTL

\* A line is handled only after every earlier line was accepted, whatever
\* timers fire (the scanner loop of StreamScannerHandler).
THEOREM LinesInTurnCorrect == ScannerSpec => []LinesInTurn
<1>1. ScannerInv => LinesInTurn
  BY StreamScannerAssumption DEF ScannerInv, LinesInv, LinesInTurn, ScannerTyped, Number
<1> QED  BY <1>1, ScannerInvAlways, PTL

\* Data handlers and pings never write the response at the same time, also
\* when their starter has given them up (writeMutex).
THEOREM OneWriterCorrect == ScannerSpec => []OneWriter
<1>1. ScannerInv => OneWriter
  <2> SUFFICES ASSUME ScannerInv PROVE OneWriter
    OBVIOUS
  <2>1. \A i \in Number : i # line => handler[i] # "running"
    BY StreamScannerAssumption DEF ScannerInv, LinesInv, ScannerTyped, Number
  <2> QED  BY <2>1 DEF ScannerInv, WritersInv, OneWriter
<1> QED  BY <1>1, ScannerInvAlways, PTL

\* The room in stopChan is enough for everybody who may send to it.
THEOREM StopHasRoomCorrect == ScannerSpec => []StopHasRoom
<1>1. ScannerInv => StopHasRoom
  BY DEF ScannerInv, ScannerTyped, SentOnce, SentByScanner, SentByMain, StopHasRoom, Buffer
<1> QED  BY <1>1, ScannerInvAlways, PTL
=============================================================================
