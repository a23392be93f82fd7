---------------------------- MODULE MCChannelRetry ----------------------------
(* Small instances of ChannelRetry for TLC. *)
EXTENDS ChannelRetry, TLC

CONSTANTS c1, c2, c3, k1, k2, x, y, r1

Row(enabled, provider, keys) == [enabled |-> enabled, provider |-> provider, keys |-> keys]

\* A key put in front of the first, and a provider filled in or changed.
SmallRows == {Row(TRUE, "p", <<k2, k1>>)}

\* All of one provider; some without one and one without an enabled key.
SmallStart ==
    {[c \in Channels |-> IF c = c2 THEN Row(TRUE, "p", <<k2, k1>>) ELSE Row(TRUE, "p", <<k1>>)],
     [c \in Channels |-> IF c = c2 THEN Row(TRUE, "q", <<Off>>) ELSE Row(TRUE, "", <<k1>>)]}

SmallPriority == [c \in Channels |-> IF c = c3 THEN 0 ELSE 1]

\* x lives at the upstream, y is a ciphertext a client can carry elsewhere.
SmallHistories == {<<>>, <<x>>, <<y>>, <<x, y>>, <<y, x>>}

\* Several of the loops are the same.
EveryLoop ==
    {Relay, RelayClaude, RelayGemini, RelayResponse, RelayVideoGenerate, RelayRecraft,
     RelayImageGenerateAsync, RelayRunway, RelaySoraVideo, RelaySoraCharacter,
     relayXaiVideoWithRetry}

\* Bound: what follows a call that left an origin is another Responses call; the other
\* handlers neither read origins nor write them.
OriginsAreRead ==
    \A r \in Calls : (\E id \in Ids : Known(id)) /\ call[r].pc # "ended" => call[r].loop.stateful
=============================================================================
