----------------------------- MODULE MCCallQuota ------------------------------
(* Small instances of CallQuota for TLC. *)
EXTENDS CallQuota, TLC

CONSTANTS c1, c2

Setup(config, k1, k2) ==
    [batch |-> config = "batch", redis |-> config = "redis", unlimited |-> config = "unlimited",
     kind |-> (c1 :> k1) @@ (c2 :> k2)]

SmallSetups ==
    {Setup("batch", "chat", "native"), Setup("redis", "chat", "audio"),
     Setup("redis", "image", "native"), Setup("unlimited", "audio", "image"),
     Setup("plain", "image", "gemini"), Setup("plain", "stream", "chat")}

AudioSetups == {Setup("plain", "audio", "native")}
=============================================================================
