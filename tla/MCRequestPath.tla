---------------------------- MODULE MCRequestPath ----------------------------
(* One instance for TLC of two components that share no state: the provider  *)
(* client with its circuit breaker, and the response caches in front of it.  *)
(* The first state chooses which of them runs; the other stays as it is.     *)
EXTENDS LLMClient, ResponseCache

VARIABLE part

\* The second model is the first one's only fallback.
MCChain == [m1 |-> <<"m2">>, m2 |-> <<>>]

allVars == <<part, vars, cacheVars>>

MCInit ==
    /\ part \in {"client", "cache"}
    /\ Init
    /\ CacheInit /\ target = "m1"

\* Requests are interchangeable, and so are options: the first to come is q1,
\* and its options are o1.  The alias moves once, and neither it nor the
\* access changes when nobody will read it any more.
MCBounds ==
    /\ serving'["q1"] = Unasked => serving'["q2"] = Unasked
    /\ "key" \in DOMAIN serving'["q1"] => serving'["q1"].key.options = "o1"
    /\ target # "m1" \/ serving["q2"] # Unasked => UNCHANGED target
    /\ serving["q2"] # Unasked /\ (\A r \in Jobs : ~At(r, "fallback")) => UNCHANGED denied

MCNext ==
    /\ UNCHANGED part
    /\ \/ part = "client" /\ Next /\ UNCHANGED cacheVars
       \/ part = "cache" /\ CacheNext /\ MCBounds /\ UNCHANGED vars

\* Each component is scheduled as its own specification says.
MCFairness ==
    \/ part = "client" /\ ClientFairness
    \/ part = "cache" /\ CacheFairness

MCSpec == MCInit /\ [][MCNext]_allVars /\ MCFairness
=============================================================================
