---------------------------- MODULE ResponseCache ----------------------------
(***************************************************************************)
(* A translated chat or responses request on its way through the exact and *)
(* the semantic response cache (internal/responsecache), the budget check, *)
(* the resolved model and its fallbacks (internal/gateway), and what it    *)
(* leaves in the caches.  The exact cache is written through CacheWriter,  *)
(* whose jobs are the requests; the semantic one by a goroutine of its own *)
(* per answer.                                                             *)
(*                                                                         *)
(* A request is a text for a model with options: those are the parameters  *)
(* that computeParamsHash leaves out (tool_choice, stop, n, seed, ...), so *)
(* the exact key has them and the semantic key has not; the parameters of  *)
(* both keys are left out here.  Texts are similar when the embedder says  *)
(* so, which it may of any two.  An expired entry is a miss, and a miss is *)
(* always possible.                                                        *)
(***************************************************************************)
EXTENDS CacheWriter

CONSTANTS
    Texts,
    Models,
    Options,
    Translated,      \* models whose streams a converter translates
    FallbackChain    \* what the fallback resolver returns for each model

ASSUME TranslatedAssumption == Translated \subseteq Models
ASSUME ChainAssumption == FallbackChain \in [Models -> Seq(Models)]

VARIABLES
    target,      \* the model that the requested name resolves to
    denied,      \* models the caller may not use
    serving,     \* per request: where it is, and what was settled about it
    answer,      \* per request: the answer it got
    exact,       \* the exact cache
    semantic,    \* the vector store
    inserting,   \* requests whose Insert goroutine runs
    semanticOpen

servingVars == <<serving, answer>>
adminVars == <<target, denied>>
semanticVars == <<semantic, inserting, semanticOpen>>
cacheVars == <<adminVars, servingVars, exact, semanticVars, writerVars>>

Layers == {"exact", "semantic"}
Keys == [text : Texts, model : Models, options : Options]
SemanticKeys == [text : Texts, model : Models]
SemanticKey(key) == [text |-> key.text, model |-> key.model]
\* whole: nothing of the model's answer is missing; done: it is JSON, or a
\* stream of JSON events up to a final [DONE].
ModelAnswers == [by : Models, options : Options, whole : BOOLEAN, done : BOOLEAN]
NoAnswer == [done |-> FALSE]
Served ==
    [at : {"exact", "semantic", "dispatch", "fallback", "capture"},
     key : Keys, layers : SUBSET Layers, left : Seq(Models), fallback : BOOLEAN]
Replayed == [at : {"hit"}, key : Keys, from : Layers]
Remembered == [at : {"done"}, key : Keys]
Unasked == [at |-> "idle"]
Over == [at |-> "ended"]

CacheInit ==
    /\ WriterInit
    /\ target \in Models
    /\ denied = {}
    /\ serving = [r \in Jobs |-> Unasked]
    /\ answer = [r \in Jobs |-> NoAnswer]
    /\ exact = [k \in Keys |-> NoAnswer]
    /\ semantic = [k \in SemanticKeys |-> NoAnswer]
    /\ inserting = {}
    /\ semanticOpen = TRUE

At(r, at) == serving[r].at = at
Moves(r, at) == serving' = [serving EXCEPT ![r].at = at]

-----------------------------------------------------------------------------
(* Preparation, and the two lookups of HandleRequest *)

\* The name is resolved and access to the model is checked before any cache
\* is asked.  Headers, the workflow and the configuration decide the layers.
Prepare(r) ==
    /\ At(r, "idle")
    /\ target \notin denied
    /\ \E key \in Keys, layers \in SUBSET Layers :
         /\ key.model = target
         /\ serving' = [serving EXCEPT ![r] =
                         [at |-> "exact", key |-> key, layers |-> layers,
                          left |-> <<>>, fallback |-> FALSE]]
    /\ UNCHANGED <<adminVars, answer, exact, semanticVars, writerVars>>

Replay(r, cached, layer) ==
    /\ cached # NoAnswer
    /\ answer' = [answer EXCEPT ![r] = cached]
    /\ serving' = [serving EXCEPT ![r] = [at |-> "hit", key |-> serving[r].key, from |-> layer]]
    /\ UNCHANGED <<adminVars, exact, semanticVars, writerVars>>

HitExact(r) ==
    /\ At(r, "exact") /\ "exact" \in serving[r].layers
    /\ closing # "closed"
    /\ Replay(r, exact[serving[r].key], "exact")

\* A miss, a failed Get, or a request that skips the layer.
MissExact(r) ==
    /\ At(r, "exact")
    /\ Moves(r, "semantic")
    /\ UNCHANGED <<adminVars, answer, exact, semanticVars, writerVars>>

\* The nearest entry with the same parameters hash, if it is near enough.
HitSemantic(r) ==
    /\ At(r, "semantic") /\ "semantic" \in serving[r].layers
    /\ semanticOpen
    /\ \E near \in SemanticKeys :
         /\ near.model = serving[r].key.model
         /\ Replay(r, semantic[near], "semantic")

MissSemantic(r) ==
    /\ At(r, "semantic")
    /\ Moves(r, "dispatch")
    /\ UNCHANGED <<adminVars, answer, exact, semanticVars, writerVars>>

\* Embed or Search failed: the answer will not be inserted either.
BypassSemantic(r) ==
    /\ At(r, "semantic") /\ "semantic" \in serving[r].layers
    /\ serving' = [serving EXCEPT ![r].at = "dispatch", ![r].layers = @ \ {"semantic"}]
    /\ UNCHANGED <<adminVars, answer, exact, semanticVars, writerVars>>

-----------------------------------------------------------------------------
(* The dispatch: the budget, the resolved model, its fallbacks *)

Fails(r) ==
    /\ serving' = [serving EXCEPT ![r] = Over]
    /\ UNCHANGED <<adminVars, answer, exact, semanticVars, writerVars>>

\* A stream may break after its first bytes went to the client.  Then it has
\* no [DONE], unless it is a converter's: that writes [DONE] wherever the
\* provider's own stream ends without a read error.
AnsweredBy(r, model) ==
    /\ \E whole, done \in BOOLEAN :
         /\ whole => done
         /\ done => whole \/ model \in Translated
         /\ answer' = [answer EXCEPT ![r] =
                        [by |-> model, options |-> serving[r].key.options,
                         whole |-> whole, done |-> done]]
    /\ UNCHANGED <<adminVars, exact, semanticVars, writerVars>>

PrimaryAnswers(r) ==
    /\ At(r, "dispatch")
    /\ Moves(r, "capture")
    /\ AnsweredBy(r, serving[r].key.model)

\* An error that ShouldAttemptFallback accepts.
PrimaryUnavailable(r) ==
    /\ At(r, "dispatch")
    /\ serving' = [serving EXCEPT ![r].at = "fallback", ![r].left = FallbackChain[serving[r].key.model]]
    /\ UNCHANGED <<adminVars, answer, exact, semanticVars, writerVars>>

\* The budget is spent, or the error is not one that a fallback may answer.
PrimaryRefuses(r) == At(r, "dispatch") /\ Fails(r)

\* The next fallback is skipped when the caller may not use it, or fails.
FallbackPassed(r) ==
    /\ At(r, "fallback") /\ serving[r].left # <<>>
    /\ serving' = [serving EXCEPT ![r].left = Tail(@)]
    /\ UNCHANGED <<adminVars, answer, exact, semanticVars, writerVars>>

\* Bug: the request is not marked.
FallbackUnmarked(r) ==
    /\ At(r, "fallback") /\ serving[r].left # <<>>
    /\ Head(serving[r].left) \notin denied
    /\ Moves(r, "capture")
    /\ AnsweredBy(r, Head(serving[r].left))

FallbackAnswers(r) ==
    /\ At(r, "fallback") /\ serving[r].left # <<>>
    /\ Head(serving[r].left) \notin denied
    /\ serving' = [serving EXCEPT ![r].at = "capture", ![r].fallback = TRUE]
    /\ AnsweredBy(r, Head(serving[r].left))

FallbacksSpent(r) == At(r, "fallback") /\ serving[r].left = <<>> /\ Fails(r)

-----------------------------------------------------------------------------
(* captureResponseForCache and the two writes *)

\* cachedBody, and the mark of a fallback: what it asks of a stream is that
\* it is framed, JSON and [DONE], not that it is whole.
Cacheable(r) == answer[r].done /\ ~serving[r].fallback

Offers(r) == At(r, "capture") /\ Cacheable(r) /\ "exact" \in serving[r].layers

Enqueue(r) ==
    /\ Offers(r) /\ (Ask(r) \/ EnqueueStep(r))
    /\ UNCHANGED <<adminVars, servingVars, exact, semanticVars>>

\* The exact layer has its answer; the semantic layer inserts it.
Captured(r) ==
    /\ At(r, "capture") /\ Cacheable(r)
    /\ Offers(r) => enqueue[r] = "returned"
    /\ serving' = [serving EXCEPT ![r] = [at |-> "done", key |-> serving[r].key]]
    /\ inserting' = IF "semantic" \in serving[r].layers THEN inserting \cup {r} ELSE inserting
    /\ UNCHANGED <<adminVars, answer, exact, semantic, semanticOpen, writerVars>>

NotCaptured(r) ==
    /\ At(r, "capture") /\ ~Cacheable(r)
    /\ serving' = [serving EXCEPT ![r] = Over]
    /\ answer' = [answer EXCEPT ![r] = NoAnswer]
    /\ UNCHANGED <<adminVars, exact, semanticVars, writerVars>>

\* The store has the answer, or the worker logs that it has not.
StoreExact(w) ==
    /\ Set(w)
    /\ \/ exact' = [exact EXCEPT ![serving[worker[w].job].key] = answer[worker[w].job]]
       \/ UNCHANGED exact
    /\ UNCHANGED <<adminVars, servingVars, semanticVars>>

InsertSemantic(r) ==
    /\ r \in inserting
    /\ inserting' = inserting \ {r}
    /\ \/ semanticOpen /\ semantic' = [semantic EXCEPT ![SemanticKey(serving[r].key)] = answer[r]]
       \/ UNCHANGED semantic
    /\ UNCHANGED <<adminVars, servingVars, exact, semanticOpen, writerVars>>

\* ResponseCacheMiddleware.Close: the exact cache, then the semantic one.
CloseSemantic ==
    /\ closing = "closed" /\ semanticOpen
    /\ inserting = {}
    /\ semanticOpen' = FALSE
    /\ UNCHANGED <<adminVars, servingVars, exact, semantic, inserting, writerVars>>

-----------------------------------------------------------------------------
\* An alias is pointed at another model, or access to a model is withdrawn
\* (from one model at most).
Retarget ==
    /\ target' \in Models \ {target}
    /\ UNCHANGED <<denied, servingVars, exact, semanticVars, writerVars>>

Deny ==
    /\ denied = {}
    /\ \E m \in Models : denied' = {m}
    /\ UNCHANGED <<target, servingVars, exact, semanticVars, writerVars>>

Handle(r) ==
    \/ HitExact(r) \/ MissExact(r) \/ HitSemantic(r) \/ MissSemantic(r) \/ BypassSemantic(r)
    \/ PrimaryAnswers(r) \/ PrimaryUnavailable(r) \/ PrimaryRefuses(r)
    \/ FallbackPassed(r) \/ FallbackAnswers(r) \/ FallbacksSpent(r)
    \/ Enqueue(r) \/ Captured(r) \/ NotCaptured(r)

Background(w) == WorkerStep(w) /\ UNCHANGED <<adminVars, servingVars, exact, semanticVars>>
Closes == (AskClose \/ CloseStep) /\ UNCHANGED <<adminVars, servingVars, exact, semanticVars>>

CacheNext ==
    \/ \E r \in Jobs : Prepare(r) \/ Handle(r) \/ InsertSemantic(r)
    \/ \E w \in Workers : StoreExact(w) \/ Background(w)
    \/ Closes \/ CloseSemantic
    \/ Retarget \/ Deny

\* Goroutines that can run do, and Set and Insert return (both have five
\* seconds).  Requests need not arrive, and close need not be called.
CacheFairness ==
    /\ \A r \in Jobs :
         /\ WF_cacheVars(Enqueue(r))
         /\ WF_cacheVars(InsertSemantic(r))
    /\ \A w \in Workers : WF_cacheVars(StoreExact(w) \/ Background(w))
    /\ WF_cacheVars(closing # "idle" /\ Closes)
    /\ WF_cacheVars(CloseSemantic)

CacheSpec == CacheInit /\ [][CacheNext]_cacheVars /\ CacheFairness

-----------------------------------------------------------------------------
CacheTypeOK ==
    /\ WriterTypeOK
    /\ target \in Models /\ denied \in SUBSET Models
    /\ serving \in [Jobs -> Served \cup Replayed \cup Remembered \cup {Unasked, Over}]
    /\ answer \in [Jobs -> ModelAnswers \cup {NoAnswer}]
    /\ exact \in [Keys -> ModelAnswers \cup {NoAnswer}]
    /\ semantic \in [SemanticKeys -> ModelAnswers \cup {NoAnswer}]
    /\ inserting \in SUBSET Jobs
    /\ semanticOpen \in BOOLEAN

\* What either cache replays to a request is an answer of the model that this
\* request was resolved to, ended as such an answer ends: no fallback's answer,
\* nothing from before an alias was moved, and no broken stream of a model
\* whose stream reaches the client as it is.  A broken stream to which a
\* converter gave its [DONE] may be replayed.  The exact cache has answered
\* the request's own options; the semantic one may have answered others.
HitsAreGenuine ==
    \A r \in Jobs : At(r, "hit") =>
        /\ answer[r].done
        /\ answer[r].by = serving[r].key.model
        /\ answer[r].whole \/ answer[r].by \in Translated
        /\ serving[r].from = "exact" => answer[r].options = serving[r].key.options

\* Its inductive strengthening: what is stored, or on its way to a store, is
\* such an answer of the model in its key, to the options in an exact key.
Genuine(a, model) == a.done /\ a.by = model /\ (a.whole \/ a.by \in Translated)
GenuineExact(a, k) == Genuine(a, k.model) /\ a.options = k.options
OwnAnswer(a, s) ==
    /\ a \in ModelAnswers /\ a.options = s.key.options
    /\ a.done => a.whole \/ a.by \in Translated
    /\ s.fallback \/ a.by = s.key.model
ReplayedAnswer(a, s) ==
    /\ Genuine(a, s.key.model)
    /\ s.from = "exact" => GenuineExact(a, s.key)
GenuineInv ==
    /\ serving \in [Jobs -> Served \cup Replayed \cup Remembered \cup {Unasked, Over}]
    /\ answer \in [Jobs -> ModelAnswers \cup {NoAnswer}]
    /\ exact \in [Keys -> ModelAnswers \cup {NoAnswer}]
    /\ semantic \in [SemanticKeys -> ModelAnswers \cup {NoAnswer}]
    /\ \A k \in Keys : exact[k] # NoAnswer => GenuineExact(exact[k], k)
    /\ \A k \in SemanticKeys : semantic[k] # NoAnswer => Genuine(semantic[k], k.model)
    /\ \A r \in Jobs : At(r, "capture") => OwnAnswer(answer[r], serving[r])
    /\ \A r \in Jobs : At(r, "hit") => ReplayedAnswer(answer[r], serving[r])
    /\ \A r \in Jobs : At(r, "done") => GenuineExact(answer[r], serving[r].key)
    /\ \A r \in Jobs : enqueue[r] # "idle" =>
         At(r, "done") \/ (At(r, "capture") /\ ~serving[r].fallback
                              /\ GenuineExact(answer[r], serving[r].key))
    /\ inserting \subseteq {r \in Jobs : At(r, "done")}

\* A shutdown gets through: the exact cache and the semantic one are closed,
\* whatever handlers were left behind by the deadline.
CachesClose == closing = "asked" ~> ~semanticOpen
=============================================================================
