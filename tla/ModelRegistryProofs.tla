------------------------ MODULE ModelRegistryProofs ------------------------
(***************************************************************************)
(* The registry for any providers, models, lists and any number of         *)
(* refreshes and restarts.  One inductive invariant holds the refresh      *)
(* semaphore, what a goroutine has fetched and not yet applied, the list   *)
(* an initial metadata fetch has set and not yet enriched with, and the    *)
(* four properties of the tables.  The cache at rest has one of its own:   *)
(* every change is followed by a goroutine that saves it (SaveInv).        *)
(***************************************************************************)
EXTENDS ModelRegistry, TLAPS

\* What a goroutine is about to apply: for a full refresh it covers every
\* provider and has a model; its entries belong to providers that gave an
\* inventory and carry the list that was in force when it was enriched.
FetchedOK ==
    \A t \in Tasks : pc[t] = "apply" =>
        /\ t # "request" => /\ fetched[t].of = Providers
                            /\ fetched[t].entries # {}
        /\ \A e \in fetched[t].entries :
            /\ e.list = fetched[t].list
            /\ e.provider \in fetched[t].of
            /\ e.provider \notin Failed(fetched[t])

\* A list is never replaced by none.
ListOK ==
    \A t \in Tasks :
        /\ pc[t] \in {"install", "set"} => copy[t].list # 0
        /\ pc[t] = "enrich" => list # 0

\* NeverOverwritesNewer and EnrichedUnlessRaced for the goroutines by name.
NewestFetched == \A t \in Tasks : pc[t] = "apply" => t \notin overtaken

ListFollowed ==
    \/ \E t \in Tasks : pc[t] = "enrich"
    \/ \A e \in catalog : e.provider \notin stale => e.list = list

IInv ==
    /\ RegistryTypeOK
    /\ SemaphoreHeldInside
    /\ NewestFetched
    /\ FetchedOK
    /\ ListOK
    /\ RoutesAreFirst
    /\ OutageIsReported
    /\ ListFollowed

-----------------------------------------------------------------------------
(* Entries *)

LEMMA NobodyIsNoTask == Nobody \notin Tasks
BY RegistryAssumption DEF RegistryAssumption, Program, Nobody

LEMMA EnrichOne ==
    ASSUME NEW e \in Entry, NEW v
    PROVE  LET d == [e EXCEPT !.list = v]
           IN  /\ d.provider = e.provider /\ d.model = e.model /\ d.list = v
               /\ v \in 0..MaxList => d \in Entry
BY DEF Entry

\* Enriching changes no provider and no model.
LEMMA EnrichEntries ==
    ASSUME NEW S \in SUBSET Entry, NEW v \in 0..MaxList
    PROVE  /\ Enrich(S, v) \in SUBSET Entry
           /\ v # 0 => \A d \in Enrich(S, v) : d.list = v
           /\ \A p : Of(Enrich(S, v), p) = {} <=> Of(S, p) = {}
           /\ \A d \in Enrich(S, v) : \E e \in S : d.provider = e.provider
<1>1. CASE v = 0
  BY <1>1 DEF Enrich
<1>2. CASE v # 0
  <2>1. Enrich(S, v) = {[e EXCEPT !.list = v] : e \in S}
    BY <1>2 DEF Enrich
  <2>2. \A e \in S : LET d == [e EXCEPT !.list = v]
                     IN  /\ d.provider = e.provider /\ d.list = v
                         /\ d \in Entry /\ d \in Enrich(S, v)
    BY <2>1, EnrichOne
  <2>3. \A d \in Enrich(S, v) : \E e \in S : d = [e EXCEPT !.list = v]
    BY <2>1
  <2>4. \A d \in Enrich(S, v) : \E e \in S : d.provider = e.provider
    BY <2>2, <2>3
  <2>5. \A e \in S : \E d \in Enrich(S, v) : d.provider = e.provider
    BY <2>2
  <2>6. ASSUME NEW p
        PROVE  Of(Enrich(S, v), p) = {} <=> Of(S, p) = {}
    <3>1. Of(Enrich(S, v), p) = {} <=> \A d \in Enrich(S, v) : d.provider # p
      BY DEF Of
    <3>2. Of(S, p) = {} <=> \A e \in S : e.provider # p
      BY DEF Of
    <3> QED
      BY <2>4, <2>5, <3>1, <3>2
  <2> QED
    BY <2>2, <2>3, <2>4, <2>6
<1> QED
  BY <1>1, <1>2

\* Enriching the routes is routing the enriched models.
LEMMA EnrichFirst ==
    ASSUME NEW S \in SUBSET Entry, NEW v \in 0..MaxList
    PROVE  FirstOf(Enrich(S, v)) = Enrich(FirstOf(S), v)
<1>1. CASE v = 0
  BY <1>1 DEF Enrich
<1>2. CASE v # 0
  <2> DEFINE Set(e) == [e EXCEPT !.list = v]
  <2>1. \A e \in S : Set(e).provider = e.provider /\ Set(e).model = e.model
    BY EnrichOne
  <2>2. Enrich(S, v) = {Set(e) : e \in S} /\ Enrich(FirstOf(S), v) = {Set(e) : e \in FirstOf(S)}
    BY <1>2 DEF Enrich
  <2>3. FirstOf(S) \subseteq S
    BY DEF FirstOf
  <2> HIDE DEF Set
  <2>4. ASSUME NEW e \in S
        PROVE  Set(e) \in FirstOf(Enrich(S, v)) <=>
                 \A f \in S : f.model = e.model => Rank[e.provider] <= Rank[f.provider]
    BY <2>1, <2>2 DEF FirstOf
  <2>5. \A d \in FirstOf(Enrich(S, v)) : d \in Enrich(FirstOf(S), v)
    BY <2>2, <2>4 DEF FirstOf
  <2>6. \A d \in Enrich(FirstOf(S), v) : d \in FirstOf(Enrich(S, v))
    BY <2>2, <2>3, <2>4 DEF FirstOf
  <2> QED
    BY <2>5, <2>6
<1> QED
  BY <1>1, <1>2

LEMMA FirstEntries ==
    ASSUME NEW S \in SUBSET Entry
    PROVE  FirstOf(S) \in SUBSET Entry
BY DEF FirstOf

\* What providers answered, or the cache held, as entries without metadata.
LEMMA MergeEntries ==
    ASSUME NEW T \in SUBSET Providers, NEW o,
           \A p \in T : o[p].models \in SUBSET Models
    PROVE  /\ Merge(T, o) \in SUBSET Entry
           /\ \A e \in Merge(T, o) :
                /\ e.provider \in T /\ e.list = 0
                /\ Inventory(e.provider, o[e.provider]) # {}
<1>1. \A p \in T : Inventory(p, o[p]) \in SUBSET Models
  BY RegistryAssumption DEF RegistryAssumption, Inventory
<1>2. 0 \in 0..MaxList
  BY RegistryAssumption DEF RegistryAssumption
<1>3. SUFFICES ASSUME NEW e \in Merge(T, o)
               PROVE  /\ e \in Entry
                      /\ e.provider \in T /\ e.list = 0
                      /\ Inventory(e.provider, o[e.provider]) # {}
  OBVIOUS
<1>4. PICK p \in T : \E m \in Inventory(p, o[p]) :
        e = [provider |-> p, model |-> m, list |-> 0]
  BY DEF Merge, Plain
<1> QED
  BY <1>1, <1>2, <1>4 DEF Entry

\* What one sweep over the providers T fetches.
LEMMA FetchedEntries ==
    ASSUME NEW T \in SUBSET Providers, NEW o \in Answers(T),
           list \in 0..MaxList
    PROVE  LET f == FetchAll(T, o)
           IN  /\ f \in Inventories
               /\ f.of = T /\ f.list = list
               /\ \A e \in f.entries :
                    e.list = list /\ e.provider \in T /\ e.provider \notin Failed(f)
<1> DEFINE f == FetchAll(T, o)
<1>1. \A p \in T : o[p].models \in SUBSET Models
  BY RegistryAssumption DEF RegistryAssumption, Outcome, Answers
<1>2. /\ Merge(T, o) \in SUBSET Entry
      /\ \A e \in Merge(T, o) : /\ e.provider \in T /\ e.list = 0
                               /\ Inventory(e.provider, o[e.provider]) # {}
  BY <1>1, MergeEntries
<1>3. /\ f.entries = Enrich(Merge(T, o), list)
      /\ f.of = T /\ f.list = list
      /\ f.answered = {p \in T : ~Skipped(p) /\ o[p].ok}
  BY DEF FetchAll
<1>4. f \in Inventories
  <2>1. Enrich(Merge(T, o), list) \in SUBSET Entry
    BY <1>2, EnrichEntries
  <2> QED
    BY <2>1 DEF FetchAll, Inventories
<1>5. \A p \in Failed(f) : p \in T /\ Inventory(p, o[p]) = {}
  BY <1>3 DEF Failed, Inventory
<1> DEFINE M == Merge(T, o)
<1> HIDE DEF f, M
<1>6. /\ list # 0 => \A e \in Enrich(M, list) : e.list = list
      /\ \A e \in Enrich(M, list) : \E d \in M : e.provider = d.provider
  <2>1. M \in SUBSET Entry
    BY <1>2 DEF M
  <2> QED
    BY <2>1, EnrichEntries
<1>7. \A e \in f.entries : e.list = list
  <2>1. CASE list = 0
    BY <1>2, <1>3, <2>1 DEF Enrich
  <2>2. CASE list # 0
    BY <1>3, <1>6, <2>2 DEF M
  <2> QED
    BY <2>1, <2>2
<1>8. \A e \in f.entries : e.provider \in T /\ e.provider \notin Failed(f)
  BY <1>2, <1>3, <1>5, <1>6 DEF M
<1> QED
  BY <1>3, <1>4, <1>7, <1>8 DEF f

\* A provider that failed, or gave no model, has an error.
LEMMA FetchedErrors ==
    ASSUME NEW f, NEW p \in f.of, p \in Failed(f) \/ Of(f.entries, p) = {}
    PROVE  p \in Errors(f)
BY DEF Errors, Failed

-----------------------------------------------------------------------------
(* Steps of a program *)

LEMMA GoToStep ==
    ASSUME pc \in [Tasks -> Steps], NEW t \in Tasks, NEW j, GoTo(t, j)
    PROVE  /\ pc' \in [Tasks -> Steps]
           /\ pc'[t] \in {"idle", "acquire", "metaDownload", "copy"}
           /\ \A u \in Tasks \ {t} : pc'[u] = pc[u]
<1>1. FirstStep(t, j) \in {"idle", "acquire", "metaDownload", "copy"}
  BY DEF FirstStep
<1> QED
  BY <1>1 DEF GoTo, Steps

LEMMA StepStep ==
    ASSUME pc \in [Tasks -> Steps], NEW t \in Tasks, NEW s \in Steps, Step(t, s)
    PROVE  /\ pc' \in [Tasks -> Steps]
           /\ pc'[t] = s
           /\ \A u \in Tasks \ {t} : pc'[u] = pc[u]
BY DEF Step

\* A step outside the semaphore, one that takes it, and one that releases it.
LEMMA OutsideKeeps ==
    ASSUME RegistryTypeOK, SemaphoreHeldInside, NEW t \in Tasks,
           \A u \in Tasks \ {t} : pc'[u] = pc[u],
           sem' = sem,
           pc'[t] \in HeldInside <=> pc[t] \in HeldInside
    PROVE  SemaphoreHeldInside'
BY NobodyIsNoTask DEF RegistryTypeOK, SemaphoreHeldInside

LEMMA AcquireKeeps ==
    ASSUME RegistryTypeOK, SemaphoreHeldInside, NEW t \in Tasks,
           \A u \in Tasks \ {t} : pc'[u] = pc[u],
           sem = Nobody, sem' = t, pc'[t] \in HeldInside
    PROVE  SemaphoreHeldInside'
BY NobodyIsNoTask DEF RegistryTypeOK, SemaphoreHeldInside

LEMMA LeaveKeeps ==
    ASSUME RegistryTypeOK, SemaphoreHeldInside, NEW t \in Tasks,
           \A u \in Tasks \ {t} : pc'[u] = pc[u],
           pc[t] \in HeldInside, sem' = Nobody, pc'[t] \notin HeldInside
    PROVE  SemaphoreHeldInside'
BY NobodyIsNoTask DEF RegistryTypeOK, SemaphoreHeldInside

\* A step of t that leaves the tables alone and fetches nothing.
Quiet(t) ==
    /\ UNCHANGED <<catalog, routes, list, asked, errors, stale, overtaken>>
    /\ \A u \in Tasks \ {t} :
        pc'[u] = pc[u] /\ fetched'[u] = fetched[u] /\ copy'[u] = copy[u]
    /\ pc'[t] \notin {"apply", "install", "set", "enrich"}
    /\ pc[t] # "enrich"

LEMMA QuietKeeps ==
    ASSUME IInv, NEW t \in Tasks, Quiet(t)
    PROVE  /\ NewestFetched' /\ FetchedOK' /\ ListOK'
           /\ RoutesAreFirst' /\ OutageIsReported' /\ ListFollowed'
<1>1. NewestFetched'
  BY DEF IInv, NewestFetched, Quiet
<1>2. FetchedOK'
  BY DEF IInv, FetchedOK, Quiet, Failed
<1>3. ListOK'
  BY DEF IInv, ListOK, Quiet
<1>4. RoutesAreFirst'
  BY DEF IInv, RoutesAreFirst, Quiet, FirstOf
<1>5. OutageIsReported'
  BY DEF IInv, OutageIsReported, Quiet, Of
<1>6. ListFollowed'
  BY DEF IInv, ListFollowed, Quiet
<1> QED
  BY <1>1, <1>2, <1>3, <1>4, <1>5, <1>6

-----------------------------------------------------------------------------
(* Types *)

LEMMA SomeTypes ==
    /\ NoCopy \in Copies /\ Nothing \in Inventories
    /\ 0 \in 0..MaxList /\ 1 \in 1..MaxList
BY RegistryAssumption
DEF RegistryAssumption, NoCopy, ListCopy, Copies, Nothing, Inventories

LEMMA CurrentType ==
    ASSUME RegistryTypeOK
    PROVE  Current \in Copies
<1>1. Names(catalog) \in SUBSET Name
  BY DEF RegistryTypeOK, Names, Entry, Name
<1> QED
  BY <1>1 DEF RegistryTypeOK, Current, Copies

LEMMA LoadedType ==
    ASSUME cache \in Copies
    PROVE  /\ Loaded \in SUBSET Entry
           /\ cache.list \in 0..MaxList
           /\ \A e \in Loaded : e.list = cache.list
<1> DEFINE o == [p \in Providers |-> [ok |-> TRUE, models |-> Cached(p)]]
           M == Merge(Providers, o)
<1>1. cache.names \in SUBSET Name /\ cache.list \in 0..MaxList
  BY DEF Copies
<1>2. \A p \in Providers : o[p].models \in SUBSET Models
  BY <1>1 DEF Cached, Name
<1>3. M \in SUBSET Entry /\ \A e \in M : e.list = 0
  <2> HIDE DEF o
  <2> QED
    BY <1>2, MergeEntries
<1>4. Loaded = IF ~cache.saved THEN {} ELSE Enrich(M, cache.list)
  BY DEF Loaded
<1> HIDE DEF M
<1>5. Enrich(M, cache.list) \in SUBSET Entry
  BY <1>1, <1>3, EnrichEntries
<1>6. \A e \in Enrich(M, cache.list) : e.list = cache.list
  <2>1. CASE cache.list = 0
    BY <1>3, <2>1 DEF Enrich
  <2>2. CASE cache.list # 0
    BY <1>1, <1>3, <2>2, EnrichEntries
  <2> QED
    BY <2>1, <2>2
<1> QED
  BY <1>1, <1>4, <1>5, <1>6

\* What a fetch comes to: an inventory f of some providers, of all of them
\* unless a request chose, that is given up or kept for the swap.
LEMMA FetchCases ==
    ASSUME RegistryTypeOK, NEW t \in Tasks, Fetch(t)
    PROVE  \E f \in Inventories :
             /\ f.of \in SUBSET Providers /\ Errors(f) \in SUBSET Providers
             /\ t # "request" => f.of = Providers
             /\ f.list = list
             /\ \A e \in f.entries : /\ e.list = list /\ e.provider \in f.of
                                    /\ e.provider \notin Failed(f)
             /\ GiveUp(t, f) \/ Receive(t, f)
<1>1. PICK T \in Asked(t) : \E o \in Answers(T) :
        GiveUp(t, FetchAll(T, o)) \/ Receive(t, FetchAll(T, o))
  BY DEF Fetch
<1>2. PICK o \in Answers(T) :
        GiveUp(t, FetchAll(T, o)) \/ Receive(t, FetchAll(T, o))
  BY <1>1
<1>3. T \in SUBSET Providers /\ (t # "request" => T = Providers)
  BY RegistryAssumption DEF RegistryAssumption, Asked
<1> DEFINE f == FetchAll(T, o)
<1>4. /\ f \in Inventories /\ f.of = T /\ f.list = list
      /\ \A e \in f.entries : /\ e.list = list /\ e.provider \in T
                             /\ e.provider \notin Failed(f)
  BY <1>3, FetchedEntries DEF RegistryTypeOK
<1>5. GiveUp(t, f) \/ Receive(t, f)
  BY <1>2
<1> HIDE DEF f
<1>6. Errors(f) \in SUBSET Providers
  BY <1>3, <1>4 DEF Errors
<1> QED
  BY <1>3, <1>4, <1>5, <1>6

LEMMA FetchTypes ==
    ASSUME RegistryTypeOK, NEW t \in Tasks, Fetch(t)
    PROVE  RegistryTypeOK'
<1>1. PICK f \in Inventories :
        /\ f.of \in SUBSET Providers /\ Errors(f) \in SUBSET Providers
        /\ GiveUp(t, f) \/ Receive(t, f)
  BY FetchCases
<1>2. CASE GiveUp(t, f)
  <2>1. pc' \in [Tasks -> Steps]
    BY <1>2, GoToStep DEF GiveUp, Fail, RegistryTypeOK
  <2> QED
    BY <1>1, <1>2, <2>1 DEF Fetch, GiveUp, RegistryTypeOK, Leave
<1>3. CASE Receive(t, f)
  <2>1. pc' \in [Tasks -> Steps]
    BY <1>3, StepStep DEF Receive, RegistryTypeOK, Steps, HeldInside
  <2> QED
    BY <1>1, <1>3, <2>1 DEF Fetch, Receive, RegistryTypeOK
<1> QED
  BY <1>1, <1>2, <1>3

LEMMA ApplyTypes ==
    ASSUME RegistryTypeOK, NEW t \in Tasks, Apply(t)
    PROVE  RegistryTypeOK'
<1>1. fetched[t] \in Inventories
  BY DEF RegistryTypeOK
<1>2. NewCatalog(t) \in SUBSET Entry
  BY <1>1 DEF NewCatalog, Inventories, RegistryTypeOK
<1>3. NewRoutes(t) \in SUBSET Entry
  BY <1>2, FirstEntries DEF NewRoutes
<1>4. /\ Errors(fetched[t]) \in SUBSET Providers
      /\ NewStale(t) \in SUBSET Providers
      /\ fetched[t].of \in SUBSET Providers
  BY <1>1 DEF Errors, NewStale, Inventories, RegistryTypeOK
<1>5. pc' \in [Tasks -> Steps]
  BY StepStep DEF Apply, RegistryTypeOK, Steps, HeldInside
<1> QED
  BY <1>2, <1>3, <1>4, <1>5 DEF Apply, RegistryTypeOK

\* Installing a list, or enriching with the one in force.
LEMMA EnrichTypes ==
    ASSUME RegistryTypeOK, NEW v \in 0..MaxList, EnrichAll(v)
    PROVE  /\ catalog' \in SUBSET Entry /\ routes' \in SUBSET Entry
           /\ stale' \in SUBSET Providers
BY EnrichEntries DEF EnrichAll, RegistryTypeOK

LEMMA ListTypes ==
    ASSUME RegistryTypeOK, NEW t \in Tasks,
           Install(t) \/ SetModelList(t) \/ EnrichModels(t)
    PROVE  RegistryTypeOK'
<1>1. copy[t].list \in 0..MaxList /\ list \in 0..MaxList
  BY DEF RegistryTypeOK, Copies
<1>2. CASE Install(t)
  <2>1. pc' \in [Tasks -> Steps]
    BY <1>2, GoToStep DEF Install, Succeed, RegistryTypeOK
  <2> QED
    BY <1>1, <1>2, <2>1, EnrichTypes, SomeTypes DEF Install, Leave, RegistryTypeOK
<1>3. CASE SetModelList(t)
  <2>1. pc' \in [Tasks -> Steps]
    BY <1>3, StepStep DEF SetModelList, RegistryTypeOK, Steps
  <2> QED
    BY <1>1, <1>3, <2>1, SomeTypes DEF SetModelList, RegistryTypeOK, history
<1>4. CASE EnrichModels(t)
  <2>1. pc' \in [Tasks -> Steps]
    BY <1>4, GoToStep DEF EnrichModels, Succeed, RegistryTypeOK
  <2> QED
    BY <1>1, <1>4, <2>1, EnrichTypes DEF EnrichModels, RegistryTypeOK
<1> QED
  BY <1>2, <1>3, <1>4

\* The steps that touch neither the tables nor the fetched inventories but by
\* clearing one.
LEMMA TaskTypes ==
    ASSUME RegistryTypeOK, NEW t \in Tasks,
           \/ Begin(t) \/ Acquire(t) \/ AcquireFails(t) \/ Mark(t)
           \/ DownloadFails(t)
    PROVE  RegistryTypeOK'
<1>1. CASE Begin(t)
  <2>1. pc' \in [Tasks -> Steps]
    BY <1>1, GoToStep DEF Begin, RegistryTypeOK
  <2> QED
    BY <1>1, <2>1 DEF Begin, RegistryTypeOK, registry, history
<1>2. CASE Acquire(t)
  <2>1. pc' \in [Tasks -> Steps]
    BY <1>2, StepStep DEF Acquire, RegistryTypeOK, Steps, HeldInside
  <2> QED
    BY <1>2, <2>1 DEF Acquire, RegistryTypeOK, registry, history
<1>3. CASE AcquireFails(t)
  <2>1. pc' \in [Tasks -> Steps]
    BY <1>3, GoToStep DEF AcquireFails, Fail, RegistryTypeOK
  <2>2. behind' \in BOOLEAN
    BY <1>3 DEF AcquireFails, RegistryTypeOK
  <2> QED
    BY <1>3, <2>1, <2>2 DEF AcquireFails, RegistryTypeOK, registry
<1>4. CASE Mark(t)
  <2>1. pc' \in [Tasks -> Steps]
    BY <1>4, GoToStep DEF Mark, Succeed, RegistryTypeOK
  <2>2. fetched' \in [Tasks -> Inventories]
    BY <1>4, SomeTypes DEF Mark, RegistryTypeOK
  <2> QED
    BY <1>4, <2>1, <2>2 DEF Mark, RegistryTypeOK, Leave, history
<1>5. CASE DownloadFails(t)
  <2>1. pc' \in [Tasks -> Steps]
    BY <1>5, GoToStep DEF DownloadFails, Fail, RegistryTypeOK
  <2>2. sem' \in Tasks \cup {Nobody}
    BY <1>5 DEF DownloadFails, RegistryTypeOK, Leave
  <2> QED
    BY <1>5, <2>1, <2>2 DEF DownloadFails, RegistryTypeOK, registry, history
<1> QED
  BY <1>1, <1>2, <1>3, <1>4, <1>5

LEMMA CopyTypes ==
    ASSUME RegistryTypeOK, NEW t \in Tasks,
           Download(t) \/ Copy(t) \/ Write(t) \/ WriteFails(t)
    PROVE  RegistryTypeOK'
<1>1. CASE Download(t)
  <2>1. pc' \in [Tasks -> Steps]
    BY <1>1, StepStep DEF Download, RegistryTypeOK, Steps, HeldInside
  <2>2. ListCopy(published) \in Copies
    BY RegistryAssumption DEF RegistryAssumption, ListCopy, Copies, RegistryTypeOK
  <2> QED
    BY <1>1, <2>1, <2>2 DEF Download, RegistryTypeOK, registry, history
<1>2. CASE Copy(t)
  <2>1. pc' \in [Tasks -> Steps]
    BY <1>2, StepStep DEF Copy, RegistryTypeOK, Steps
  <2> QED
    BY <1>2, <2>1, CurrentType DEF Copy, RegistryTypeOK, registry
<1>3. CASE Write(t)
  <2>1. pc' \in [Tasks -> Steps]
    BY <1>3, GoToStep DEF Write, Succeed, RegistryTypeOK
  <2>2. behind' \in BOOLEAN
    BY <1>3 DEF Write
  <2>3. cache' \in Copies /\ copy' \in [Tasks -> Copies]
    BY <1>3, SomeTypes DEF Write, RegistryTypeOK
  <2> QED
    BY <1>3, <2>1, <2>2, <2>3 DEF Write, RegistryTypeOK, registry
<1>4. CASE WriteFails(t)
  <2>1. pc' \in [Tasks -> Steps]
    BY <1>4, GoToStep DEF WriteFails, Fail, RegistryTypeOK
  <2> QED
    BY <1>4, <2>1, SomeTypes DEF WriteFails, RegistryTypeOK, registry
<1> QED
  BY <1>1, <1>2, <1>3, <1>4

\* A process at its start, whatever it loads.
LEMMA StartTypes ==
    /\ StartPc \in [Tasks -> Steps]
    /\ \A t \in Tasks : StartPc[t] \in {"idle", "acquire", "metaDownload", "copy"}
    /\ NoneFetched \in [Tasks -> Inventories]
    /\ NoCopies \in [Tasks -> Copies]
<1>1. \A t, j : FirstStep(t, j) \in {"idle", "acquire", "metaDownload", "copy"}
  BY DEF FirstStep
<1> QED
  BY <1>1, SomeTypes DEF StartPc, NoneFetched, NoCopies, Steps

LEMMA OtherTypes ==
    ASSUME RegistryTypeOK, SkipSave \/ Publish \/ Restart
    PROVE  RegistryTypeOK'
<1>1. CASE SkipSave
  <2>1. pc' \in [Tasks -> Steps]
    BY <1>1, GoToStep DEF SkipSave, RegistryTypeOK
  <2> QED
    BY <1>1, <2>1 DEF SkipSave, RegistryTypeOK, registry
<1>2. CASE Publish
  <2>1. published' \in 1..MaxList
    BY <1>2, RegistryAssumption DEF RegistryAssumption, Publish, RegistryTypeOK
  <2> QED
    BY <1>2, <2>1 DEF Publish, RegistryTypeOK, registry, tasks
<1>3. CASE Restart
  <2>1. catalog' \in SUBSET Entry /\ list' \in 0..MaxList
    BY <1>3, LoadedType, SomeTypes DEF Restart, RegistryTypeOK
  <2>2. routes' \in SUBSET Entry
    BY <1>3, <2>1 DEF Restart, FirstOf
  <2>3. restarts' \in 0..MaxRestarts
    BY <1>3, RegistryAssumption DEF RegistryAssumption, Restart, RegistryTypeOK
  <2> QED
    BY <1>3, <2>1, <2>2, <2>3, StartTypes DEF Restart, RegistryTypeOK
<1> QED
  BY <1>1, <1>2, <1>3

-----------------------------------------------------------------------------
(* The invariant *)

THEOREM RegistryInitial == RegistryInit => IInv
<1> SUFFICES ASSUME RegistryInit
             PROVE  IInv
  OBVIOUS
<1>1. RegistryTypeOK
  <2>1. 0 \in 0..MaxRestarts
    BY RegistryAssumption DEF RegistryAssumption
  <2>2. initialized \in BOOLEAN /\ behind \in BOOLEAN
    BY DEF RegistryInit
  <2> QED
    BY <2>1, <2>2, SomeTypes, StartTypes DEF RegistryInit, RegistryTypeOK
<1>2. \A t \in Tasks : pc[t] \in {"idle", "acquire", "metaDownload", "copy"}
  BY StartTypes DEF RegistryInit
<1>3. SemaphoreHeldInside /\ NewestFetched /\ FetchedOK /\ ListOK
  BY <1>2 DEF RegistryInit, SemaphoreHeldInside, HeldInside, NewestFetched,
              FetchedOK, ListOK
<1>4. RoutesAreFirst /\ OutageIsReported /\ ListFollowed
  BY DEF RegistryInit, RoutesAreFirst, OutageIsReported, ListFollowed, FirstOf
<1> QED
  BY <1>1, <1>3, <1>4 DEF IInv

\* The quiet steps.
LEMMA TaskKeeps ==
    ASSUME IInv, NEW t \in Tasks,
           \/ Begin(t) \/ Acquire(t) \/ AcquireFails(t) \/ Mark(t)
           \/ DownloadFails(t)
    PROVE  IInv'
<1>1. RegistryTypeOK'
  BY TaskTypes DEF IInv
<1>2. pc \in [Tasks -> Steps] /\ fetched \in [Tasks -> Inventories]
  BY DEF IInv, RegistryTypeOK
<1>3. CASE Begin(t)
  <2>1. pc'[t] \in {"idle", "acquire", "metaDownload", "copy"} /\ \A u \in Tasks \ {t} : pc'[u] = pc[u]
    BY <1>2, <1>3, GoToStep DEF Begin
  <2>2. Quiet(t)
    BY <1>3, <2>1 DEF Begin, Quiet, registry, history
  <2>3. SemaphoreHeldInside'
    BY <1>3, <2>1, OutsideKeeps DEF Begin, HeldInside, IInv
  <2> QED
    BY <1>1, <2>2, <2>3, QuietKeeps DEF IInv
<1>4. CASE Acquire(t)
  <2>1. pc'[t] \in {"download", "fetch"} /\ \A u \in Tasks \ {t} : pc'[u] = pc[u]
    BY <1>2, <1>4, StepStep DEF Acquire, Steps, HeldInside
  <2>2. Quiet(t)
    BY <1>4, <2>1 DEF Acquire, Quiet, registry, history
  <2>3. SemaphoreHeldInside'
    BY <1>4, <2>1, AcquireKeeps DEF Acquire, HeldInside, IInv
  <2> QED
    BY <1>1, <2>2, <2>3, QuietKeeps DEF IInv
<1>5. CASE AcquireFails(t)
  <2>1. pc'[t] \in {"idle", "acquire", "metaDownload", "copy"} /\ \A u \in Tasks \ {t} : pc'[u] = pc[u]
    BY <1>2, <1>5, GoToStep DEF AcquireFails, Fail
  <2>2. Quiet(t)
    BY <1>5, <2>1 DEF AcquireFails, Quiet, registry
  <2>3. SemaphoreHeldInside'
    BY <1>5, <2>1, OutsideKeeps DEF AcquireFails, HeldInside, IInv
  <2> QED
    BY <1>1, <2>2, <2>3, QuietKeeps DEF IInv
<1>6. CASE Mark(t)
  <2>1. pc'[t] \in {"idle", "acquire", "metaDownload", "copy"} /\ \A u \in Tasks \ {t} : pc'[u] = pc[u]
    BY <1>2, <1>6, GoToStep DEF Mark, Succeed
  <2>2. Quiet(t)
    BY <1>2, <1>6, <2>1 DEF Mark, Quiet, history
  <2>3. SemaphoreHeldInside'
    BY <1>6, <2>1, LeaveKeeps DEF Mark, Leave, HeldInside, IInv
  <2> QED
    BY <1>1, <2>2, <2>3, QuietKeeps DEF IInv
<1>7. CASE DownloadFails(t)
  <2>1. pc'[t] \in {"idle", "acquire", "metaDownload", "copy"} /\ \A u \in Tasks \ {t} : pc'[u] = pc[u]
    BY <1>2, <1>7, GoToStep DEF DownloadFails, Fail
  <2>2. Quiet(t)
    BY <1>7, <2>1 DEF DownloadFails, Quiet, registry, history
  <2>3. SemaphoreHeldInside'
    <3>1. CASE pc[t] = "download"
      BY <1>7, <2>1, <3>1, LeaveKeeps DEF DownloadFails, Leave, HeldInside, IInv
    <3>2. CASE pc[t] = "metaDownload"
      BY <1>7, <2>1, <3>2, OutsideKeeps DEF DownloadFails, HeldInside, IInv
    <3> QED
      BY <1>7, <3>1, <3>2 DEF DownloadFails
  <2> QED
    BY <1>1, <2>2, <2>3, QuietKeeps DEF IInv
<1> QED
  BY <1>3, <1>4, <1>5, <1>6, <1>7

LEMMA CopyKeeps ==
    ASSUME IInv, NEW t \in Tasks, Copy(t) \/ Write(t) \/ WriteFails(t)
    PROVE  IInv'
<1>1. RegistryTypeOK'
  BY CopyTypes DEF IInv
<1>2. pc \in [Tasks -> Steps] /\ copy \in [Tasks -> Copies]
  BY DEF IInv, RegistryTypeOK
<1>3. /\ pc[t] \in {"copy", "write"}
      /\ pc'[t] \in {"idle", "acquire", "metaDownload", "copy", "write"}
      /\ \A u \in Tasks \ {t} : pc'[u] = pc[u]
  BY <1>2, GoToStep, StepStep DEF Copy, Write, WriteFails, Succeed, Fail, Steps
<1>4. Quiet(t)
  BY <1>2, <1>3 DEF Copy, Write, WriteFails, Quiet, registry
<1>5. SemaphoreHeldInside'
  BY <1>3, OutsideKeeps DEF Copy, Write, WriteFails, HeldInside, IInv
<1> QED
  BY <1>1, <1>4, <1>5, QuietKeeps DEF IInv

LEMMA SkipSaveKeeps ==
    ASSUME IInv, SkipSave
    PROVE  IInv'
<1>1. RegistryTypeOK'
  BY OtherTypes DEF IInv
<1>2. pc \in [Tasks -> Steps] /\ "admin" \in Tasks
  BY DEF IInv, RegistryTypeOK, SkipSave
<1>3. /\ pc'["admin"] \in {"idle", "acquire", "metaDownload", "copy"}
      /\ \A u \in Tasks \ {"admin"} : pc'[u] = pc[u]
  BY <1>2, GoToStep DEF SkipSave
<1>4. Quiet("admin")
  BY <1>3 DEF SkipSave, Quiet, registry
<1>5. SemaphoreHeldInside'
  BY <1>2, <1>3, OutsideKeeps DEF SkipSave, HeldInside, IInv
<1> QED
  BY <1>1, <1>2, <1>4, <1>5, QuietKeeps DEF IInv

\* A downloaded list is one that was published.
LEMMA DownloadKeeps ==
    ASSUME IInv, NEW t \in Tasks, Download(t)
    PROVE  IInv'
<1>1. RegistryTypeOK'
  BY CopyTypes DEF IInv
<1>2. /\ pc \in [Tasks -> Steps] /\ copy \in [Tasks -> Copies]
      /\ published # 0
  BY DEF IInv, RegistryTypeOK
<1>3. /\ pc'[t] = IF pc[t] = "download" THEN "install" ELSE "set"
      /\ \A u \in Tasks \ {t} : pc'[u] = pc[u] /\ copy'[u] = copy[u]
      /\ copy'[t].list = published
      /\ pc[t] \in {"download", "metaDownload"}
  <2>1. (IF pc[t] = "download" THEN "install" ELSE "set") \in Steps
    BY DEF Steps, HeldInside
  <2>2. ListCopy(published).list = published
    BY DEF ListCopy
  <2> QED
    BY <1>2, <2>1, <2>2, StepStep DEF Download
<1>4. UNCHANGED <<catalog, routes, list, asked, errors, stale, overtaken, sem, fetched>>
  BY DEF Download, registry, history
<1>5. SemaphoreHeldInside'
  BY <1>3, <1>4, OutsideKeeps DEF HeldInside, IInv
<1>6. NewestFetched'
  BY <1>3, <1>4 DEF IInv, NewestFetched
<1>7. FetchedOK'
  BY <1>3, <1>4 DEF IInv, FetchedOK, Failed
<1>8. ListOK'
  BY <1>2, <1>3, <1>4 DEF IInv, ListOK
<1>9. RoutesAreFirst' /\ OutageIsReported' /\ ListFollowed'
  BY <1>3, <1>4
  DEF IInv, RoutesAreFirst, OutageIsReported, ListFollowed, FirstOf, Of
<1> QED
  BY <1>1, <1>5, <1>6, <1>7, <1>8, <1>9 DEF IInv

\* A fetch that is given up leaves an error with every provider it asked, or
\* found none of them with a model.
LEMMA FetchKeeps ==
    ASSUME IInv, NEW t \in Tasks, Fetch(t)
    PROVE  IInv'
<1>1. RegistryTypeOK'
  BY FetchTypes DEF IInv
<1>2. RegistryTypeOK /\ pc \in [Tasks -> Steps] /\ fetched \in [Tasks -> Inventories]
  BY DEF IInv, RegistryTypeOK
<1>3. PICK f \in Inventories :
        /\ f.of \in SUBSET Providers /\ Errors(f) \in SUBSET Providers
        /\ t # "request" => f.of = Providers
        /\ f.list = list
        /\ \A e \in f.entries : /\ e.list = list /\ e.provider \in f.of
                               /\ e.provider \notin Failed(f)
        /\ GiveUp(t, f) \/ Receive(t, f)
  BY <1>2, FetchCases
<1>4. pc[t] = "fetch" /\ UNCHANGED <<catalog, routes, list, copy, stale>>
  BY DEF Fetch
<1>5. CASE GiveUp(t, f)
  <2>1. /\ pc'[t] \in {"idle", "acquire", "metaDownload", "copy"}
        /\ \A u \in Tasks \ {t} : pc'[u] = pc[u]
        /\ sem' = Nobody
        /\ UNCHANGED <<fetched, overtaken>>
    BY <1>2, <1>5, GoToStep DEF GiveUp, Fail, Leave
  <2>2. SemaphoreHeldInside'
    BY <1>4, <2>1, LeaveKeeps DEF HeldInside, IInv
  <2>3. NewestFetched' /\ FetchedOK' /\ ListOK'
    BY <1>4, <2>1 DEF IInv, NewestFetched, FetchedOK, ListOK, Failed
  <2>4. RoutesAreFirst' /\ ListFollowed'
    BY <1>4, <2>1 DEF IInv, RoutesAreFirst, ListFollowed, FirstOf
  <2>5. OutageIsReported'
    <3>1. asked' = asked \cup f.of /\ errors' = (errors \ f.of) \cup Errors(f) /\ f.entries = {}
      BY <1>5 DEF GiveUp, GivesUp
    <3>2. \A p \in f.of : p \in Errors(f)
      BY <3>1 DEF Errors, Of
    <3> QED
      BY <1>4, <3>1, <3>2 DEF IInv, OutageIsReported, Of
  <2> QED
    BY <1>1, <2>2, <2>3, <2>4, <2>5 DEF IInv
<1>6. CASE Receive(t, f)
  <2>1. /\ pc'[t] = "apply"
        /\ \A u \in Tasks \ {t} : pc'[u] = pc[u] /\ fetched'[u] = fetched[u]
        /\ fetched'[t] = f
        /\ overtaken' = overtaken \ {t}
        /\ UNCHANGED <<asked, errors, sem>>
    BY <1>2, <1>6, StepStep DEF Receive, Steps, HeldInside
  <2>2. SemaphoreHeldInside'
    BY <1>4, <2>1, OutsideKeeps DEF HeldInside, IInv
  <2>3. NewestFetched' /\ ListOK'
    BY <1>4, <2>1 DEF IInv, NewestFetched, ListOK
  <2>4. FetchedOK'
    <3>1. t # "request" => f.entries # {}
      BY <1>6 DEF Receive, GivesUp
    <3>2. Failed(f)' = Failed(f) /\ \A u \in Tasks \ {t} : Failed(fetched[u])' = Failed(fetched[u])
      BY <2>1 DEF Failed, Skipped
    <3> QED
      BY <1>3, <2>1, <3>1, <3>2 DEF IInv, FetchedOK, Failed
  <2>5. RoutesAreFirst' /\ ListFollowed' /\ OutageIsReported'
    BY <1>4, <2>1
    DEF IInv, RoutesAreFirst, ListFollowed, OutageIsReported, FirstOf, Of
  <2> QED
    BY <1>1, <2>2, <2>3, <2>4, <2>5 DEF IInv
<1> QED
  BY <1>3, <1>5, <1>6

\* The swap.
LEMMA ApplyKeeps ==
    ASSUME IInv, NEW t \in Tasks, Apply(t)
    PROVE  IInv'
<1>1. RegistryTypeOK'
  BY ApplyTypes DEF IInv
<1>2. pc \in [Tasks -> Steps] /\ fetched[t] \in Inventories
  BY DEF IInv, RegistryTypeOK
<1>3. /\ pc[t] = "apply" /\ pc'[t] = "mark"
      /\ \A u \in Tasks \ {t} : pc'[u] = pc[u]
      /\ UNCHANGED <<list, sem, fetched, copy>>
  BY <1>2, StepStep DEF Apply, Steps, HeldInside
<1>4. \A u \in Tasks \ {t} : pc[u] # "apply"
  BY <1>3 DEF IInv, SemaphoreHeldInside, HeldInside
<1>5. SemaphoreHeldInside'
  BY <1>3, OutsideKeeps DEF HeldInside, IInv
<1>6. NewestFetched' /\ FetchedOK' /\ ListOK'
  BY <1>3, <1>4 DEF IInv, NewestFetched, FetchedOK, ListOK
<1>7. RoutesAreFirst'
  BY DEF Apply, NewRoutes, RoutesAreFirst, FirstOf
<1> DEFINE f == fetched[t]
<1>8. /\ t # "request" => f.of = Providers
      /\ \A e \in f.entries : e.list = f.list /\ e.provider \in f.of /\ e.provider \notin Failed(f)
  BY <1>3 DEF IInv, FetchedOK
<1>9. /\ catalog' = NewCatalog(t) /\ stale' = NewStale(t)
      /\ asked' = asked \cup f.of /\ errors' = (errors \ f.of) \cup Errors(f)
  BY DEF Apply
<1>10. OutageIsReported'
  <2>1. SUFFICES ASSUME NEW p \in asked', Of(catalog', p) = {}
                 PROVE  p \in errors'
    BY DEF OutageIsReported, Of
  <2>2. Of(f.entries, p) = {}
    BY <1>9, <2>1 DEF NewCatalog, Of
  <2>3. CASE p \in f.of
    BY <1>9, <2>2, <2>3, FetchedErrors
  <2>4. CASE p \notin f.of
    <3>1. t = "request" /\ p \in asked
      BY <1>1, <1>8, <1>9, <2>1, <2>4 DEF RegistryTypeOK
    <3>2. Of(catalog, p) = {}
      BY <1>9, <2>1, <2>4, <3>1 DEF NewCatalog, Of
    <3> QED
      BY <1>9, <2>4, <3>1, <3>2 DEF IInv, OutageIsReported
  <2> QED
    BY <2>3, <2>4
<1>11. ListFollowed'
  <2>1. SUFFICES ASSUME \A u \in Tasks : pc[u] # "enrich",
                        NEW e \in NewCatalog(t), e.provider \notin NewStale(t)
                 PROVE  e.list = list
    BY <1>3, <1>9 DEF ListFollowed
  <2>2. CASE e \in f.entries
    <3>1. e.provider \in f.of \ Failed(f) /\ e.list = f.list
      BY <1>8, <2>2
    <3> QED
      BY <2>1, <3>1 DEF NewStale
  <2>3. CASE e \notin f.entries
    <3>1. t = "request" /\ e \in catalog /\ e.provider \notin f.of \ Failed(f)
      BY <2>1, <2>3 DEF NewCatalog
    <3>2. e.provider \notin stale
      BY <2>1, <3>1 DEF NewStale
    <3> QED
      BY <2>1, <3>1, <3>2 DEF IInv, ListFollowed
  <2> QED
    BY <2>2, <2>3
<1> QED
  BY <1>1, <1>5, <1>6, <1>7, <1>10, <1>11 DEF IInv

\* A list that is installed or enriched with reaches every model.
LEMMA EnrichKeeps ==
    ASSUME IInv, NEW v \in 0..MaxList, v # 0, EnrichAll(v), list' = v,
           UNCHANGED <<asked, errors>>
    PROVE  RoutesAreFirst' /\ OutageIsReported' /\ ListFollowed'
<1>1. catalog \in SUBSET Entry
  BY DEF IInv, RegistryTypeOK
<1>2. catalog' = Enrich(catalog, v) /\ routes' = Enrich(routes, v)
  BY DEF EnrichAll
<1>3. RoutesAreFirst'
  <2>1. FirstOf(Enrich(catalog, v)) = Enrich(FirstOf(catalog), v)
    BY <1>1, EnrichFirst
  <2>2. routes = FirstOf(catalog)
    BY DEF IInv, RoutesAreFirst
  <2>3. FirstOf(catalog)' = FirstOf(Enrich(catalog, v))
    BY <1>2 DEF FirstOf
  <2> QED
    BY <1>2, <2>1, <2>2, <2>3 DEF RoutesAreFirst
<1>4. \A p : Of(catalog', p) = {} <=> Of(catalog, p) = {}
  BY <1>1, <1>2, EnrichEntries
<1>5. OutageIsReported'
  BY <1>4 DEF IInv, OutageIsReported
<1>6. \A e \in catalog' : e.list = v
  BY <1>1, <1>2, EnrichEntries
<1>7. ListFollowed'
  BY <1>6 DEF ListFollowed
<1> QED
  BY <1>3, <1>5, <1>7

LEMMA ListKeeps ==
    ASSUME IInv, NEW t \in Tasks,
           Install(t) \/ SetModelList(t) \/ EnrichModels(t)
    PROVE  IInv'
<1>1. RegistryTypeOK'
  BY ListTypes DEF IInv
<1>2. /\ pc \in [Tasks -> Steps] /\ copy \in [Tasks -> Copies]
      /\ list \in 0..MaxList /\ copy[t].list \in 0..MaxList
  BY DEF IInv, RegistryTypeOK, Copies
<1>3. CASE Install(t)
  <2>1. /\ pc[t] = "install" /\ copy[t].list # 0 /\ list' = copy[t].list
        /\ pc'[t] \in {"idle", "acquire", "metaDownload", "copy"}
        /\ \A u \in Tasks \ {t} : pc'[u] = pc[u] /\ copy'[u] = copy[u]
        /\ sem' = Nobody
        /\ UNCHANGED <<fetched, overtaken, asked, errors>>
    BY <1>2, <1>3, GoToStep DEF Install, Succeed, Leave, IInv, ListOK
  <2>2. SemaphoreHeldInside'
    BY <2>1, LeaveKeeps DEF HeldInside, IInv
  <2>3. NewestFetched' /\ FetchedOK' /\ ListOK'
    BY <2>1 DEF IInv, NewestFetched, FetchedOK, ListOK, Failed
  <2>4. RoutesAreFirst' /\ OutageIsReported' /\ ListFollowed'
    BY <1>2, <1>3, <2>1, EnrichKeeps DEF Install
  <2> QED
    BY <1>1, <2>2, <2>3, <2>4 DEF IInv
<1>4. CASE SetModelList(t)
  <2>1. /\ pc[t] = "set" /\ copy[t].list # 0 /\ list' = copy[t].list
        /\ pc'[t] = "enrich"
        /\ \A u \in Tasks \ {t} : pc'[u] = pc[u] /\ copy'[u] = copy[u]
        /\ UNCHANGED <<sem, catalog, routes, fetched, overtaken, asked, errors, stale>>
    BY <1>2, <1>4, StepStep DEF SetModelList, Steps, IInv, ListOK, history
  <2>2. SemaphoreHeldInside'
    BY <2>1, OutsideKeeps DEF HeldInside, IInv
  <2>3. NewestFetched' /\ FetchedOK' /\ ListOK'
    BY <2>1 DEF IInv, NewestFetched, FetchedOK, ListOK, Failed
  <2>4. RoutesAreFirst' /\ OutageIsReported' /\ ListFollowed'
    BY <2>1
    DEF IInv, RoutesAreFirst, OutageIsReported, ListFollowed, FirstOf, Of
  <2> QED
    BY <1>1, <2>2, <2>3, <2>4 DEF IInv
<1>5. CASE EnrichModels(t)
  <2>1. /\ pc[t] = "enrich" /\ list # 0 /\ list' = list
        /\ pc'[t] \in {"idle", "acquire", "metaDownload", "copy"}
        /\ \A u \in Tasks \ {t} : pc'[u] = pc[u]
        /\ UNCHANGED <<sem, fetched, copy, overtaken, asked, errors>>
    BY <1>2, <1>5, GoToStep DEF EnrichModels, Succeed, IInv, ListOK
  <2>2. SemaphoreHeldInside'
    BY <2>1, OutsideKeeps DEF HeldInside, IInv
  <2>3. NewestFetched' /\ FetchedOK' /\ ListOK'
    BY <2>1 DEF IInv, NewestFetched, FetchedOK, ListOK, Failed
  <2>4. RoutesAreFirst' /\ OutageIsReported' /\ ListFollowed'
    BY <1>2, <1>5, <2>1, EnrichKeeps DEF EnrichModels
  <2> QED
    BY <1>1, <2>2, <2>3, <2>4 DEF IInv
<1> QED
  BY <1>3, <1>4, <1>5

LEMMA RestartKeeps ==
    ASSUME IInv, Restart
    PROVE  IInv'
<1>1. RegistryTypeOK'
  BY OtherTypes DEF IInv
<1>2. \A t \in Tasks : pc'[t] \in {"idle", "acquire", "metaDownload", "copy"}
  BY StartTypes DEF Restart
<1>3. SemaphoreHeldInside' /\ NewestFetched' /\ FetchedOK' /\ ListOK'
  BY <1>2 DEF Restart, SemaphoreHeldInside, HeldInside, NewestFetched,
              FetchedOK, ListOK
<1>4. RoutesAreFirst' /\ OutageIsReported'
  BY DEF Restart, RoutesAreFirst, OutageIsReported, FirstOf
<1>5. ListFollowed'
  <2>1. \A e \in Loaded : e.list = cache.list
    BY LoadedType DEF IInv, RegistryTypeOK
  <2>2. \A e \in catalog' : e.list = list'
    BY <2>1 DEF Restart
  <2> QED
    BY <2>2 DEF ListFollowed
<1> QED
  BY <1>1, <1>3, <1>4, <1>5 DEF IInv

LEMMA StutterKeeps ==
    ASSUME IInv, Publish \/ UNCHANGED vars
    PROVE  IInv'
<1>1. RegistryTypeOK'
  <2>1. CASE Publish
    BY <2>1, OtherTypes DEF IInv
  <2>2. CASE UNCHANGED vars
    BY <2>2 DEF IInv, RegistryTypeOK, vars, registry, tasks, history
  <2> QED
    BY <2>1, <2>2
<1>2. UNCHANGED <<catalog, routes, list, asked, errors, sem, pc, fetched, copy,
                  overtaken, stale>>
  BY DEF Publish, vars, registry, tasks, history
<1>3. SemaphoreHeldInside' /\ NewestFetched' /\ FetchedOK' /\ ListOK'
  BY <1>2 DEF IInv, SemaphoreHeldInside, NewestFetched, FetchedOK, ListOK, Failed
<1>4. RoutesAreFirst' /\ OutageIsReported' /\ ListFollowed'
  BY <1>2
  DEF IInv, RoutesAreFirst, OutageIsReported, ListFollowed, FirstOf, Of
<1> QED
  BY <1>1, <1>3, <1>4 DEF IInv

THEOREM RegistryStep == IInv /\ [RegistryNext]_vars => IInv'
<1> SUFFICES ASSUME IInv, [RegistryNext]_vars
             PROVE  IInv'
  OBVIOUS
<1>1. ASSUME NEW t \in Tasks,
             \/ Begin(t) \/ Acquire(t) \/ AcquireFails(t) \/ Mark(t)
             \/ DownloadFails(t)
      PROVE  IInv'
  BY <1>1, TaskKeeps
<1>2. ASSUME NEW t \in Tasks, Fetch(t)
      PROVE  IInv'
  BY <1>2, FetchKeeps
<1>3. ASSUME NEW t \in Tasks, Apply(t)
      PROVE  IInv'
  BY <1>3, ApplyKeeps
<1>4. ASSUME NEW t \in Tasks, Download(t)
      PROVE  IInv'
  BY <1>4, DownloadKeeps
<1>5. ASSUME NEW t \in Tasks, Install(t) \/ SetModelList(t) \/ EnrichModels(t)
      PROVE  IInv'
  BY <1>5, ListKeeps
<1>6. ASSUME NEW t \in Tasks, Copy(t) \/ Write(t) \/ WriteFails(t)
      PROVE  IInv'
  BY <1>6, CopyKeeps
<1>7. CASE SkipSave
  BY <1>7, SkipSaveKeeps
<1>8. CASE Restart
  BY <1>8, RestartKeeps
<1>9. CASE Publish \/ UNCHANGED vars
  BY <1>9, StutterKeeps
<1> QED
  BY <1>1, <1>2, <1>3, <1>4, <1>5, <1>6, <1>7, <1>8, <1>9 DEF RegistryNext

THEOREM RegistryInvariance == RegistrySpec => []IInv
BY RegistryInitial, RegistryStep, PTL DEF RegistrySpec

\* The tables and the tasks keep their types (registry.go).
THEOREM RegistryTypesCorrect == RegistrySpec => []RegistryTypeOK
<1>1. IInv => RegistryTypeOK
  BY DEF IInv
<1> QED
  BY <1>1, RegistryInvariance, PTL

\* "First provider wins" for every order of refreshes, enrichments and loads.
THEOREM RoutesCorrect == RegistrySpec => []RoutesAreFirst
<1>1. IInv => RoutesAreFirst
  BY DEF IInv
<1> QED
  BY <1>1, RegistryInvariance, PTL

\* refreshCh keeps the order of the fetches and the order of the swaps the same,
\* and no failure leaves it taken.
THEOREM RefreshesAreSerial ==
    RegistrySpec => [](SemaphoreHeldInside /\ NeverOverwritesNewer)
<1>1. IInv => SemaphoreHeldInside /\ NeverOverwritesNewer
  BY DEF IInv, RegistryTypeOK, NewestFetched, NeverOverwritesNewer
<1> QED
  BY <1>1, RegistryInvariance, PTL

\* A provider that was asked and has no model shows an error.
THEOREM OutagesAreReported == RegistrySpec => []OutageIsReported
<1>1. IInv => OutageIsReported
  BY DEF IInv
<1> QED
  BY <1>1, RegistryInvariance, PTL

\* The race of the initial metadata fetch is the only one that leaves models
\* without the metadata of the list in force.
THEOREM EnrichmentCorrect == RegistrySpec => []EnrichedUnlessRaced
<1>1. IInv => EnrichedUnlessRaced
  BY DEF IInv, RegistryTypeOK, ListFollowed, EnrichedUnlessRaced
<1> QED
  BY <1>1, RegistryInvariance, PTL

\* A step that empties a provider's models is the swap of an inventory that
\* asked it; without an answer of that provider it is a full refresh that
\* found models elsewhere.
LEMMA LossStep ==
    ASSUME IInv, [RegistryNext]_vars, restarts' = restarts,
           NEW p \in Providers, Of(catalog, p) # {}, Of(catalog', p) = {}
    PROVE  \E t \in Tasks :
             /\ pc[t] = "apply"
             /\ p \in fetched[t].of
             /\ p \in Failed(fetched[t]) => t # "request" /\ catalog' # {}
<1>1. ASSUME NEW v \in 0..MaxList, EnrichAll(v)
      PROVE  FALSE
  <2>1. catalog \in SUBSET Entry /\ catalog' = Enrich(catalog, v)
    BY <1>1 DEF IInv, RegistryTypeOK, EnrichAll
  <2>2. Of(catalog', p) = {} <=> Of(catalog, p) = {}
    BY <2>1, EnrichEntries
  <2> QED
    BY <2>2
<1>2. ASSUME NEW t \in Tasks, Install(t) \/ EnrichModels(t)
      PROVE  FALSE
  <2>1. copy[t].list \in 0..MaxList /\ list \in 0..MaxList
    BY DEF IInv, RegistryTypeOK, Copies
  <2> QED
    BY <1>1, <1>2, <2>1 DEF Install, EnrichModels
<1>3. catalog' # catalog
  BY DEF Of
<1>4. ~Restart
  <2>1. restarts \in Nat
    BY RegistryAssumption DEF RegistryAssumption, IInv, RegistryTypeOK
  <2> QED
    BY <2>1 DEF Restart
<1>5. PICK t \in Tasks : Apply(t)
  <2>1. \A u \in Tasks :
          ~(\/ Begin(u) \/ Acquire(u) \/ AcquireFails(u) \/ Mark(u)
            \/ DownloadFails(u) \/ Fetch(u) \/ Download(u) \/ SetModelList(u)
            \/ Copy(u) \/ Write(u) \/ WriteFails(u))
    BY <1>3 DEF Begin, Acquire, AcquireFails, Mark, DownloadFails, Fetch, Download,
                SetModelList, Copy, Write, WriteFails, registry
  <2>2. ~SkipSave /\ ~Publish /\ ~UNCHANGED vars
    BY <1>3 DEF SkipSave, Publish, vars, registry
  <2> QED
    BY <1>2, <1>4, <2>1, <2>2 DEF RegistryNext
<1>6. pc[t] = "apply" /\ catalog' = NewCatalog(t)
  BY <1>5 DEF Apply
<1>7. t # "request" => fetched[t].of = Providers /\ fetched[t].entries # {}
  BY <1>6 DEF IInv, FetchedOK
<1>8. CASE t # "request"
  BY <1>6, <1>7, <1>8 DEF NewCatalog
<1>9. CASE t = "request"
  <2>1. ~(p \notin fetched[t].of \ Failed(fetched[t]))
    BY <1>6, <1>9 DEF NewCatalog, Of
  <2> QED
    BY <1>6, <2>1
<1> QED
  BY <1>8, <1>9

\* An outage takes no models away, unless a full refresh brings in others.
THEOREM OutagesTakeNothing == RegistrySpec => OutageTakesNothing
<1>1. IInv /\ [RegistryNext]_vars =>
        [restarts' = restarts =>
          \A p \in Providers :
            Of(catalog, p) # {} /\ Of(catalog', p) = {} =>
                \E t \in DOMAIN pc :
                    /\ pc[t] = "apply"
                    /\ p \in fetched[t].of
                    /\ p \in Failed(fetched[t]) => t # "request" /\ catalog' # {}]_vars
  <2>1. IInv => DOMAIN pc = Tasks
    BY DEF IInv, RegistryTypeOK
  <2> QED
    BY <2>1, LossStep
<1> QED
  BY <1>1, RegistryInvariance, PTL DEF RegistrySpec, OutageTakesNothing

-----------------------------------------------------------------------------
(* The cache at rest *)

\* Where in a job of each kind its goroutine can be, and that it is there.
Places ==
    [init     |-> {"acquire", "fetch", "apply", "mark"},
     provider |-> {"acquire", "fetch", "apply", "mark"},
     list     |-> {"acquire", "download", "install"},
     setList  |-> {"metaDownload", "set", "enrich"},
     save     |-> {"copy", "write"}]

Placed ==
    \A t \in Tasks :
        \/ job[t] = 0 /\ pc[t] = "idle"
        \/ job[t] \in DOMAIN Program[t] /\ pc[t] \in Places[Program[t][job[t]]]

Saved == cache.names = Names(catalog) /\ cache.list = list

\* A goroutine that saves the tables as they are before it ends, or records
\* that it did not: it is about to copy them, or still carries a true copy.
Saves(t) ==
    \/ t # "request" /\ pc[t] = "mark"
    \/ pc[t] \in {"enrich", "copy"}
    \/ pc[t] = "write" /\ copy[t] = Current
    \/ t = "admin" /\ job[t] = 2

\* Whatever is not in the cache is going to be; and whoever writes an old copy
\* is going to be followed by such a goroutine, or has been overtaken by it.
SaveFollows ==
    \/ behind
    \/ \E u \in Tasks : Saves(u)
    \/ Saved /\ \A t \in Tasks : pc[t] = "write" /\ copy[t] # Current => t \in passed

SaveInv == Placed /\ SaveFollows

LEMMA Jobs ==
    ASSUME NEW t \in Tasks, NEW j \in DOMAIN Program[t]
    PROVE  /\ j \in Nat /\ j # 0
           /\ OnFailure[t][j] \in {0} \cup DOMAIN Program[t]
           /\ j < Len(Program[t]) => j + 1 \in DOMAIN Program[t]
           /\ Program[t][j] \in {"init", "provider", "list", "setList", "save"}
           /\ t # "request" /\ Program[t][j] \in {"init", "provider", "setList"} =>
                j < Len(Program[t]) /\ Program[t][j + 1] = "save"
           /\ Program[t][j] = "list" =>
                j < Len(Program[t]) /\ (Program[t][j + 1] = "save" \/ (t = "admin" /\ j + 1 = 2))
           /\ t = "admin" /\ j = 2 =>
                Program[t][j] = "init" /\ OnFailure[t][j] = 3 /\ Program[t][3] = "save"
<1>1. t \in {"boot", "meta", "loop", "admin", "request"}
  BY RegistryAssumption DEF RegistryAssumption, Program
<1>2. CASE t = "boot"
  <2>1. Program[t] = <<"init", "save">> /\ OnFailure[t] = <<0, 0>>
    BY <1>2 DEF Program, OnFailure
  <2>2. j \in {1, 2} /\ Len(Program[t]) = 2 /\ DOMAIN Program[t] = 1..2
    BY <2>1
  <2> QED
    BY <1>2, <2>1, <2>2
<1>3. CASE t = "meta"
  <2>1. Program[t] = <<"setList", "save">> /\ OnFailure[t] = <<0, 0>>
    BY <1>3 DEF Program, OnFailure
  <2>2. j \in {1, 2} /\ Len(Program[t]) = 2 /\ DOMAIN Program[t] = 1..2
    BY <2>1
  <2> QED
    BY <1>3, <2>1, <2>2
<1>4. CASE t = "loop"
  <2>1. Program[t] = <<"init", "save", "list", "save">> /\ OnFailure[t] = <<3, 3, 0, 0>>
    BY <1>4 DEF Program, OnFailure
  <2>2. j \in {1, 2, 3, 4} /\ Len(Program[t]) = 4 /\ DOMAIN Program[t] = 1..4
    BY <2>1
  <2>3. \/ j = 1 /\ Program[t][j] = "init" /\ OnFailure[t][j] = 3 /\ Program[t][j + 1] = "save"
        \/ j = 2 /\ Program[t][j] = "save" /\ OnFailure[t][j] = 3
        \/ j = 3 /\ Program[t][j] = "list" /\ OnFailure[t][j] = 0 /\ Program[t][j + 1] = "save"
        \/ j = 4 /\ Program[t][j] = "save" /\ OnFailure[t][j] = 0
    BY <2>1, <2>2
  <2> QED
    BY <1>4, <2>2, <2>3
<1>5. CASE t = "admin"
  <2>1. Program[t] = <<"list", "init", "save">> /\ OnFailure[t] = <<2, 3, 0>>
    BY <1>5 DEF Program, OnFailure
  <2>2. j \in {1, 2, 3} /\ Len(Program[t]) = 3 /\ DOMAIN Program[t] = 1..3
    BY <2>1
  <2> QED
    BY <1>5, <2>1, <2>2
<1>6. CASE t = "request"
  <2>1. Program[t] = <<"provider">> /\ OnFailure[t] = <<0>>
    BY <1>6 DEF Program, OnFailure
  <2>2. j = 1 /\ Len(Program[t]) = 1 /\ DOMAIN Program[t] = 1..1
    BY <2>1
  <2> QED
    BY <1>6, <2>1, <2>2
<1> QED
  BY <1>1, <1>2, <1>3, <1>4, <1>5, <1>6

LEMMA FirstJob == \A t \in Tasks : 1 \in DOMAIN Program[t]
<1> SUFFICES ASSUME NEW t \in Tasks PROVE 1 \in DOMAIN Program[t]
  OBVIOUS
<1>1. t \in {"boot", "meta", "loop", "admin", "request"}
  BY RegistryAssumption DEF RegistryAssumption, Program
<1> QED
  BY <1>1 DEF Program

\* The first step of a job is a place of it.
LEMMA FirstPlace ==
    ASSUME NEW t \in Tasks, NEW j \in DOMAIN Program[t]
    PROVE  /\ FirstStep(t, j) \in Places[Program[t][j]]
           /\ Program[t][j] = "save" => FirstStep(t, j) = "copy"
BY Jobs DEF FirstStep, Places

LEMMA PlacedAfterGoTo ==
    ASSUME Placed, pc \in [Tasks -> Steps], job \in [Tasks -> Nat], NEW t \in Tasks,
           NEW j \in {0} \cup DOMAIN Program[t], GoTo(t, j)
    PROVE  /\ Placed' /\ job' \in [Tasks -> Nat]
           /\ job'[t] = j /\ pc'[t] = FirstStep(t, j)
           /\ \A u \in Tasks \ {t} : pc'[u] = pc[u] /\ job'[u] = job[u]
<1>1. j \in Nat
  BY Jobs
<1>2. /\ job' \in [Tasks -> Nat] /\ job'[t] = j /\ pc'[t] = FirstStep(t, j)
      /\ \A u \in Tasks \ {t} : pc'[u] = pc[u] /\ job'[u] = job[u]
  BY <1>1 DEF GoTo
<1>3. j = 0 => FirstStep(t, j) = "idle"
  BY DEF FirstStep
<1>4. \A u \in Tasks :
        \/ job'[u] = 0 /\ pc'[u] = "idle"
        \/ job'[u] \in DOMAIN Program[u] /\ pc'[u] \in Places[Program[u][job'[u]]]
  BY <1>2, <1>3, FirstPlace DEF Placed
<1> QED
  BY <1>2, <1>4 DEF Placed

LEMMA PlacedAfterStep ==
    ASSUME Placed, pc \in [Tasks -> Steps], job \in [Tasks -> Nat], NEW t \in Tasks, NEW s, Step(t, s),
           pc[t] # "idle", s \in Places[Program[t][job[t]]]
    PROVE  /\ Placed' /\ job' = job /\ pc'[t] = s
           /\ \A u \in Tasks \ {t} : pc'[u] = pc[u]
<1>1. job' = job /\ pc'[t] = s /\ \A u \in Tasks \ {t} : pc'[u] = pc[u]
  BY DEF Step
<1>2. \A u \in Tasks :
        \/ job'[u] = 0 /\ pc'[u] = "idle"
        \/ job'[u] \in DOMAIN Program[u] /\ pc'[u] \in Places[Program[u][job'[u]]]
  BY <1>1 DEF Placed
<1> QED
  BY <1>1, <1>2 DEF Placed

\* What a place says of its job.
LEMMA JobAt ==
    ASSUME Placed, NEW t \in Tasks
    PROVE  /\ pc[t] # "idle" <=> job[t] # 0
           /\ pc[t] # "idle" => job[t] \in DOMAIN Program[t]
           /\ pc[t] \in {"copy", "write"} => Program[t][job[t]] = "save"
           /\ pc[t] \in {"fetch", "apply", "mark"} => Program[t][job[t]] \in {"init", "provider"}
           /\ pc[t] \in {"download", "install"} => Program[t][job[t]] = "list"
           /\ pc[t] \in {"metaDownload", "set", "enrich"} => Program[t][job[t]] = "setList"
           /\ pc[t] = "acquire" => Program[t][job[t]] \in {"init", "provider", "list"}
<1>1. CASE job[t] = 0 /\ pc[t] = "idle"
  BY <1>1
<1>2. CASE job[t] \in DOMAIN Program[t] /\ pc[t] \in Places[Program[t][job[t]]]
  <2>1. job[t] # 0 /\ Program[t][job[t]] \in {"init", "provider", "list", "setList", "save"}
    BY <1>2, Jobs
  <2> QED
    BY <1>2, <2>1 DEF Places
<1> QED
  BY <1>1, <1>2 DEF Placed

LEMMA PlacedAtStart ==
    StartJob \in [Tasks -> Nat]
    /\ \A t \in Tasks : \/ StartJob[t] = 0 /\ StartPc[t] = "idle"
                        \/ /\ StartJob[t] \in DOMAIN Program[t]
                           /\ StartPc[t] \in Places[Program[t][StartJob[t]]]
<1> SUFFICES ASSUME NEW t \in Tasks
             PROVE  \/ StartJob[t] = 0 /\ StartPc[t] = "idle"
                    \/ /\ StartJob[t] \in DOMAIN Program[t]
                       /\ StartPc[t] \in Places[Program[t][StartJob[t]]]
  BY DEF StartJob
<1>1. StartJob[t] \in {0, 1} /\ StartPc[t] = FirstStep(t, StartJob[t])
  BY DEF StartJob, StartPc
<1>2. FirstStep(t, 0) = "idle"
  BY DEF FirstStep
<1>3. 1 \in DOMAIN Program[t] /\ FirstStep(t, 1) \in Places[Program[t][1]]
  BY FirstJob, FirstPlace
<1> QED
  BY <1>1, <1>2, <1>3

\* A step of t that leaves the tables and the cache alone and copies nothing.
LEMMA SavingStays ==
    ASSUME SaveInv, NEW t \in Tasks,
           UNCHANGED <<catalog, list, cache>>, behind => behind', passed' = passed,
           \A u \in Tasks \ {t} : pc'[u] = pc[u] /\ job'[u] = job[u] /\ copy'[u] = copy[u],
           pc'[t] # "write",
           Saves(t) => Saves(t)'
    PROVE  SaveFollows'
<1>1. Current' = Current /\ (Saved <=> Saved')
  BY DEF Current, Saved, Names
<1>2. \A u \in Tasks \ {t} : Saves(u) => Saves(u)'
  BY <1>1 DEF Saves
<1>3. CASE behind
  BY <1>3 DEF SaveFollows
<1>4. CASE \E u \in Tasks : Saves(u)
  BY <1>2, <1>4 DEF SaveFollows
<1>5. CASE Saved /\ \A u \in Tasks : pc[u] = "write" /\ copy[u] # Current => u \in passed
  <2>1. ASSUME NEW u \in Tasks, pc'[u] = "write", copy'[u] # Current'
        PROVE  u \in passed'
    <3>1. u # t /\ pc[u] = "write" /\ copy[u] # Current
      BY <1>1, <2>1
    <3> QED
      BY <1>5, <3>1
  <2> QED
    BY <1>1, <1>5, <2>1 DEF SaveFollows
<1> QED
  BY <1>3, <1>4, <1>5 DEF SaveInv, SaveFollows

SaveState == SaveInv /\ IInv /\ job \in [Tasks -> Nat]

LEMMA WaitingSaves ==
    ASSUME SaveState, NEW t \in Tasks, Begin(t) \/ Acquire(t) \/ AcquireFails(t)
    PROVE  SaveInv' /\ job' \in [Tasks -> Nat]
<1>1. Placed /\ pc \in [Tasks -> Steps] /\ job \in [Tasks -> Nat]
  BY DEF SaveState, SaveInv, IInv, RegistryTypeOK
<1>2. CASE Begin(t)
  <2>1. 1 \in DOMAIN Program[t] /\ pc[t] = "idle" /\ GoTo(t, 1)
    BY <1>2, FirstJob DEF Begin
  <2>2. Placed' /\ job' \in [Tasks -> Nat] /\ pc'[t] = FirstStep(t, 1)
        /\ \A u \in Tasks \ {t} : pc'[u] = pc[u] /\ job'[u] = job[u]
    BY <1>1, <2>1, PlacedAfterGoTo
  <2>3. ~Saves(t)
    BY <1>1, <2>1, JobAt DEF Saves
  <2>4. pc'[t] # "write"
    BY <2>2 DEF FirstStep
  <2>5. SaveFollows'
    BY <1>2, <2>2, <2>3, <2>4, SavingStays DEF Begin, registry, history, SaveState
  <2> QED
    BY <2>2, <2>5 DEF SaveInv
<1>3. CASE Acquire(t)
  <2> DEFINE s == IF Program[t][job[t]] = "list" THEN "download" ELSE "fetch"
  <2>1. pc[t] = "acquire" /\ Step(t, s) /\ UNCHANGED <<registry, cache, copy, history>>
    BY <1>3 DEF Acquire
  <2>2. s \in Places[Program[t][job[t]]] /\ s # "write"
    BY <1>1, <2>1, JobAt DEF Places
  <2> HIDE DEF s
  <2>3. Placed' /\ job' = job /\ pc'[t] = s /\ \A u \in Tasks \ {t} : pc'[u] = pc[u]
    BY <1>1, <2>1, <2>2, PlacedAfterStep
  <2>4. Saves(t) => Saves(t)'
    BY <2>1, <2>3 DEF Saves
  <2>5. SaveFollows'
    BY <2>1, <2>2, <2>3, <2>4, SavingStays DEF registry, history, SaveState
  <2> QED
    BY <1>1, <2>3, <2>5 DEF SaveInv
<1>4. CASE AcquireFails(t)
  <2>1. pc[t] = "acquire" /\ behind' = (behind \/ t = "admin")
        /\ UNCHANGED <<catalog, list, cache, copy, passed>>
    BY <1>4 DEF AcquireFails, registry
  <2>2. job[t] \in DOMAIN Program[t]
    BY <1>1, <2>1, JobAt
  <2>3. PICK j \in {0} \cup DOMAIN Program[t] : GoTo(t, j)
    BY <1>4, <2>2, Jobs DEF AcquireFails, Fail
  <2>4. Placed' /\ job' \in [Tasks -> Nat] /\ pc'[t] = FirstStep(t, j)
        /\ \A u \in Tasks \ {t} : pc'[u] = pc[u] /\ job'[u] = job[u]
    BY <1>1, <2>3, PlacedAfterGoTo
  <2>5. CASE t = "admin"
    <3>1. SaveFollows'
      BY <2>1, <2>5 DEF SaveFollows
    <3> QED
      BY <2>4, <3>1 DEF SaveInv
  <2>6. CASE t # "admin"
    <3>1. ~Saves(t)
      BY <2>1, <2>6 DEF Saves
    <3>2. pc'[t] # "write"
      BY <2>4 DEF FirstStep
    <3>3. SaveFollows'
      BY <2>1, <2>4, <2>6, <3>1, <3>2, SavingStays DEF SaveState
    <3> QED
      BY <2>4, <3>3 DEF SaveInv
  <2> QED
    BY <2>5, <2>6
<1> QED
  BY <1>2, <1>3, <1>4

LEMMA FetchSaves ==
    ASSUME SaveState, NEW t \in Tasks, Fetch(t)
    PROVE  SaveInv' /\ job' \in [Tasks -> Nat]
<1>1. Placed /\ pc \in [Tasks -> Steps] /\ job \in [Tasks -> Nat]
  BY DEF SaveState, SaveInv, IInv, RegistryTypeOK
<1>2. pc[t] = "fetch" /\ UNCHANGED <<catalog, list, cache, copy, passed, behind>>
  BY DEF Fetch
<1>3. /\ job[t] \in DOMAIN Program[t] /\ Program[t][job[t]] \in {"init", "provider"}
  BY <1>1, <1>2, JobAt
<1>4. PICK f : GiveUp(t, f) \/ Receive(t, f)
  BY DEF Fetch
<1>5. CASE GiveUp(t, f)
  <2> DEFINE j == OnFailure[t][job[t]]
  <2>1. j \in {0} \cup DOMAIN Program[t] /\ GoTo(t, j)
    BY <1>3, <1>5, Jobs DEF GiveUp, Fail
  <2>2. t = "admin" /\ job[t] = 2 => j = 3 /\ Program[t][j] = "save"
    BY <1>3, Jobs
  <2> HIDE DEF j
  <2>3. Placed' /\ job' \in [Tasks -> Nat] /\ pc'[t] = FirstStep(t, j)
        /\ \A u \in Tasks \ {t} : pc'[u] = pc[u] /\ job'[u] = job[u]
    BY <1>1, <2>1, PlacedAfterGoTo
  <2>4. Saves(t) => Saves(t)'
    <3>1. SUFFICES ASSUME t = "admin", job[t] = 2 PROVE pc'[t] = "copy"
      BY <1>2 DEF Saves
    <3> QED
      BY <2>2, <2>3, <3>1 DEF FirstStep
  <2>5. pc'[t] # "write"
    BY <2>3 DEF FirstStep
  <2>6. SaveFollows'
    BY <1>2, <2>3, <2>4, <2>5, SavingStays DEF SaveState
  <2> QED
    BY <2>3, <2>6 DEF SaveInv
<1>6. CASE Receive(t, f)
  <2>1. Step(t, "apply") /\ "apply" \in Places[Program[t][job[t]]]
    BY <1>3, <1>6 DEF Receive, Places
  <2>2. Placed' /\ job' = job /\ pc'[t] = "apply" /\ \A u \in Tasks \ {t} : pc'[u] = pc[u]
    BY <1>1, <1>2, <2>1, PlacedAfterStep
  <2>3. Saves(t) => Saves(t)'
    BY <1>2, <2>2 DEF Saves
  <2>4. SaveFollows'
    BY <1>2, <2>2, <2>3, SavingStays DEF SaveState
  <2> QED
    BY <1>1, <2>2, <2>4 DEF SaveInv
<1> QED
  BY <1>4, <1>5, <1>6

\* After the swap a full refresh saves; a request's leaves the cache behind.
LEMMA SwapSaves ==
    ASSUME SaveState, NEW t \in Tasks, Apply(t) \/ Mark(t)
    PROVE  SaveInv' /\ job' \in [Tasks -> Nat]
<1>1. Placed /\ pc \in [Tasks -> Steps] /\ job \in [Tasks -> Nat]
  BY DEF SaveState, SaveInv, IInv, RegistryTypeOK
<1>2. CASE Apply(t)
  <2>1. pc[t] = "apply" /\ Step(t, "mark") /\ behind' = (behind \/ t = "request")
    BY <1>2 DEF Apply
  <2>2. "mark" \in Places[Program[t][job[t]]]
    BY <1>1, <2>1, JobAt DEF Places
  <2>3. Placed' /\ job' = job /\ pc'[t] = "mark"
    BY <1>1, <2>1, <2>2, PlacedAfterStep
  <2>4. SaveFollows'
    BY <2>1, <2>3 DEF SaveFollows, Saves
  <2> QED
    BY <1>1, <2>3, <2>4 DEF SaveInv
<1>3. CASE Mark(t)
  <2> DEFINE j == IF job[t] < Len(Program[t]) THEN job[t] + 1 ELSE 0
  <2>1. pc[t] = "mark" /\ GoTo(t, j) /\ UNCHANGED <<catalog, list, cache, copy, passed, behind>>
    BY <1>3 DEF Mark, Succeed, history
  <2>2. job[t] \in DOMAIN Program[t] /\ Program[t][job[t]] \in {"init", "provider"}
    BY <1>1, <2>1, JobAt
  <2>3. j \in {0} \cup DOMAIN Program[t]
    BY <2>2, Jobs
  <2>4. t # "request" => j # 0 /\ Program[t][j] = "save"
    BY <2>2, Jobs
  <2> HIDE DEF j
  <2>5. Placed' /\ job' \in [Tasks -> Nat] /\ pc'[t] = FirstStep(t, j)
        /\ \A u \in Tasks \ {t} : pc'[u] = pc[u] /\ job'[u] = job[u]
    BY <1>1, <2>1, <2>3, PlacedAfterGoTo
  <2>6. CASE t # "request"
    <3>1. pc'[t] = "copy"
      BY <2>4, <2>5, <2>6 DEF FirstStep
    <3>2. SaveFollows'
      BY <3>1 DEF SaveFollows, Saves
    <3> QED
      BY <2>5, <3>2 DEF SaveInv
  <2>7. CASE t = "request"
    <3>1. ~Saves(t) /\ pc'[t] # "write"
      BY <2>1, <2>5, <2>7 DEF Saves, FirstStep
    <3>2. SaveFollows'
      BY <2>1, <2>5, <3>1, SavingStays DEF SaveState
    <3> QED
      BY <2>5, <3>2 DEF SaveInv
  <2> QED
    BY <2>6, <2>7
<1> QED
  BY <1>2, <1>3

LEMMA DownloadSaves ==
    ASSUME SaveState, NEW t \in Tasks, Download(t) \/ DownloadFails(t)
    PROVE  SaveInv' /\ job' \in [Tasks -> Nat]
<1>1. /\ Placed /\ pc \in [Tasks -> Steps] /\ job \in [Tasks -> Nat]
      /\ copy \in [Tasks -> Copies]
  BY DEF SaveState, SaveInv, IInv, RegistryTypeOK
<1>2. /\ pc[t] \in {"download", "metaDownload"}
      /\ UNCHANGED <<catalog, list, cache, passed, behind>>
  BY DEF Download, DownloadFails, registry, history
<1>3. /\ job[t] \in DOMAIN Program[t]
      /\ Program[t][job[t]] = IF pc[t] = "download" THEN "list" ELSE "setList"
  BY <1>1, <1>2, JobAt
<1>4. ~Saves(t)
  BY <1>2, <1>3, Jobs DEF Saves
<1>5. CASE Download(t)
  <2> DEFINE s == IF pc[t] = "download" THEN "install" ELSE "set"
  <2>1. Step(t, s) /\ s \in Places[Program[t][job[t]]] /\ s # "write"
    BY <1>2, <1>3, <1>5 DEF Download, Places
  <2> HIDE DEF s
  <2>2. Placed' /\ job' = job /\ pc'[t] = s /\ \A u \in Tasks \ {t} : pc'[u] = pc[u]
    BY <1>1, <1>2, <2>1, PlacedAfterStep
  <2>3. \A u \in Tasks \ {t} : copy'[u] = copy[u]
    BY <1>1, <1>5 DEF Download
  <2>4. SaveFollows'
    BY <1>2, <1>4, <2>1, <2>2, <2>3, SavingStays DEF SaveState
  <2> QED
    BY <1>1, <2>2, <2>4 DEF SaveInv
<1>6. CASE DownloadFails(t)
  <2>1. PICK j \in {0} \cup DOMAIN Program[t] : GoTo(t, j)
    BY <1>3, <1>6, Jobs DEF DownloadFails, Fail
  <2>2. Placed' /\ job' \in [Tasks -> Nat] /\ pc'[t] = FirstStep(t, j)
        /\ \A u \in Tasks \ {t} : pc'[u] = pc[u] /\ job'[u] = job[u]
    BY <1>1, <2>1, PlacedAfterGoTo
  <2>3. pc'[t] # "write" /\ copy' = copy
    BY <1>6, <2>2 DEF FirstStep, DownloadFails
  <2>4. SaveFollows'
    BY <1>2, <1>4, <2>2, <2>3, SavingStays DEF SaveState
  <2> QED
    BY <2>2, <2>4 DEF SaveInv
<1> QED
  BY <1>5, <1>6

\* A new list is saved: at once, or after the inventory the administrator asked
\* for with it.
LEMMA ListSaves ==
    ASSUME SaveState, NEW t \in Tasks, Install(t) \/ SetModelList(t) \/ EnrichModels(t)
    PROVE  SaveInv' /\ job' \in [Tasks -> Nat]
<1>1. Placed /\ pc \in [Tasks -> Steps] /\ job \in [Tasks -> Nat]
  BY DEF SaveState, SaveInv, IInv, RegistryTypeOK
<1>2. CASE SetModelList(t)
  <2>1. pc[t] = "set" /\ Step(t, "enrich")
    BY <1>2 DEF SetModelList
  <2>2. "enrich" \in Places[Program[t][job[t]]]
    BY <1>1, <2>1, JobAt DEF Places
  <2>3. Placed' /\ job' = job /\ pc'[t] = "enrich"
    BY <1>1, <2>1, <2>2, PlacedAfterStep
  <2>4. SaveFollows'
    BY <2>3 DEF SaveFollows, Saves
  <2> QED
    BY <1>1, <2>3, <2>4 DEF SaveInv
<1>3. CASE Install(t) \/ EnrichModels(t)
  <2> DEFINE j == job[t] + 1
  <2>1. pc[t] \in {"install", "enrich"} /\ Succeed(t)
    BY <1>3 DEF Install, EnrichModels
  <2>2. job[t] \in DOMAIN Program[t] /\ Program[t][job[t]] = IF pc[t] = "install" THEN "list" ELSE "setList"
    BY <1>1, <2>1, JobAt
  <2>3. pc[t] = "enrich" => t # "request"
    <3>1. Program["request"] = <<"provider">>
      BY DEF Program
    <3> QED
      BY <2>2, <3>1
  <2>4. /\ job[t] < Len(Program[t]) /\ j \in DOMAIN Program[t]
        /\ Program[t][j] = "save" \/ (t = "admin" /\ j = 2)
    BY <2>1, <2>2, <2>3, Jobs
  <2>5. GoTo(t, j)
    BY <2>1, <2>4 DEF Succeed
  <2> HIDE DEF j
  <2>6. Placed' /\ job' \in [Tasks -> Nat] /\ job'[t] = j /\ pc'[t] = FirstStep(t, j)
    BY <1>1, <2>4, <2>5, PlacedAfterGoTo
  <2>7. Saves(t)'
    BY <2>4, <2>6, FirstPlace DEF Saves
  <2>8. SaveFollows'
    BY <2>7 DEF SaveFollows
  <2> QED
    BY <2>6, <2>8 DEF SaveInv
<1> QED
  BY <1>2, <1>3

\* A write of a true copy overtakes every other that is under way; an old copy
\* is followed by another, or has been overtaken.
LEMMA WriteSaves ==
    ASSUME SaveState, NEW t \in Tasks, Copy(t) \/ Write(t) \/ WriteFails(t)
    PROVE  SaveInv' /\ job' \in [Tasks -> Nat]
<1>1. /\ Placed /\ pc \in [Tasks -> Steps] /\ job \in [Tasks -> Nat]
      /\ copy \in [Tasks -> Copies]
  BY DEF SaveState, SaveInv, IInv, RegistryTypeOK
<1>2. CASE Copy(t)
  <2>1. pc[t] = "copy" /\ Step(t, "write") /\ UNCHANGED <<catalog, list>> /\ copy'[t] = Current
    BY <1>1, <1>2 DEF Copy, registry
  <2>2. "write" \in Places[Program[t][job[t]]]
    BY <1>1, <2>1, JobAt DEF Places
  <2>3. Placed' /\ job' = job /\ pc'[t] = "write"
    BY <1>1, <2>1, <2>2, PlacedAfterStep
  <2>4. Current' = Current
    BY <2>1 DEF Current, Names
  <2>5. SaveFollows'
    BY <2>1, <2>3, <2>4 DEF SaveFollows, Saves
  <2> QED
    BY <1>1, <2>3, <2>5 DEF SaveInv
<1>3. CASE WriteFails(t)
  <2>1. pc[t] = "write" /\ behind'
    BY <1>3 DEF WriteFails
  <2>2. PICK j \in {0} \cup DOMAIN Program[t] : GoTo(t, j)
    BY <1>1, <1>3, <2>1, JobAt, Jobs DEF WriteFails, Fail
  <2>3. Placed' /\ job' \in [Tasks -> Nat]
    BY <1>1, <2>2, PlacedAfterGoTo
  <2> QED
    BY <2>1, <2>3 DEF SaveInv, SaveFollows
<1>4. CASE Write(t)
  <2>1. /\ pc[t] = "write" /\ UNCHANGED <<catalog, list>>
        /\ cache' = copy[t]
        /\ passed' = (passed \cup {u \in Tasks : pc[u] = "write"}) \ {t}
        /\ behind' = (copy[t] # Current /\ (behind \/ t \in passed))
        /\ \A u \in Tasks \ {t} : copy'[u] = copy[u]
    BY <1>1, <1>4 DEF Write, registry
  <2>2. job[t] \in DOMAIN Program[t] /\ Program[t][job[t]] = "save"
    BY <1>1, <2>1, JobAt
  <2>3. PICK j \in {0} \cup DOMAIN Program[t] : GoTo(t, j)
    BY <1>4, <2>2, Jobs DEF Write, Succeed
  <2>4. Placed' /\ job' \in [Tasks -> Nat] /\ pc'[t] = FirstStep(t, j)
        /\ \A u \in Tasks \ {t} : pc'[u] = pc[u] /\ job'[u] = job[u]
    BY <1>1, <2>3, PlacedAfterGoTo
  <2>5. pc'[t] # "write"
    BY <2>4 DEF FirstStep
  <2>6. Current' = Current
    BY <2>1 DEF Current, Names
  <2>7. CASE copy[t] = Current
    <3>1. Saved'
      BY <2>1, <2>6, <2>7 DEF Saved, Current
    <3>2. \A u \in Tasks : pc'[u] = "write" => u \in passed'
      BY <2>1, <2>4, <2>5
    <3> QED
      BY <2>4, <3>1, <3>2 DEF SaveInv, SaveFollows
  <2>8. CASE copy[t] # Current /\ (behind \/ t \in passed)
    BY <2>1, <2>4, <2>8 DEF SaveInv, SaveFollows
  <2>9. CASE copy[t] # Current /\ ~behind /\ t \notin passed
    <3>1. PICK u \in Tasks : Saves(u)
      BY <2>1, <2>9 DEF SaveState, SaveInv, SaveFollows
    <3>2. u # t
      <4>1. ~Saves(t)
        BY <2>1, <2>2, <2>9, Jobs DEF Saves
      <4> QED
        BY <3>1, <4>1
    <3>3. Saves(u)'
      BY <2>1, <2>4, <2>6, <3>1, <3>2 DEF Saves
    <3> QED
      BY <2>4, <3>3 DEF SaveInv, SaveFollows
  <2> QED
    BY <2>7, <2>8, <2>9
<1> QED
  BY <1>2, <1>3, <1>4

LEMMA OtherSaves ==
    ASSUME SaveState, SkipSave \/ Restart \/ Publish \/ UNCHANGED vars
    PROVE  SaveInv' /\ job' \in [Tasks -> Nat]
<1>1. Placed /\ pc \in [Tasks -> Steps] /\ job \in [Tasks -> Nat]
  BY DEF SaveState, SaveInv, IInv, RegistryTypeOK
<1>2. CASE SkipSave
  <2>1. "admin" \in Tasks /\ GoTo("admin", 0) /\ behind'
    BY <1>2 DEF SkipSave
  <2>2. Placed' /\ job' \in [Tasks -> Nat]
    BY <1>1, <2>1, PlacedAfterGoTo
  <2> QED
    BY <2>1, <2>2 DEF SaveInv, SaveFollows
<1>3. CASE Restart
  <2>1. job' = StartJob /\ pc' = StartPc /\ behind'
    BY <1>3 DEF Restart
  <2>2. Placed' /\ job' \in [Tasks -> Nat]
    BY <2>1, PlacedAtStart DEF Placed
  <2> QED
    BY <2>1, <2>2 DEF SaveInv, SaveFollows
<1>4. CASE Publish \/ UNCHANGED vars
  <2>1. UNCHANGED <<catalog, list, cache, job, pc, copy, passed, behind>>
    BY <1>4 DEF Publish, vars, registry, tasks, history
  <2>2. Placed' /\ job' \in [Tasks -> Nat]
    BY <1>1, <2>1 DEF Placed
  <2>3. Current' = Current /\ (Saved <=> Saved')
    BY <2>1 DEF Current, Saved, Names
  <2>4. \A u \in Tasks : Saves(u) => Saves(u)'
    BY <2>1, <2>3 DEF Saves
  <2>5. SaveFollows'
    BY <2>1, <2>3, <2>4 DEF SaveState, SaveInv, SaveFollows
  <2> QED
    BY <2>2, <2>5 DEF SaveInv
<1> QED
  BY <1>2, <1>3, <1>4

\* Whatever fails, is cancelled, or overlaps: once the goroutines are at rest
\* the cache is what is in memory, unless the code let it fall behind knowingly.
THEOREM SavesAreCurrent == RegistrySpec => []SavedAtRest
<1>1. RegistryInit => SaveInv /\ job \in [Tasks -> Nat]
  <2> SUFFICES ASSUME RegistryInit PROVE SaveInv /\ job \in [Tasks -> Nat]
    OBVIOUS
  <2>1. job = StartJob /\ pc = StartPc
    BY DEF RegistryInit
  <2>2. Placed /\ job \in [Tasks -> Nat]
    BY <2>1, PlacedAtStart DEF Placed
  <2>3. Saved
    BY DEF RegistryInit, Saved, NoCopy, ListCopy, Names
  <2>4. \A t \in Tasks : pc[t] # "write"
    BY <2>1, StartTypes
  <2> QED
    BY <2>2, <2>3, <2>4 DEF SaveInv, SaveFollows
<1>2. SaveState /\ [RegistryNext]_vars => SaveInv' /\ job' \in [Tasks -> Nat]
  BY WaitingSaves, FetchSaves, SwapSaves, DownloadSaves, ListSaves, WriteSaves, OtherSaves
  DEF RegistryNext
<1>3. SaveInv /\ IInv => SavedAtRest
  <2> SUFFICES ASSUME SaveInv, IInv, ~behind, \A t \in DOMAIN pc : pc[t] = "idle"
               PROVE  Saved
    BY DEF SavedAtRest, Saved
  <2>1. \A t \in Tasks : pc[t] = "idle" /\ job[t] = 0
    BY JobAt DEF SaveInv, IInv, RegistryTypeOK
  <2>2. \A t \in Tasks : ~Saves(t)
    BY <2>1 DEF Saves
  <2> QED
    BY <2>2 DEF SaveInv, SaveFollows
<1>4. SaveState <=> SaveInv /\ IInv /\ job \in [Tasks -> Nat]
  BY DEF SaveState
<1>5. (SaveInv /\ job \in [Tasks -> Nat]) /\ IInv /\ [RegistryNext]_vars
      => (SaveInv /\ job \in [Tasks -> Nat])'
  BY <1>2, <1>4
<1> QED
  BY <1>1, <1>3, <1>5, RegistryInvariance, PTL DEF RegistrySpec

=============================================================================
