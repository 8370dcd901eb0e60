---------------------------- MODULE ModelRegistry ----------------------------
(***************************************************************************)
(* The model registry (internal/providers/registry*.go): which models each *)
(* provider has, which provider a bare model ID is routed to, the metadata *)
(* list the models are enriched with, and the cache the next process       *)
(* starts from.                                                            *)
(*                                                                         *)
(* Five goroutines work on it: the initial fetch (InitializeAsync), the    *)
(* initial metadata fetch (providers.Init), the refresh loop, an           *)
(* administrator's runtime refresh, and a request for a model that is not  *)
(* there.  Each runs a program of jobs; a job's network calls, its         *)
(* critical sections under r.mu and its cache write are steps of their own.*)
(*                                                                         *)
(* A model is an entry [provider, model, list]: list is the version of the *)
(* metadata list it was enriched with, 0 for none.  Every model is on the  *)
(* list; configured metadata and pricing are left out.                     *)
(***************************************************************************)
EXTENDS Naturals, Sequences, FiniteSets

CONSTANTS
    Tasks,        \* the goroutines of an instance: DOMAIN Program, or some of them
    Providers,    \* configured provider names
    Rank,         \* registration order: initializeProviders sorts the names
    Models,       \* model IDs
    Offers,       \* per provider, what its ListModels may return
    Configured,   \* per provider, its configured models
    Allowlist,    \* configured_provider_models_mode: allowlist, or fallback
    Checkers,     \* providers with a CheckAvailability
    Targets,      \* what a request can select: one provider, or all of a type
    MaxList,      \* bound: versions the metadata list is published in
    MaxRestarts,  \* bound: process restarts
    MaxBusy       \* bound: goroutines at work when another one begins

Program ==
    [boot    |-> <<"init", "save">>,
     meta    |-> <<"setList", "save">>,
     loop    |-> <<"init", "save", "list", "save">>,
     admin   |-> <<"list", "init", "save">>,
     request |-> <<"provider">>]

\* The job that follows a failed one; 0 ends the program.
OnFailure ==
    [boot    |-> <<0, 0>>,
     meta    |-> <<0, 0>>,
     loop    |-> <<3, 3, 0, 0>>,
     admin   |-> <<2, 3, 0>>,
     request |-> <<0>>]

ASSUME RegistryAssumption ==
    /\ Tasks \subseteq DOMAIN Program
    /\ Rank \in [Providers -> Nat]
    /\ \A p, q \in Providers : Rank[p] = Rank[q] => p = q
    /\ Offers \in [Providers -> SUBSET Models]
    /\ Configured \in [Providers -> SUBSET Models]
    /\ Allowlist \in BOOLEAN
    /\ Checkers \subseteq Providers
    /\ Targets \subseteq (SUBSET Providers) \ {{}}
    /\ MaxList \in Nat \ {0}
    /\ MaxRestarts \in Nat /\ MaxBusy \in Nat \ {0}

VARIABLES
    catalog,      \* modelsByProvider
    routes,       \* models: the entries bare IDs are routed to
    list,         \* the version of modelList
    initialized,
    asked,        \* providers whose lastModelFetchAt is set
    errors,       \* providers whose lastModelFetchError is set
    cache,        \* the cache backend
    sem,          \* refreshCh: the task that holds it
    job,          \* per task, the job of its program it is at, 0 when idle
    pc,           \* ... where in the job
    fetched,      \* ... the inventory it fetched
    copy          \* ... its copy for the cache, or the list it downloaded

\* History, read by the properties only.
VARIABLES
    published,    \* the version its URL serves
    restarts,
    overtaken,    \* tasks whose fetch is older than another task's apply
    stale,        \* providers whose entries were enriched with a replaced list
    passed,       \* tasks whose copy is older than another task's write
    behind        \* the cache was knowingly left behind

registry == <<catalog, routes, list, initialized, asked, errors>>
tasks == <<sem, job, pc, fetched, copy>>
history == <<published, restarts, overtaken, stale, passed, behind>>
vars == <<registry, cache, tasks, history>>

Nobody == "nobody"
HeldInside == {"fetch", "apply", "mark", "download", "install"}
Steps == HeldInside \cup
         {"idle", "acquire", "metaDownload", "set", "enrich", "copy", "write"}
Entry == [provider : Providers, model : Models, list : 0..MaxList]
Name == [provider : Providers, model : Models]
Copies == [saved : BOOLEAN, names : SUBSET Name, list : 0..MaxList]
ListCopy(version) == [saved |-> FALSE, names |-> {}, list |-> version]
NoCopy == ListCopy(0)
Inventories ==
    [entries : SUBSET Entry, of : SUBSET Providers,
     answered : SUBSET Providers, list : 0..MaxList]
Nothing == [entries |-> {}, of |-> {}, answered |-> {}, list |-> 0]

-----------------------------------------------------------------------------
(* Inventories *)

Of(S, p) == {e \in S : e.provider = p}

Names(S) == {[provider |-> e.provider, model |-> e.model] : e \in S}

\* enrichProviderModelMaps; without a list the entries stay as they are.
Enrich(S, version) ==
    IF version = 0 THEN S ELSE {[e EXCEPT !.list = version] : e \in S}

\* rebuildGlobalModelMap, and the same choice in fetchAllProviderModels: the
\* first provider in registration order has the bare ID.
FirstOf(S) ==
    {e \in S : \A f \in S : f.model = e.model => Rank[e.provider] <= Rank[f.provider]}

\* What ListModels comes back with: an error or a list.
Outcome(p) == {[ok |-> FALSE, models |-> {}]} \cup
              {[ok |-> TRUE, models |-> s] : s \in SUBSET Offers[p]}

Answers(T) ==
    {o \in [T -> UNION {Outcome(p) : p \in T}] : \A p \in T : o[p] \in Outcome(p)}

\* In allowlist mode a provider with configured models is not asked.
Skipped(p) == Allowlist /\ Configured[p] # {}

\* applyConfiguredProviderModels: configured models replace what the provider
\* lists (allowlist) or stand in for a list it failed to give (fallback).
Inventory(p, o) ==
    IF Skipped(p) \/ ~o.ok \/ o.models = {} THEN Configured[p] ELSE o.models

Plain(p, models) == {[provider |-> p, model |-> m, list |-> 0] : m \in models}

Merge(T, o) == UNION {Plain(p, Inventory(p, o[p])) : p \in T}

\* fetchAllProviderModels for the providers T.
FetchAll(T, o) ==
    [entries  |-> Enrich(Merge(T, o), list),
     of       |-> T,
     answered |-> {p \in T : ~Skipped(p) /\ o[p].ok},
     list     |-> list]

\* The providers without an inventory of their own: failedProviders.
Failed(f) == {p \in f.of : ~Skipped(p) /\ p \notin f.answered /\ Configured[p] = {}}

\* Bug: an empty model list is no error.
ErrorsOfFailed(f) == Failed(f)

\* The providers whose lastModelFetchError the fetch sets; those of f.of outside
\* it lose theirs.
Errors(f) == {p \in f.of : \/ ~Skipped(p) /\ p \notin f.answered
                          \/ Of(f.entries, p) = {}}

-----------------------------------------------------------------------------
(* Programs and the semaphore *)

FirstStep(t, j) ==
    IF j = 0 THEN "idle"
    ELSE IF Program[t][j] = "setList" THEN "metaDownload"
    ELSE IF Program[t][j] = "save" THEN "copy" ELSE "acquire"

GoTo(t, j) ==
    /\ job' = [job EXCEPT ![t] = j]
    /\ pc' = [pc EXCEPT ![t] = FirstStep(t, j)]

Succeed(t) == GoTo(t, IF job[t] < Len(Program[t]) THEN job[t] + 1 ELSE 0)
Fail(t) == GoTo(t, OnFailure[t][job[t]])
Step(t, step) == pc' = [pc EXCEPT ![t] = step] /\ UNCHANGED job

\* InitializeAsync and providers.Init start their goroutines with the process.
AtStart == Tasks \cap {"boot", "meta"}
StartJob == [t \in Tasks |-> IF t \in AtStart THEN 1 ELSE 0]
StartPc == [t \in Tasks |-> FirstStep(t, StartJob[t])]
NoneFetched == [t \in Tasks |-> Nothing]
NoCopies == [t \in Tasks |-> NoCopy]

\* A tick, a call of RefreshRuntime, a request for an unknown model.
Begin(t) ==
    /\ t \notin AtStart
    /\ pc[t] = "idle"
    /\ Cardinality({u \in Tasks : pc[u] # "idle"}) < MaxBusy
    /\ GoTo(t, 1)
    /\ UNCHANGED <<registry, cache, sem, fetched, copy, history>>

Leave(t) == sem' = Nobody

\* Bug: the semaphore is not taken.
AcquireOpen(t) ==
    /\ pc[t] = "acquire"
    /\ sem' = t
    /\ Step(t, IF Program[t][job[t]] = "list" THEN "download" ELSE "fetch")
    /\ UNCHANGED <<registry, cache, fetched, copy, history>>

Acquire(t) ==
    /\ pc[t] = "acquire"
    /\ sem = Nobody
    /\ sem' = t
    /\ Step(t, IF Program[t][job[t]] = "list" THEN "download" ELSE "fetch")
    /\ UNCHANGED <<registry, cache, fetched, copy, history>>

\* The context ends first.  RefreshRuntime then returns at once.
AcquireFails(t) ==
    /\ pc[t] = "acquire"
    /\ IF t = "admin" THEN GoTo(t, 0) ELSE Fail(t)
    /\ behind' = (behind \/ t = "admin")
    /\ UNCHANGED <<registry, cache, sem, fetched, copy, published, restarts,
                   overtaken, stale, passed>>

-----------------------------------------------------------------------------
(* Provider inventories *)

\* The providers a job asks: all of them, or a request's targets without those
\* whose availability check failed.
Asked(t) ==
    IF t = "request"
    THEN {T \in SUBSET Providers : \E U \in Targets : T \subseteq U /\ U \ T \subseteq Checkers}
    ELSE {Providers}

\* initialize gives up without models; RefreshProviderModels only when every
\* provider failed.
GivesUp(t, f) ==
    f.entries = {} /\ (t = "request" => Failed(f) = f.of)

\* Without models the fetch times and errors are all that is recorded.
GiveUp(t, f) ==
    /\ GivesUp(t, f)
    /\ asked' = asked \cup f.of
    /\ errors' = (errors \ f.of) \cup Errors(f)
    /\ Leave(t)
    /\ Fail(t)
    /\ UNCHANGED <<fetched, overtaken>>

Receive(t, f) ==
    /\ ~GivesUp(t, f)
    /\ fetched' = [fetched EXCEPT ![t] = f]
    /\ overtaken' = overtaken \ {t}
    /\ Step(t, "apply")
    /\ UNCHANGED <<asked, errors, sem>>

\* fetchAllProviderModels, then enrichFetchedProviderModelMaps reads the list.
Fetch(t) ==
    /\ pc[t] = "fetch"
    /\ \E T \in Asked(t) : \E o \in Answers(T) :
        LET f == FetchAll(T, o) IN GiveUp(t, f) \/ Receive(t, f)
    /\ UNCHANGED <<catalog, routes, list, initialized, cache, copy, published,
                   restarts, stale, passed, behind>>

\* Bug: a refresh of some providers drops what the others had.
ReplaceAll(t) == fetched[t].entries

\* applyFetchedInventory replaces the inventory, applyFetchedProviderInventory
\* only that of the providers that answered.
NewCatalog(t) ==
    LET f == fetched[t]
    IN  IF t = "request"
        THEN {e \in catalog : e.provider \notin f.of \ Failed(f)} \cup f.entries
        ELSE f.entries

\* Bug: applyFetchedProviderInventory keeps the routes of the other providers.
NewRoutesKept(t) ==
    IF t = "request"
    THEN {e \in routes : e.provider \notin fetched[t].of \ Failed(fetched[t])}
         \cup FirstOf(fetched[t].entries)
    ELSE FirstOf(fetched[t].entries)

NewRoutes(t) == FirstOf(NewCatalog(t))

NewStale(t) ==
    LET new == fetched[t].of \ Failed(fetched[t])
    IN  (IF t = "request" THEN stale \ new ELSE {}) \cup
        (IF fetched[t].list # list THEN new ELSE {})

\* The swap under r.mu.
Apply(t) ==
    /\ pc[t] = "apply"
    /\ catalog' = NewCatalog(t)
    /\ routes' = NewRoutes(t)
    /\ errors' = (errors \ fetched[t].of) \cup Errors(fetched[t])
    /\ overtaken' = overtaken \cup {u \in Tasks \ {t} : pc[u] = "apply"}
    /\ stale' = NewStale(t)
    /\ asked' = asked \cup fetched[t].of
    /\ behind' = (behind \/ t = "request")
    /\ Step(t, "mark")
    /\ UNCHANGED <<list, initialized, cache, sem, fetched, copy, published,
                   restarts, passed>>

Mark(t) ==
    /\ pc[t] = "mark"
    /\ initialized' = TRUE
    /\ fetched' = [fetched EXCEPT ![t] = Nothing]
    /\ Leave(t)
    /\ Succeed(t)
    /\ UNCHANGED <<catalog, routes, list, asked, errors, cache, copy, history>>

-----------------------------------------------------------------------------
(* The metadata list *)

\* modeldata.Fetch succeeds; the initial fetch holds no semaphore.
Download(t) ==
    /\ pc[t] \in {"download", "metaDownload"}
    /\ copy' = [copy EXCEPT ![t] = ListCopy(published)]
    /\ Step(t, IF pc[t] = "download" THEN "install" ELSE "set")
    /\ UNCHANGED <<registry, cache, sem, fetched, history>>

DownloadFails(t) ==
    /\ pc[t] \in {"download", "metaDownload"}
    /\ IF pc[t] = "download" THEN Leave(t) ELSE UNCHANGED sem
    /\ \/ Fail(t)
       \/ t = "admin" /\ GoTo(t, 0)
    /\ UNCHANGED <<registry, cache, fetched, copy, history>>

\* Bug: only the models bare IDs are routed to are enriched again.
EnrichRoutesOnly(version) ==
    /\ catalog' = (catalog \ routes) \cup Enrich(routes, version)
    /\ routes' = Enrich(routes, version)
    /\ stale' = {}

\* enrichModelsLocked
EnrichAll(version) ==
    /\ catalog' = Enrich(catalog, version)
    /\ routes' = Enrich(routes, version)
    /\ stale' = {}

\* setModelListAndEnrich, and the release.
Install(t) ==
    /\ pc[t] = "install"
    /\ list' = copy[t].list
    /\ EnrichAll(copy[t].list)
    /\ copy' = [copy EXCEPT ![t] = NoCopy]
    /\ Leave(t)
    /\ Succeed(t)
    /\ UNCHANGED <<initialized, asked, errors, cache, fetched, published, restarts,
                   overtaken, passed, behind>>

\* SetModelList
SetModelList(t) ==
    /\ pc[t] = "set"
    /\ list' = copy[t].list
    /\ copy' = [copy EXCEPT ![t] = NoCopy]
    /\ Step(t, "enrich")
    /\ UNCHANGED <<catalog, routes, initialized, asked, errors, cache, sem,
                   fetched, history>>

\* enrichModels
EnrichModels(t) ==
    /\ pc[t] = "enrich"
    /\ EnrichAll(list)
    /\ Succeed(t)
    /\ UNCHANGED <<list, initialized, asked, errors, cache, sem, fetched, copy,
                   published, restarts, overtaken, passed, behind>>

-----------------------------------------------------------------------------
(* The cache *)

Current == [saved |-> TRUE, names |-> Names(catalog), list |-> list]

\* Bug: the copy takes the models bare IDs are routed to.
CopyRoutes(t) ==
    /\ pc[t] = "copy"
    /\ t = "admin" => routes # {}
    /\ copy' = [copy EXCEPT ![t] = [Current EXCEPT !.names = Names(routes)]]
    /\ passed' = passed \ {t}
    /\ Step(t, "write")
    /\ UNCHANGED <<registry, cache, sem, fetched, published, restarts, overtaken,
                   stale, behind>>

\* SaveToCache copies under r.mu; RefreshRuntime asks for models first.
Copy(t) ==
    /\ pc[t] = "copy"
    /\ t = "admin" => routes # {}
    /\ copy' = [copy EXCEPT ![t] = Current]
    /\ passed' = passed \ {t}
    /\ Step(t, "write")
    /\ UNCHANGED <<registry, cache, sem, fetched, published, restarts, overtaken,
                   stale, behind>>

SkipSave ==
    /\ "admin" \in Tasks
    /\ pc["admin"] = "copy"
    /\ routes = {}
    /\ behind' = TRUE
    /\ GoTo("admin", 0)
    /\ UNCHANGED <<registry, cache, sem, fetched, copy, published, restarts,
                   overtaken, stale, passed>>

Write(t) ==
    /\ pc[t] = "write"
    /\ cache' = copy[t]
    /\ passed' = (passed \cup {u \in Tasks : pc[u] = "write"}) \ {t}
    /\ behind' = (copy[t] # Current /\ (behind \/ t \in passed))
    /\ copy' = [copy EXCEPT ![t] = NoCopy]
    /\ Succeed(t)
    /\ UNCHANGED <<registry, sem, fetched, published, restarts, overtaken, stale>>

WriteFails(t) ==
    /\ pc[t] = "write"
    /\ behind' = TRUE
    /\ copy' = [copy EXCEPT ![t] = NoCopy]
    /\ Fail(t)
    /\ UNCHANGED <<registry, cache, sem, fetched, published, restarts, overtaken,
                   stale, passed>>

\* LoadFromCache: what it finds, with the configured models laid over it.  A
\* cache that was never written, or cannot be read, gives nothing.
Cached(p) == {n.model : n \in {k \in cache.names : k.provider = p}}

Loaded ==
    IF ~cache.saved THEN {}
    ELSE Enrich(Merge(Providers, [p \in Providers |-> [ok |-> TRUE, models |-> Cached(p)]]),
                cache.list)

-----------------------------------------------------------------------------
RegistryInit ==
    /\ catalog = {} /\ routes = {} /\ list = 0
    /\ initialized = FALSE /\ asked = {} /\ errors = {}
    /\ cache = NoCopy
    /\ sem = Nobody /\ job = StartJob /\ pc = StartPc
    /\ fetched = NoneFetched /\ copy = NoCopies
    /\ published = 1 /\ restarts = 0
    /\ overtaken = {} /\ stale = {} /\ passed = {} /\ behind = FALSE

\* The provider of the list publishes a new version.
Publish ==
    /\ published < MaxList
    /\ published' = published + 1
    /\ UNCHANGED <<registry, cache, tasks, restarts, overtaken, stale, passed,
                   behind>>

\* The process ends, wherever its goroutines are, and another one starts.
Restart ==
    /\ restarts < MaxRestarts
    /\ \E ok \in BOOLEAN :
        /\ catalog' = IF ok THEN Loaded ELSE {}
        /\ list' = IF ok THEN cache.list ELSE 0
    /\ routes' = FirstOf(catalog')
    /\ initialized' = FALSE
    /\ asked' = {} /\ errors' = {}
    /\ sem' = Nobody /\ job' = StartJob /\ pc' = StartPc
    /\ fetched' = NoneFetched /\ copy' = NoCopies
    /\ restarts' = restarts + 1
    /\ overtaken' = {} /\ stale' = {} /\ passed' = {} /\ behind' = TRUE
    /\ UNCHANGED <<cache, published>>

RegistryNext ==
    \/ \E t \in Tasks :
        \/ Begin(t) \/ Acquire(t) \/ AcquireFails(t)
        \/ Fetch(t) \/ Apply(t) \/ Mark(t)
        \/ Download(t) \/ DownloadFails(t) \/ Install(t)
        \/ SetModelList(t) \/ EnrichModels(t)
        \/ Copy(t) \/ Write(t) \/ WriteFails(t)
    \/ SkipSave
    \/ Publish
    \/ Restart

RegistrySpec == RegistryInit /\ [][RegistryNext]_vars

-----------------------------------------------------------------------------
(* Properties *)

\* Types of the registry, the cache, the tasks and the history.
RegistryTypeOK ==
    /\ catalog \subseteq Entry /\ routes \subseteq Entry
    /\ list \in 0..MaxList
    /\ initialized \in BOOLEAN
    /\ errors \subseteq Providers
    /\ cache \in Copies
    /\ sem \in Tasks \cup {Nobody}
    /\ pc \in [Tasks -> Steps]
    /\ fetched \in [Tasks -> Inventories]
    /\ copy \in [Tasks -> Copies]
    /\ published \in 1..MaxList
    /\ restarts \in 0..MaxRestarts
    /\ asked \subseteq Providers
    /\ behind \in BOOLEAN
    /\ stale \subseteq Providers
    /\ overtaken \subseteq Tasks /\ passed \subseteq Tasks

\* A bare model ID always goes to the first registered provider that has the
\* model, with that provider's current metadata, whichever of the full
\* refresh, the refresh of some providers, the re-enrichment and the load from
\* the cache came last ("first provider wins").
RoutesAreFirst == routes = FirstOf(catalog)

\* A refresh never puts back an inventory older than one another goroutine has
\* applied since it fetched its own: refreshCh covers the fetch and the swap.
NeverOverwritesNewer == \A t \in DOMAIN pc : pc[t] = "apply" => t \notin overtaken

\* A provider that was asked for its models and has none carries a fetch
\* error, whatever refreshes of it and of others came since: the dashboard
\* never shows it healthy and empty.
OutageIsReported == \A p \in asked : Of(catalog, p) = {} => p \in errors

\* Every model carries the metadata of the list in force, except those of an
\* inventory that was enriched before the initial metadata fetch set the list
\* and swapped in after it: they wait for the next refresh.
EnrichedUnlessRaced ==
    \/ \E t \in DOMAIN pc : pc[t] = "enrich"
    \/ \A e \in catalog : e.provider \notin stale => e.list = list

\* When no goroutine is at work the cache holds the models and the list in
\* memory: every change is followed by a save of it.  Left out are the changes
\* the code does not save (a request's refresh, an administrator's refresh
\* that was cancelled), failed writes, a copy written after a later one, and
\* what a process has loaded and not yet saved.
SavedAtRest ==
    (~behind /\ \A t \in DOMAIN pc : pc[t] = "idle") =>
        cache.names = Names(catalog) /\ cache.list = list

\* The models of a provider that gave no answer leave the catalogue only when a
\* full refresh brings in others: an outage of every provider, or of the ones a
\* request asks for, takes nothing away.
OutageTakesNothing ==
    [][restarts' = restarts =>
        \A p \in Providers :
            Of(catalog, p) # {} /\ Of(catalog', p) = {} =>
                \E t \in DOMAIN pc :
                    /\ pc[t] = "apply"
                    /\ p \in fetched[t].of
                    /\ p \in Failed(fetched[t]) => t # "request" /\ catalog' # {}]_vars

\* The refresh semaphore is held by a goroutine between its acquire and its
\* release only, and by no two: whatever fails under it, no early return keeps
\* it, which would leave every later refresh waiting.
SemaphoreHeldInside ==
    /\ sem # Nobody => pc[sem] \in HeldInside
    /\ \A t \in Tasks : pc[t] \in HeldInside => sem = t

=============================================================================
