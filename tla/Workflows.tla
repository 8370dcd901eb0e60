----------------------------- MODULE Workflows -----------------------------
(* Workflows and the guardrails they refer to (internal/workflows,
   internal/guardrails and the admin handlers that edit both), on several
   instances that share one store.

   Every instance serves requests from its own snapshot: the active workflow
   of each scope, compiled against its own snapshot of the guardrails.  An
   edit writes the store and then the snapshot of the instance that made it;
   the other instances follow through two background loops, one per service.
   Three mutexes order the writers of one instance; none orders instances.

   Rows are immutable and numbered in the order of their creation.  A store
   call that fails is taken to have had no effect.                           *)
EXTENDS Naturals, Sequences, FiniteSets, Functions

CONSTANTS Instances,    \* processes that share the store
          Editors,      \* those whose admin endpoints are used
          Handlers,     \* admin requests served at a time by one editor
          Guards,       \* guardrail names
          Scopes,       \* workflow scopes other than the global one
          Payloads,     \* scope and guardrail references of the versions created
          MaxRows,      \* bound: workflow versions ever stored
          MaxEdits,     \* bound: guardrail definitions ever written
          MaxMishaps    \* bound: store calls that fail, and crashes

Global == "global"

ASSUME EditorsAssumption == Editors \subseteq Instances
ASSUME ScopesAssumption == Global \notin Scopes
ASSUME PayloadsAssumption == Payloads \subseteq (Scopes \cup {Global}) \X SUBSET Guards
ASSUME BoundsAssumption == MaxRows \in Nat /\ MaxEdits \in Nat /\ MaxMishaps \in Nat

AllScopes == Scopes \cup {Global}

\* Who edits and refreshes: admin handlers, and the loops of the two services.
Loops == Instances \X {"guardrails", "workflows"}
Tasks == (Editors \X Handlers) \cup Loops
Free == <<"free">>

VARIABLES defs,         \* stored guardrails: 0 for none, else which edit wrote it
          rows,         \* stored workflow versions
          registry,     \* per instance: guardrail snapshot
          current,      \* per instance: active version of each scope, 0 for none
          byVersion,    \* per instance: compiled pipeline of each version held
          mutationMu, guardrailMu, refreshMu,   \* per instance: holder, or Free
          task,         \* per task: where it is, with its locals
          up,           \* per instance: "up", or how far its start has come
          missed,       \* per instance: the recompilation after an edit failed
          edits, mishaps                        \* bounds

stored == <<defs, rows>>
held == <<registry, current, byVersion>>
locks == <<mutationMu, guardrailMu, refreshMu>>
bounds == <<edits, mishaps>>
workflowVars == <<stored, held, locks, task, up, missed, bounds>>

Ids == DOMAIN rows
Active == {id \in Ids : rows[id].active}
ActiveIn(scope) == {id \in Active : rows[id].scope = scope}
Known(catalog) == {g \in Guards : catalog[g] # 0}

\* Compile: the guardrail objects the version's references resolve to.
Pipeline(catalog, refs) == [g \in refs |-> catalog[g]]
Compiles(catalog, refs) == refs \subseteq Known(catalog)

Idle == [at |-> "idle", op |-> "none", target |-> 0, scope |-> Global, refs |-> {},
         catalog |-> [g \in Guards |-> 0], todo |-> {}, next |-> <<>>]

WorkflowsInit ==
  /\ defs \in [Guards -> {0, 1}]
  /\ rows = <<[scope |-> Global, refs |-> {}, active |-> TRUE]>>
  /\ registry = [i \in Instances |-> defs]
  /\ current = [i \in Instances |-> [s \in AllScopes |-> IF s = Global THEN 1 ELSE 0]]
  /\ byVersion = [i \in Instances |-> [id \in {1} |-> Pipeline(defs, {})]]
  /\ mutationMu = [i \in Instances |-> Free]
  /\ guardrailMu = [i \in Instances |-> Free]
  /\ refreshMu = [i \in Instances |-> Free]
  /\ task = [t \in Tasks |-> Idle]
  /\ up = [i \in Instances |-> "up"]
  /\ missed = [i \in Instances |-> FALSE]
  /\ edits = 1 /\ mishaps = 0

-----------------------------------------------------------------------------
At(t, at) == task[t].at = at /\ up[t[1]] = "up"
Move(t, at) == task' = [task EXCEPT ![t].at = at]
Done(t) == task' = [task EXCEPT ![t] = Idle]

Take(mu, t) == mu[t[1]] = Free /\ mu' = [mu EXCEPT ![t[1]] = t]
Drop(mu, t) == mu' = [mu EXCEPT ![t[1]] = IF @ = t THEN Free ELSE @]

Mishap == mishaps < MaxMishaps /\ mishaps' = mishaps + 1 /\ UNCHANGED edits

\* A handler returns, or a loop waits for its next tick; held locks are released.
Return(t) == Done(t) /\ Drop(mutationMu, t) /\ Drop(guardrailMu, t) /\ Drop(refreshMu, t)

-----------------------------------------------------------------------------
(* Guardrails: the admin handlers, and the service under its refreshMu. *)

\* UpsertGuardrail and DeleteGuardrail begin by locking the handler's mutex.
EditGuardrail(t, g, op) ==
  /\ At(t, "idle") /\ t \notin Loops
  /\ Take(mutationMu, t)
  /\ task' = [task EXCEPT ![t] = [Idle EXCEPT !.at = IF op = "delete" THEN "references" ELSE "list",
                                              !.op = op, !.target = g]]
  /\ UNCHANGED <<stored, held, guardrailMu, refreshMu, up, missed, bounds>>

\* A guardrail that an active workflow names is not deleted.
activeWorkflowGuardrailReferences(t) ==
  /\ At(t, "references")
  /\ IF \E id \in Active : task[t].target \in rows[id].refs
     THEN Return(t)
     ELSE Move(t, "list") /\ UNCHANGED locks
  /\ UNCHANGED <<stored, held, up, missed, bounds>>

\* The service lists the stored definitions and builds the next snapshot.
ListDefinitions(t) ==
  /\ \/ At(t, "list")
     \/ At(t, "idle") /\ t[2] = "guardrails"
  /\ Take(guardrailMu, t)
  /\ task' = [task EXCEPT
       ![t].catalog = CASE task[t].op = "upsert" -> [defs EXCEPT ![task[t].target] = edits + 1]
                        [] task[t].op = "delete" -> [defs EXCEPT ![task[t].target] = 0]
                        [] OTHER -> defs,
       ![t].at = IF t \in Loops THEN "install" ELSE "write"]
  /\ UNCHANGED <<stored, held, mutationMu, refreshMu, up, missed, bounds>>

StoreDefinition(t) ==
  LET g == task[t].target IN
  /\ At(t, "write")
  /\ edits < MaxEdits
  /\ task[t].op = "upsert" \/ defs[g] # 0
  /\ edits' = edits + 1
  /\ defs' = [defs EXCEPT ![g] = task[t].catalog[g]]
  /\ Move(t, "install")
  /\ UNCHANGED <<rows, held, locks, up, missed, mishaps>>

StoreDefinitionFails(t) ==
  /\ At(t, "write")
  /\ \/ task[t].op = "delete" /\ defs[task[t].target] = 0 /\ UNCHANGED bounds
     \/ edits = MaxEdits /\ UNCHANGED bounds
     \/ Mishap
  /\ Return(t)
  /\ UNCHANGED <<stored, held, up, missed>>

\* Handlers go on to refresh the workflows; until then these are out of date.
InstallDefinitions(t) ==
  /\ At(t, "install")
  /\ registry' = [registry EXCEPT ![t[1]] = task[t].catalog]
  /\ Drop(guardrailMu, t)
  /\ task' = [task EXCEPT ![t] = [Idle EXCEPT !.at = IF t \in Loops THEN "idle" ELSE "refresh"]]
  /\ UNCHANGED <<stored, current, byVersion, mutationMu, refreshMu, up, missed, bounds>>

-----------------------------------------------------------------------------
(* Service.Refresh: list the active versions, compile each, swap. *)

\* Bug: the refresh does not take refreshMu.
ListActiveUnlocked(t) ==
  /\ \/ At(t, "refresh")
     \/ At(t, "idle") /\ t[2] = "workflows"
  /\ task' = [task EXCEPT ![t].at = "compile", ![t].todo = Active, ![t].next = <<>>]
  /\ UNCHANGED <<stored, held, locks, up, missed, bounds>>

ListActive(t) ==
  /\ \/ At(t, "refresh")
     \/ At(t, "idle") /\ t[2] = "workflows"
  /\ Take(refreshMu, t)
  /\ task' = [task EXCEPT ![t].at = "compile", ![t].todo = Active, ![t].next = <<>>]
  /\ UNCHANGED <<stored, held, mutationMu, guardrailMu, up, missed, bounds>>

Compile(t) ==
  LET id == CHOOSE id \in task[t].todo : \A other \in task[t].todo : id <= other IN
  /\ At(t, "compile") /\ task[t].todo # {}
  /\ Compiles(registry[t[1]], rows[id].refs)
  /\ task' = [task EXCEPT
       ![t].todo = @ \ {id},
       ![t].next = [v \in DOMAIN @ \cup {id} |->
                      IF v = id THEN Pipeline(registry[t[1]], rows[id].refs) ELSE @[v]]]
  /\ UNCHANGED <<stored, held, locks, up, missed, bounds>>

\* Bug: the early return leaves refreshMu locked.
RefreshFailsLocked(t) ==
  /\ At(t, "compile")
  /\ \/ \E id \in task[t].todo : ~Compiles(registry[t[1]], rows[id].refs) /\ UNCHANGED bounds
     \/ Mishap
  /\ Done(t) /\ Drop(mutationMu, t)
  /\ missed' = [missed EXCEPT ![t[1]] = @ \/ t \notin Loops]
  /\ UNCHANGED <<stored, held, guardrailMu, refreshMu, up>>

\* The listing failed, or a version names a guardrail this instance does not
\* know: the old snapshot stays.
RefreshFails(t) ==
  /\ At(t, "compile")
  /\ \/ \E id \in task[t].todo : ~Compiles(registry[t[1]], rows[id].refs) /\ UNCHANGED bounds
     \/ Mishap
  /\ Return(t)
  /\ missed' = [missed EXCEPT ![t[1]] = @ \/ t \notin Loops]
  /\ UNCHANGED <<stored, held, up>>

ScopesOf(ids) == [s \in AllScopes |->
  IF \E id \in ids : rows[id].scope = s THEN CHOOSE id \in ids : rows[id].scope = s ELSE 0]

Swap(t) ==
  /\ At(t, "compile") /\ task[t].todo = {}
  /\ current' = [current EXCEPT ![t[1]] = ScopesOf(DOMAIN task[t].next)]
  /\ byVersion' = [byVersion EXCEPT ![t[1]] = task[t].next]
  /\ missed' = [missed EXCEPT ![t[1]] = FALSE]
  /\ Return(t)
  /\ UNCHANGED <<stored, registry, up, bounds>>

-----------------------------------------------------------------------------
(* Creation and deactivation of a version by an admin handler. *)

\* Bug: the candidate is compiled before the handler's mutex is asked for.
validateCreateCandidateEarly(t, scope, refs) ==
  /\ At(t, "idle") /\ t \notin Loops
  /\ Compiles(registry[t[1]], refs)
  /\ task' = [task EXCEPT ![t] = [Idle EXCEPT !.at = "create", !.scope = scope, !.refs = refs,
                                              !.next = Pipeline(registry[t[1]], refs)]]
  /\ UNCHANGED <<stored, held, locks, up, missed, bounds>>

\* The candidate is compiled under the handler's mutex, before refreshMu is held.
validateCreateCandidate(t, scope, refs) ==
  /\ At(t, "idle") /\ t \notin Loops
  /\ Compiles(registry[t[1]], refs)
  /\ Take(mutationMu, t)
  /\ task' = [task EXCEPT ![t] = [Idle EXCEPT !.at = "create", !.scope = scope, !.refs = refs,
                                              !.next = Pipeline(registry[t[1]], refs)]]
  /\ UNCHANGED <<stored, held, guardrailMu, refreshMu, up, missed, bounds>>

\* One transaction deactivates the scope's version and inserts the new one.
Inserted(scope, refs) ==
  Append([id \in Ids |-> IF rows[id].scope = scope THEN [rows[id] EXCEPT !.active = FALSE]
                         ELSE rows[id]],
         [scope |-> scope, refs |-> refs, active |-> TRUE])

StoreCreate(t) ==
  /\ At(t, "create")
  /\ Len(rows) < MaxRows
  /\ Take(refreshMu, t)
  /\ rows' = Inserted(task[t].scope, task[t].refs)
  /\ task' = [task EXCEPT ![t].at = "activated", ![t].target = Len(rows) + 1]
  /\ UNCHANGED <<defs, held, mutationMu, guardrailMu, up, missed, bounds>>

StoreCreateFails(t) ==
  /\ At(t, "create") /\ refreshMu[t[1]] = Free
  /\ \/ Mishap
     \/ Len(rows) = MaxRows /\ UNCHANGED bounds
  /\ Return(t)
  /\ UNCHANGED <<stored, held, up, missed>>

Without(f, ids) == [id \in DOMAIN f \ ids |-> f[id]]

\* The scope's old version is dropped from byVersionID, the new one put in.
storeActivatedCompiledLocked(t) ==
  LET i == t[1]  new == task[t].target  old == current[i][task[t].scope] IN
  /\ At(t, "activated")
  /\ current' = [current EXCEPT ![i][task[t].scope] = new]
  /\ byVersion' = [byVersion EXCEPT ![i] =
       [id \in (DOMAIN @ \ {old}) \cup {new} |-> IF id = new THEN task[t].next ELSE @[id]]]
  /\ Return(t)
  /\ UNCHANGED <<stored, registry, up, missed, bounds>>

\* Deactivate reads the row before refreshMu is held; the global one is refused.
DeactivateGet(t, id) ==
  /\ At(t, "idle") /\ t \notin Loops
  /\ id \in Active /\ rows[id].scope # Global
  /\ Take(mutationMu, t)
  /\ task' = [task EXCEPT ![t] = [Idle EXCEPT !.at = "deactivate", !.target = id,
                                              !.scope = rows[id].scope]]
  /\ UNCHANGED <<stored, held, guardrailMu, refreshMu, up, missed, bounds>>

\* The update is conditional on the row still being active.
StoreDeactivate(t) ==
  /\ At(t, "deactivate") /\ rows[task[t].target].active
  /\ Take(refreshMu, t)
  /\ rows' = [rows EXCEPT ![task[t].target].active = FALSE]
  /\ Move(t, "deactivated")
  /\ UNCHANGED <<defs, held, mutationMu, guardrailMu, up, missed, bounds>>

StoreDeactivateFails(t) ==
  /\ At(t, "deactivate") /\ refreshMu[t[1]] = Free
  /\ \/ Mishap
     \/ ~rows[task[t].target].active /\ UNCHANGED bounds
  /\ Return(t)
  /\ UNCHANGED <<stored, held, up, missed>>

storeDeactivatedVersionLocked(t) ==
  LET i == t[1] IN
  /\ At(t, "deactivated")
  /\ current' = [current EXCEPT ![i][task[t].scope] = 0]
  /\ byVersion' = [byVersion EXCEPT ![i] = Without(@, {task[t].target})]
  /\ Return(t)
  /\ UNCHANGED <<stored, registry, up, missed, bounds>>

-----------------------------------------------------------------------------
(* A crash loses an instance's snapshots and locks; it loads them again before
   it serves.                                                                *)

Crash(i) ==
  /\ up[i] = "up"
  /\ Mishap
  /\ up' = [up EXCEPT ![i] = "down"]
  /\ task' = [t \in Tasks |-> IF t[1] = i THEN Idle ELSE task[t]]
  /\ mutationMu' = [mutationMu EXCEPT ![i] = Free]
  /\ guardrailMu' = [guardrailMu EXCEPT ![i] = Free]
  /\ refreshMu' = [refreshMu EXCEPT ![i] = Free]
  /\ registry' = [registry EXCEPT ![i] = [g \in Guards |-> 0]]
  /\ current' = [current EXCEPT ![i] = [s \in AllScopes |-> 0]]
  /\ byVersion' = [byVersion EXCEPT ![i] = <<>>]
  /\ missed' = [missed EXCEPT ![i] = FALSE]
  /\ UNCHANGED stored

\* guardrails.New refreshes once before it starts its loop.
LoadGuardrails(i) ==
  /\ up[i] = "down"
  /\ registry' = [registry EXCEPT ![i] = defs]
  /\ up' = [up EXCEPT ![i] = "guardrails"]
  /\ UNCHANGED <<stored, current, byVersion, locks, task, missed, bounds>>

\* EnsureDefaultGlobal and Refresh; if a version does not compile the start
\* fails and is tried again from the beginning.
LoadWorkflows(i) ==
  /\ up[i] = "guardrails"
  /\ IF \A id \in Active : Compiles(registry[i], rows[id].refs)
     THEN /\ up' = [up EXCEPT ![i] = "up"]
          /\ current' = [current EXCEPT ![i] = ScopesOf(Active)]
          /\ byVersion' = [byVersion EXCEPT ![i] =
               [id \in Active |-> Pipeline(registry[i], rows[id].refs)]]
          /\ UNCHANGED registry
     ELSE /\ up' = [up EXCEPT ![i] = "down"]
          /\ UNCHANGED held
  /\ UNCHANGED <<stored, locks, task, missed, bounds>>

-----------------------------------------------------------------------------
HandlerBegins(t) ==
  \/ \E g \in Guards, op \in {"upsert", "delete"} : EditGuardrail(t, g, op)
  \/ \E p \in Payloads : validateCreateCandidate(t, p[1], p[2])
  \/ \E id \in Active : DeactivateGet(t, id)

\* What a handler does once begun, and everything a loop does.
Continues(t) ==
  \/ activeWorkflowGuardrailReferences(t)
  \/ ListDefinitions(t) \/ StoreDefinition(t) \/ StoreDefinitionFails(t) \/ InstallDefinitions(t)
  \/ ListActive(t) \/ Compile(t) \/ RefreshFails(t) \/ Swap(t)
  \/ StoreCreate(t) \/ StoreCreateFails(t) \/ storeActivatedCompiledLocked(t)
  \/ StoreDeactivate(t) \/ StoreDeactivateFails(t) \/ storeDeactivatedVersionLocked(t)

Starts(i) == LoadGuardrails(i) \/ LoadWorkflows(i)

WorkflowsNext ==
  \/ \E t \in Tasks : HandlerBegins(t) \/ Continues(t)
  \/ \E i \in Instances : Crash(i) \/ Starts(i)

\* Tickers keep firing, mutexes are granted in the end (Go's mutexes are fair
\* under starvation), and a restarted instance starts.
WorkflowsFairness ==
  /\ \A t \in Tasks : SF_workflowVars(Continues(t))
  /\ \A i \in Instances : WF_workflowVars(Starts(i))

WorkflowsSpec == WorkflowsInit /\ [][WorkflowsNext]_workflowVars /\ WorkflowsFairness
-----------------------------------------------------------------------------
WorkflowsTypeOK ==
  /\ defs \in [Guards -> Nat]
  /\ rows \in Seq([scope : AllScopes, refs : SUBSET Guards, active : BOOLEAN])
  /\ registry \in [Instances -> [Guards -> Nat]]
  /\ current \in [Instances -> [AllScopes -> Ids \cup {0}]]
  /\ DOMAIN byVersion = Instances
  /\ \A i \in Instances : DOMAIN byVersion[i] \subseteq Ids
  /\ \A mu \in {mutationMu, guardrailMu, refreshMu} : mu \in [Instances -> Tasks \cup {Free}]
  /\ up \in [Instances -> {"up", "down", "guardrails"}]
  /\ missed \in [Instances -> BOOLEAN]
  /\ edits \in Nat /\ mishaps \in Nat

\* No active workflow names a guardrail that is not stored, so a refresh never
\* fails to compile and an instance can always start: the reference check of
\* DeleteGuardrail and the preview of CreateWorkflow exclude each other
\* through mutationMu, as long as one instance takes the edits.
ReferencesResolve == \A id \in Active : rows[id].refs \subseteq Known(defs)

\* What the editing instance serves.  With refreshMu free its snapshot holds
\* exactly the stored active versions; with no edit in progress, each is
\* compiled from the stored text of its guardrails, unless the recompilation
\* after an edit failed.  No refresh that listed the store earlier undoes it.
EditsTakeEffect ==
  \A i \in Editors : up[i] = "up" =>
    /\ refreshMu[i] = Free =>
         /\ DOMAIN byVersion[i] = Active
         /\ \A s \in AllScopes : ActiveIn(s) = {current[i][s]} \ {0}
    /\ refreshMu[i] = Free /\ mutationMu[i] = Free /\ ~missed[i] =>
         \A id \in Active : byVersion[i][id] = Pipeline(defs, rows[id].refs)

InStep(i) ==
  /\ up[i] = "up"
  /\ \A s \in AllScopes : ActiveIn(s) = {current[i][s]} \ {0}
  /\ \A id \in Active : byVersion[i][id] = Pipeline(defs, rows[id].refs)

\* Once the edits end, every instance comes to serve them, also one that saw a
\* workflow before the guardrail it names, lost a refresh, or was restarted.
EventuallyCurrent == <>[](\A i \in Instances : InStep(i))
=============================================================================
