-------------------------- MODULE WorkflowsProofs --------------------------
(* References resolve and edits take effect for any number of instances,
   guardrails, scopes, versions and requests, as long as the edits come
   through one instance (OneEditor).

   The argument follows a request through its critical sections.  mutationMu
   makes it the only one begun, so what it has checked or compiled stays true
   until it stores it (ReferenceInv, PreviewInv).  guardrailMu makes the catalog
   it installs the stored one (CatalogInv).  refreshMu ties the snapshot to the
   stored versions (SnapshotInv) and a refresh to what it listed (RefreshInv);
   what a snapshot was compiled from is the stored text, but while a handler is
   between the write of a guardrail and the refresh that follows it (TextInv). *)
EXTENDS Workflows, WellFoundedInduction, TLAPS

OneEditor == \A i, j \in Editors : i = j

Requests == Tasks \ Loops

RequestAt(i, places) == \E t \in Requests : t[1] = i /\ task[t].at \in places

-----------------------------------------------------------------------------
(* The inductive invariant: of every task, of the editor, of the store *)

TaskInv ==
  /\ DOMAIN task = Tasks
  /\ \A t \in Tasks :
       /\ task[t] = [at |-> task[t].at, op |-> task[t].op, target |-> task[t].target,
                     scope |-> task[t].scope, refs |-> task[t].refs, catalog |-> task[t].catalog,
                     todo |-> task[t].todo, next |-> task[t].next]
       /\ task[t].scope \in AllScopes /\ task[t].refs \subseteq Guards
       /\ task[t].catalog \in [Guards -> Nat]
       /\ task[t].at = "idle" => task[t] = Idle
       /\ task[t].at \in {"references", "list", "write"} =>
            task[t].op \in {"upsert", "delete"} /\ task[t].target \in Guards

\* Where a task may be, and which mutexes it holds there.
Locked(t) ==
  /\ up[t[1]] # "up" => task[t].at = "idle"
  /\ t \in Loops => task[t].at \in {"idle", "install", "compile"} /\ task[t].op = "none"
  /\ t \notin Loops /\ task[t].at # "idle" => mutationMu[t[1]] = t
  /\ task[t].at \in {"write", "install"} => guardrailMu[t[1]] = t
  /\ task[t].at \in {"compile", "activated", "deactivated"} => refreshMu[t[1]] = t

\* A deletion has seen that no active version names its target.
Unreferenced(t) ==
  task[t].at \in {"list", "write"} /\ task[t].op = "delete" =>
    \A id \in Active : task[t].target \notin rows[id].refs

\* The catalog a task of the editor is about to store or to install.
CatalogIsStored(t) ==
  t[1] \in Editors =>
    /\ task[t].at = "write" =>
         /\ task[t].op = "upsert" => task[t].catalog[task[t].target] # 0
         /\ \A g \in Guards \ {task[t].target} : task[t].catalog[g] = defs[g]
    /\ task[t].at = "install" => task[t].catalog = defs

\* A version that was compiled and is not yet in the snapshot.
PreviewHolds(t) ==
  task[t].at \in {"create", "activated"} =>
    /\ task[t].refs \subseteq Known(defs)
    /\ task[t].next = Pipeline(defs, task[t].refs)

Matches(e, s) == ActiveIn(s) = {current[e][s]} \ {0}

\* The snapshot between the store call of an edit and its effect there.
EditIsStored(t) ==
  /\ task[t].at = "deactivate" =>
       task[t].target \in Ids /\ rows[task[t].target].scope = task[t].scope
  /\ task[t].at = "activated" =>
       /\ task[t].target \in Active
       /\ rows[task[t].target].scope = task[t].scope
       /\ rows[task[t].target].refs = task[t].refs
       /\ DOMAIN byVersion[t[1]] =
            (Active \ {task[t].target}) \cup ({current[t[1]][task[t].scope]} \ {0})
       /\ current[t[1]][task[t].scope] \notin Active
  /\ task[t].at = "deactivated" =>
       /\ task[t].target \notin Active
       /\ DOMAIN byVersion[t[1]] = Active \cup {task[t].target}
       /\ ActiveIn(task[t].scope) = {}
  /\ task[t].at \in {"activated", "deactivated"} =>
       \A s \in AllScopes \ {task[t].scope} : Matches(t[1], s)

\* A refresh on its way: what it has compiled and what is left.
Compiled(t) ==
  task[t].at = "compile" =>
    /\ task[t].todo \subseteq Ids /\ DOMAIN task[t].next \subseteq Ids
    /\ t[1] \in Editors =>
         /\ DOMAIN task[t].next \cup task[t].todo = Active
         /\ ~RequestAt(t[1], {"install", "refresh"}) =>
              \A id \in Active : id \in DOMAIN task[t].next =>
                task[t].next[id] = Pipeline(defs, rows[id].refs)

LocalInv ==
  \A t \in Tasks :
    Unreferenced(t) /\ CatalogIsStored(t) /\ PreviewHolds(t) /\ EditIsStored(t) /\ Compiled(t)

EditorInv ==
  \A e \in Editors :
    /\ up[e] # "down" /\ ~RequestAt(e, {"install"}) => registry[e] = defs
    /\ up[e] = "up" /\ ~RequestAt(e, {"activated", "deactivated"}) =>
         /\ DOMAIN byVersion[e] = Active
         /\ \A s \in AllScopes : Matches(e, s)
    /\ up[e] = "up" /\ ~missed[e] /\ ~RequestAt(e, {"install", "refresh", "compile"}) =>
         \A id \in Active : id \in DOMAIN byVersion[e] =>
           byVersion[e][id] = Pipeline(defs, rows[id].refs)

OnePerScope == \A id, other \in Active : rows[id].scope = rows[other].scope => id = other

IInv ==
  /\ WorkflowsTypeOK
  /\ TaskInv
  /\ \A t \in Tasks : Locked(t)
  /\ LocalInv
  /\ EditorInv
  /\ OnePerScope
  /\ ReferencesResolve
-----------------------------------------------------------------------------
(* Tasks and mutexes *)

LEMMA TaskNames ==
    /\ Free \notin Tasks
    /\ \A t \in Tasks : t[1] \in Instances
    /\ \A t \in Requests : t[1] \in Editors
    /\ Editors \subseteq Instances
<1>1. \A t \in Tasks : Len(t) = 2
  BY DEF Tasks, Loops
<1>2. Len(Free) = 1
  BY DEF Free
<1> QED BY <1>1, <1>2, EditorsAssumption DEF EditorsAssumption, Tasks, Loops, Requests

LEMMA LoopNames == \A t \in Tasks : t[2] \in {"guardrails", "workflows"} => t \in Loops
BY TaskNames DEF Tasks, Loops

Row == [scope : AllScopes, refs : SUBSET Guards, active : BOOLEAN]

LEMMA RowFacts ==
    ASSUME WorkflowsTypeOK
    PROVE  /\ rows \in Seq(Row) /\ Len(rows) \in Nat /\ Ids = 1..Len(rows) /\ Active \subseteq Ids
           /\ \A id \in Ids : /\ rows[id] \in Row
                              /\ rows[id].scope \in AllScopes /\ rows[id].refs \subseteq Guards
                              /\ rows[id].active \in BOOLEAN
                              /\ id \in Active <=> rows[id].active
<1>1. rows \in Seq(Row)
  BY DEF WorkflowsTypeOK, Row
<1>2. Len(rows) \in Nat /\ Ids = 1..Len(rows) /\ \A id \in Ids : rows[id] \in Row
  BY <1>1 DEF Ids
<1> QED BY <1>1, <1>2 DEF Active, Row

Holders == [Instances -> Tasks \cup {Free}]

\* Taking or dropping a mutex takes it from no other task.
Kept(mu, t) == \A u \in Tasks \ {t} : mu[u[1]] = u => mu'[u[1]] = u

LEMMA MutexMoves ==
    ASSUME WorkflowsTypeOK, NEW t \in Tasks
    PROVE  /\ Take(mutationMu, t) => mutationMu' \in Holders /\ Kept(mutationMu, t) /\ mutationMu'[t[1]] = t
           /\ Take(guardrailMu, t) => guardrailMu' \in Holders /\ Kept(guardrailMu, t) /\ guardrailMu'[t[1]] = t
           /\ Take(refreshMu, t) => refreshMu' \in Holders /\ Kept(refreshMu, t) /\ refreshMu'[t[1]] = t
           /\ Drop(mutationMu, t) => mutationMu' \in Holders /\ Kept(mutationMu, t)
           /\ Drop(guardrailMu, t) => guardrailMu' \in Holders /\ Kept(guardrailMu, t)
           /\ Drop(refreshMu, t) => refreshMu' \in Holders /\ Kept(refreshMu, t)
           /\ UNCHANGED mutationMu => mutationMu' \in Holders /\ Kept(mutationMu, t)
           /\ UNCHANGED guardrailMu => guardrailMu' \in Holders /\ Kept(guardrailMu, t)
           /\ UNCHANGED refreshMu => refreshMu' \in Holders /\ Kept(refreshMu, t)
<1>1. /\ mutationMu \in Holders /\ guardrailMu \in Holders /\ refreshMu \in Holders
      /\ t[1] \in Instances /\ Free \notin Tasks /\ \A u \in Tasks : u[1] \in Instances
  BY TaskNames DEF WorkflowsTypeOK, Holders
<1>2. Take(mutationMu, t) => mutationMu' \in Holders /\ Kept(mutationMu, t) /\ mutationMu'[t[1]] = t
  BY <1>1 DEF Take, Holders, Kept
<1>3. Take(guardrailMu, t) => guardrailMu' \in Holders /\ Kept(guardrailMu, t) /\ guardrailMu'[t[1]] = t
  BY <1>1 DEF Take, Holders, Kept
<1>4. Take(refreshMu, t) => refreshMu' \in Holders /\ Kept(refreshMu, t) /\ refreshMu'[t[1]] = t
  BY <1>1 DEF Take, Holders, Kept
<1>5. Drop(mutationMu, t) => mutationMu' \in Holders /\ Kept(mutationMu, t)
  BY <1>1 DEF Drop, Holders, Kept
<1>6. Drop(guardrailMu, t) => guardrailMu' \in Holders /\ Kept(guardrailMu, t)
  BY <1>1 DEF Drop, Holders, Kept
<1>7. Drop(refreshMu, t) => refreshMu' \in Holders /\ Kept(refreshMu, t)
  BY <1>1 DEF Drop, Holders, Kept
<1> QED BY <1>1, <1>2, <1>3, <1>4, <1>5, <1>6, <1>7 DEF Kept

\* The locals of the acting task, and of it alone.
Others(t) == DOMAIN task' = Tasks /\ \A u \in Tasks \ {t} : task'[u] = task[u]

WellShaped(r) ==
  /\ r = [at |-> r.at, op |-> r.op, target |-> r.target, scope |-> r.scope, refs |-> r.refs,
          catalog |-> r.catalog, todo |-> r.todo, next |-> r.next]
  /\ r.scope \in AllScopes /\ r.refs \subseteq Guards /\ r.catalog \in [Guards -> Nat]
  /\ r.at = "idle" => r = Idle
  /\ r.at \in {"references", "list", "write"} =>
       r.op \in {"upsert", "delete"} /\ r.target \in Guards

LEMMA TasksKept ==
    ASSUME TaskInv, NEW t \in Tasks, Others(t), WellShaped(task'[t])
    PROVE  TaskInv'
BY DEF TaskInv, Others, WellShaped

LEMMA IdleShape ==
    /\ Idle.at = "idle" /\ Idle.op = "none" /\ Idle.next = <<>> /\ WellShaped(Idle)
    /\ Idle.catalog = [g \in Guards |-> 0] /\ Idle.todo = {} /\ Idle.scope = Global
<1>1. Idle.catalog \in [Guards -> Nat] /\ Global \in AllScopes
  BY DEF Idle, AllScopes
<1> QED BY <1>1 DEF Idle, WellShaped

LEMMA Moves ==
    ASSUME TaskInv, NEW t \in Tasks, NEW at, Move(t, at)
    PROVE  /\ Others(t)
           /\ task'[t].at = at /\ task'[t].op = task[t].op
           /\ task'[t].target = task[t].target /\ task'[t].scope = task[t].scope
           /\ task'[t].refs = task[t].refs /\ task'[t].catalog = task[t].catalog
           /\ task'[t].todo = task[t].todo /\ task'[t].next = task[t].next
           /\ at \notin {"idle", "references", "list", "write"} => WellShaped(task'[t])
<1>1. Others(t) /\ task'[t] = [task[t] EXCEPT !.at = at]
  BY DEF TaskInv, Move, Others
<1>2. task'[t] = [at |-> at, op |-> task[t].op, target |-> task[t].target,
                  scope |-> task[t].scope, refs |-> task[t].refs, catalog |-> task[t].catalog,
                  todo |-> task[t].todo, next |-> task[t].next]
  BY <1>1 DEF TaskInv
<1>3. ASSUME at \notin {"idle", "references", "list", "write"} PROVE WellShaped(task'[t])
  BY <1>2, <1>3 DEF WellShaped, TaskInv
<1> QED BY <1>1, <1>2, <1>3

LEMMA Finishes ==
    ASSUME TaskInv, NEW t \in Tasks, Done(t)
    PROVE  Others(t) /\ task'[t] = Idle /\ WellShaped(task'[t])
BY IdleShape DEF TaskInv, Done, Others

\* An administrator's request that acts is the only one begun.
Alone(t) == \A u \in Requests \ {t} : task[u].at = "idle"

LEMMA OnlyOne ==
    ASSUME OneEditor, \A u \in Tasks : Locked(u), NEW t \in Requests,
           mutationMu[t[1]] \in {t, Free}
    PROVE  Alone(t)
<1>1. \A u \in Requests : u \in Tasks /\ u \notin Loops /\ u[1] = t[1] /\ u # Free
  BY TaskNames DEF OneEditor, Requests
<1> QED BY <1>1 DEF Locked, Alone

\* Where the requests are, after a step of one of them or of a loop.
LEMMA RequestAtStep ==
    ASSUME NEW t \in Tasks, Others(t), NEW e, NEW P
    PROVE  /\ t \in Loops => (RequestAt(e, P)' <=> RequestAt(e, P))
           /\ t \in Requests /\ t[1] = e /\ task'[t].at \in P => RequestAt(e, P)'
           /\ t \in Requests /\ Alone(t) /\ "idle" \notin P =>
                 /\ RequestAt(e, P) => t[1] = e /\ task[t].at \in P
                 /\ RequestAt(e, P)' => t[1] = e /\ task'[t].at \in P
BY DEF RequestAt, Requests, Others, Alone

LEMMA RequestIsAt ==
    ASSUME NEW t \in Requests, NEW P, task[t].at \in P
    PROVE  RequestAt(t[1], P)
BY DEF RequestAt

LEMMA StillAt ==
    ASSUME NEW t \in Tasks, Others(t), NEW e, NEW P,
           t \in Loops \/ (task[t].at \in P => task'[t].at \in P)
    PROVE  RequestAt(e, P) => RequestAt(e, P)'
BY DEF RequestAt, Requests, Others

LEMMA LocksKept ==
    ASSUME \A u \in Tasks : Locked(u), NEW t \in Tasks, Others(t), UNCHANGED up, Locked(t)',
           Kept(mutationMu, t), Kept(guardrailMu, t), Kept(refreshMu, t)
    PROVE  \A u \in Tasks : Locked(u)'
<1>1. ASSUME NEW u \in Tasks \ {t} PROVE Locked(u)'
  BY DEF Locked, Others, Kept
<1> QED BY <1>1

HoldersKept(t) ==
  /\ mutationMu' \in Holders /\ Kept(mutationMu, t)
  /\ guardrailMu' \in Holders /\ Kept(guardrailMu, t)
  /\ refreshMu' \in Holders /\ Kept(refreshMu, t)

-----------------------------------------------------------------------------
(* Steps that change neither the store nor a snapshot *)

LEMMA QuietStep ==
    ASSUME IInv, NEW t \in Tasks, Others(t), WellShaped(task'[t]), HoldersKept(t), Locked(t)',
           UNCHANGED <<defs, rows, registry, current, byVersion, up>>,
           missed' \in [Instances -> BOOLEAN], edits' \in Nat, mishaps' \in Nat,
           t \in Loops \/ task[t].at \notin {"install", "activated", "deactivated"},
           \A e \in Editors :
             ~missed'[e] /\ ~RequestAt(e, {"install", "refresh", "compile"})' =>
               ~missed[e] /\ ~RequestAt(e, {"install", "refresh", "compile"}),
           Unreferenced(t)', CatalogIsStored(t)', PreviewHolds(t)', EditIsStored(t)',
           \A u \in Tasks : Compiled(u)'
    PROVE  IInv'
<1>1. WorkflowsTypeOK'
  BY DEF IInv, WorkflowsTypeOK, HoldersKept, Holders, Ids
<1>2. TaskInv' /\ \A u \in Tasks : Locked(u)'
  BY TasksKept, LocksKept DEF IInv, HoldersKept
<1>3. UNCHANGED <<Active, Ids>> /\ \A s : UNCHANGED ActiveIn(s)
  BY DEF Active, Ids, ActiveIn
<1>4. ASSUME NEW u \in Tasks \ {t}
      PROVE  Unreferenced(u)' /\ CatalogIsStored(u)' /\ PreviewHolds(u)' /\ EditIsStored(u)'
  <2>1. task'[u] = task[u] /\ Unreferenced(u) /\ CatalogIsStored(u) /\ PreviewHolds(u) /\ EditIsStored(u)
    BY DEF IInv, LocalInv, Others
  <2>2. Unreferenced(u)' /\ CatalogIsStored(u)' /\ PreviewHolds(u)'
    BY <2>1, <1>3 DEF Unreferenced, CatalogIsStored, PreviewHolds, Known, Pipeline
  <2>3. EditIsStored(u)'
    BY <2>1, <1>3 DEF EditIsStored, Matches
  <2> QED BY <2>2, <2>3
<1>5. LocalInv'
  BY <1>4 DEF LocalInv
<1>6. \A e \in Editors : /\ RequestAt(e, {"install"}) => RequestAt(e, {"install"})'
                         /\ RequestAt(e, {"activated", "deactivated"}) =>
                              RequestAt(e, {"activated", "deactivated"})'
  BY StillAt
<1>7. EditorInv'
  BY <1>3, <1>6 DEF IInv, EditorInv, Matches, Pipeline
<1>8. OnePerScope' /\ ReferencesResolve'
  BY <1>3 DEF IInv, OnePerScope, ReferencesResolve, Known
<1> QED BY <1>1, <1>2, <1>5, <1>7, <1>8 DEF IInv

\* What the others have compiled stays what it should be.
LEMMA CompiledKept ==
    ASSUME IInv, NEW t \in Tasks, Others(t), UNCHANGED <<defs, rows>>,
           t \in Loops \/ (task[t].at \in {"install", "refresh"} => task'[t].at \in {"install", "refresh"})
    PROVE  \A u \in Tasks \ {t} : Compiled(u)'
<1>1. ASSUME NEW u \in Tasks \ {t} PROVE Compiled(u)'
  <2>1. task'[u] = task[u] /\ Compiled(u)
    BY DEF IInv, LocalInv, Others
  <2>2. RequestAt(u[1], {"install", "refresh"}) => RequestAt(u[1], {"install", "refresh"})'
    BY StillAt
  <2>3. UNCHANGED <<Active, Ids>>
    BY DEF Active, Ids
  <2> QED BY <2>1, <2>2, <2>3 DEF Compiled, Pipeline
<1> QED BY <1>1

LEMMA PlainStep ==
    ASSUME IInv, NEW t \in Tasks, Others(t), WellShaped(task'[t]), HoldersKept(t), Locked(t)',
           UNCHANGED <<defs, rows, registry, current, byVersion, up, missed>>,
           edits' \in Nat, mishaps' \in Nat,
           t \in Loops \/ /\ task[t].at \notin {"install", "refresh", "activated", "deactivated"}
                          /\ task[t].at = "compile" => task'[t].at = "compile",
           Unreferenced(t)', CatalogIsStored(t)', PreviewHolds(t)', EditIsStored(t)', Compiled(t)'
    PROVE  IInv'
<1>1. \A u \in Tasks : Compiled(u)'
  BY CompiledKept
<1>2. \A e \in Editors : RequestAt(e, {"install", "refresh", "compile"}) =>
                           RequestAt(e, {"install", "refresh", "compile"})'
  BY StillAt
<1>3. missed' \in [Instances -> BOOLEAN]
  BY DEF IInv, WorkflowsTypeOK
<1> QED BY <1>1, <1>2, <1>3, QuietStep

\* A handler that returns without having changed anything.
LEMMA ReturnStep ==
    ASSUME IInv, NEW t \in Tasks, Return(t), UNCHANGED <<stored, held, up, missed>>,
           edits' \in Nat, mishaps' \in Nat,
           task[t].at \in {"references", "write", "create", "deactivate"}
    PROVE  IInv'
<1>1. Others(t) /\ task'[t] = Idle /\ WellShaped(task'[t]) /\ HoldersKept(t)
  BY Finishes, MutexMoves DEF Return, IInv, HoldersKept
<1>2. Locked(t)'
  BY <1>1, IdleShape DEF Locked
<1>3. Unreferenced(t)' /\ CatalogIsStored(t)' /\ PreviewHolds(t)' /\ EditIsStored(t)' /\ Compiled(t)'
  BY <1>1, IdleShape DEF Unreferenced, CatalogIsStored, PreviewHolds, EditIsStored, Compiled
<1> QED BY <1>1, <1>2, <1>3, PlainStep DEF stored, held

LEMMA EditGuardrailKeeps ==
    ASSUME IInv, NEW t \in Tasks, NEW g \in Guards, NEW op \in {"upsert", "delete"},
           EditGuardrail(t, g, op)
    PROVE  IInv'
<1> DEFINE at == IF op = "delete" THEN "references" ELSE "list"
<1>1. /\ task[t].at = "idle" /\ up[t[1]] = "up" /\ t \notin Loops
      /\ Take(mutationMu, t) /\ UNCHANGED <<stored, held, guardrailMu, refreshMu, up, missed, bounds>>
      /\ task' = [task EXCEPT ![t] = [Idle EXCEPT !.at = at, !.op = op, !.target = g]]
  BY DEF EditGuardrail, At
<1>2. Others(t) /\ task'[t] = [Idle EXCEPT !.at = at, !.op = op, !.target = g]
  BY <1>1 DEF IInv, TaskInv, Others
<1>3. /\ WellShaped(task'[t]) /\ task'[t].at = at /\ task'[t].op = op
  BY <1>2, IdleShape DEF Idle, WellShaped
<1>4. HoldersKept(t) /\ mutationMu'[t[1]] = t
  BY <1>1, MutexMoves DEF IInv, HoldersKept
<1>5. Locked(t)'
  BY <1>1, <1>3, <1>4 DEF Locked
<1>6. Unreferenced(t)'
  BY <1>3 DEF Unreferenced
<1>7. CatalogIsStored(t)' /\ PreviewHolds(t)' /\ EditIsStored(t)' /\ Compiled(t)'
  BY <1>3 DEF CatalogIsStored, PreviewHolds, EditIsStored, Compiled
<1>8. edits' \in Nat /\ mishaps' \in Nat
  BY <1>1 DEF IInv, WorkflowsTypeOK, bounds
<1> QED BY <1>1, <1>2, <1>3, <1>4, <1>5, <1>6, <1>7, <1>8, PlainStep DEF stored, held

LEMMA ReferencesKeeps ==
    ASSUME IInv, NEW t \in Tasks, activeWorkflowGuardrailReferences(t)
    PROVE  IInv'
<1>1. /\ task[t].at = "references" /\ up[t[1]] = "up"
      /\ UNCHANGED <<stored, held, up, missed, bounds>>
      /\ edits' \in Nat /\ mishaps' \in Nat
  BY DEF activeWorkflowGuardrailReferences, At, IInv, WorkflowsTypeOK, bounds
<1>2. CASE \E id \in Active : task[t].target \in rows[id].refs
  BY <1>1, <1>2, ReturnStep DEF activeWorkflowGuardrailReferences
<1>3. CASE \A id \in Active : task[t].target \notin rows[id].refs
  <2>1. Move(t, "list") /\ UNCHANGED locks
    BY <1>3 DEF activeWorkflowGuardrailReferences
  <2>2. /\ Others(t) /\ task'[t].at = "list"
        /\ task'[t].op = task[t].op /\ task'[t].target = task[t].target
    BY <2>1, Moves DEF IInv
  <2>3. WellShaped(task'[t])
    <3>1. task'[t] = [task[t] EXCEPT !.at = "list"]
      BY <2>1 DEF IInv, TaskInv, Move
    <3> QED BY <1>1, <3>1 DEF IInv, TaskInv, WellShaped
  <2>4. HoldersKept(t)
    BY <2>1, MutexMoves DEF IInv, HoldersKept, locks
  <2>5. Locked(t)'
    BY <1>1, <2>1, <2>2 DEF IInv, Locked, locks
  <2>6. Unreferenced(t)'
    BY <1>1, <1>3, <2>2 DEF Unreferenced, Active, Ids, stored
  <2>7. CatalogIsStored(t)' /\ PreviewHolds(t)' /\ EditIsStored(t)' /\ Compiled(t)'
    BY <2>2 DEF CatalogIsStored, PreviewHolds, EditIsStored, Compiled
  <2> QED BY <1>1, <2>2, <2>3, <2>4, <2>5, <2>6, <2>7, PlainStep DEF stored, held
<1> QED BY <1>2, <1>3

LEMMA ListDefinitionsKeeps ==
    ASSUME IInv, NEW t \in Tasks, ListDefinitions(t)
    PROVE  IInv'
<1> DEFINE listed == CASE task[t].op = "upsert" -> [defs EXCEPT ![task[t].target] = edits + 1]
                       [] task[t].op = "delete" -> [defs EXCEPT ![task[t].target] = 0]
                       [] OTHER -> defs
           at == IF t \in Loops THEN "install" ELSE "write"
<1>1. /\ up[t[1]] = "up" /\ UNCHANGED <<stored, held, mutationMu, refreshMu, up, missed, bounds>>
      /\ task[t].at = "list" \/ (task[t].at = "idle" /\ t[2] = "guardrails")
      /\ Take(guardrailMu, t)
      /\ task' = [task EXCEPT ![t].catalog = listed, ![t].at = at]
  BY DEF ListDefinitions, At
<1>2. /\ edits \in Nat /\ defs \in [Guards -> Nat]
      /\ edits' \in Nat /\ mishaps' \in Nat
  BY <1>1 DEF IInv, WorkflowsTypeOK, bounds
<1>3. /\ t \in Loops => task[t].op = "none" /\ task[t].at = "idle"
      /\ t \notin Loops => task[t].at = "list" /\ mutationMu[t[1]] = t
                           /\ task[t].op \in {"upsert", "delete"} /\ task[t].target \in Guards
  <2>1. t \in Loops => task[t].at # "list"
    BY DEF IInv, Locked
  <2>2. task[t].at = "idle" => t \in Loops
    BY <1>1, LoopNames
  <2> QED BY <1>1, <2>1, <2>2 DEF IInv, TaskInv, Locked
<1>4. /\ listed \in [Guards -> Nat]
      /\ t \in Loops => listed = defs
      /\ t \notin Loops => /\ task[t].op = "upsert" => listed[task[t].target] # 0
                           /\ \A g \in Guards \ {task[t].target} : listed[g] = defs[g]
  <2>1. CASE task[t].op = "upsert"
    BY <1>2, <1>3, <2>1
  <2>2. CASE task[t].op = "delete"
    BY <1>2, <1>3, <2>2
  <2>3. CASE task[t].op = "none"
    BY <1>2, <1>3, <2>3
  <2> QED BY <1>3, <2>1, <2>2, <2>3
<1> HIDE DEF listed
<1>5. Others(t) /\ task'[t] = [task[t] EXCEPT !.catalog = listed, !.at = at]
  BY <1>1 DEF IInv, TaskInv, Others
<1>6. /\ task'[t] = [at |-> at, op |-> task[t].op, target |-> task[t].target,
                     scope |-> task[t].scope, refs |-> task[t].refs, catalog |-> listed,
                     todo |-> task[t].todo, next |-> task[t].next]
      /\ task[t].scope \in AllScopes /\ task[t].refs \subseteq Guards
  BY <1>5 DEF IInv, TaskInv
<1>7. WellShaped(task'[t])
  BY <1>3, <1>4, <1>6 DEF WellShaped
<1>8. HoldersKept(t) /\ guardrailMu'[t[1]] = t
  BY <1>1, MutexMoves DEF IInv, HoldersKept
<1>9. Locked(t)'
  BY <1>1, <1>3, <1>6, <1>8 DEF IInv, Locked
<1>10. Unreferenced(t)'
  BY <1>1, <1>3, <1>6 DEF IInv, LocalInv, Unreferenced, Active, Ids, stored
<1>11. CatalogIsStored(t)'
  <2>1. /\ task'[t].at = at /\ task'[t].op = task[t].op /\ task'[t].target = task[t].target
        /\ task'[t].catalog = listed /\ defs' = defs
    BY <1>1, <1>6 DEF stored
  <2> QED BY <1>3, <1>4, <2>1 DEF CatalogIsStored
<1>12. PreviewHolds(t)' /\ EditIsStored(t)' /\ Compiled(t)'
  BY <1>6 DEF PreviewHolds, EditIsStored, Compiled
<1> QED BY <1>1, <1>2, <1>3, <1>5, <1>7, <1>8, <1>9, <1>10, <1>11, <1>12, PlainStep DEF stored, held

LEMMA FailuresKeep ==
    ASSUME IInv, NEW t \in Tasks,
           StoreDefinitionFails(t) \/ StoreCreateFails(t) \/ StoreDeactivateFails(t)
    PROVE  IInv'
<1>1. edits' \in Nat /\ mishaps' \in Nat
  BY DEF StoreDefinitionFails, StoreCreateFails, StoreDeactivateFails, Mishap, bounds,
         IInv, WorkflowsTypeOK
<1>2. /\ Return(t) /\ UNCHANGED <<stored, held, up, missed>>
      /\ task[t].at \in {"write", "create", "deactivate"}
  BY DEF StoreDefinitionFails, StoreCreateFails, StoreDeactivateFails, At
<1> QED BY <1>1, <1>2, ReturnStep

\* A preview compiles against the catalog of the editor, which is the stored one:
\* the only request begun is this one.
LEMMA PreviewKeeps ==
    ASSUME OneEditor, IInv, NEW t \in Tasks, NEW p \in Payloads,
           validateCreateCandidate(t, p[1], p[2])
    PROVE  IInv'
<1>1. p[1] \in AllScopes /\ p[2] \subseteq Guards
  BY PayloadsAssumption DEF PayloadsAssumption, AllScopes
<1> DEFINE next == Pipeline(registry[t[1]], p[2])
<1>2. /\ task[t].at = "idle" /\ up[t[1]] = "up" /\ t \in Requests
      /\ Compiles(registry[t[1]], p[2])
      /\ Take(mutationMu, t) /\ UNCHANGED <<stored, held, guardrailMu, refreshMu, up, missed, bounds>>
      /\ task' = [task EXCEPT ![t] = [Idle EXCEPT !.at = "create", !.scope = p[1], !.refs = p[2],
                                                  !.next = next]]
  BY DEF validateCreateCandidate, At, Requests
<1>3. registry[t[1]] = defs
  <2>1. Alone(t) /\ t[1] \in Editors
    BY <1>2, OnlyOne, TaskNames DEF IInv, Take
  <2>2. ~RequestAt(t[1], {"install"})
    BY <1>2, <2>1 DEF RequestAt, Alone
  <2> QED BY <1>2, <2>1, <2>2 DEF IInv, EditorInv
<1> HIDE DEF next
<1>4. Others(t) /\ task'[t] = [Idle EXCEPT !.at = "create", !.scope = p[1], !.refs = p[2], !.next = next]
  BY <1>2 DEF IInv, TaskInv, Others
<1>5. /\ WellShaped(task'[t]) /\ task'[t].at = "create" /\ task'[t].refs = p[2] /\ task'[t].next = next
  BY <1>1, <1>4, IdleShape DEF Idle, WellShaped
<1>6. HoldersKept(t) /\ mutationMu'[t[1]] = t
  BY <1>2, MutexMoves DEF IInv, HoldersKept
<1>7. Locked(t)'
  BY <1>2, <1>5, <1>6 DEF Locked, Requests
<1>8. PreviewHolds(t)'
  BY <1>2, <1>3, <1>5 DEF next, PreviewHolds, Compiles, Known, Pipeline, stored
<1>9. Unreferenced(t)' /\ CatalogIsStored(t)' /\ EditIsStored(t)' /\ Compiled(t)'
  BY <1>5 DEF Unreferenced, CatalogIsStored, EditIsStored, Compiled
<1>10. edits' \in Nat /\ mishaps' \in Nat
  BY <1>2 DEF IInv, WorkflowsTypeOK, bounds
<1> QED BY <1>2, <1>4, <1>5, <1>6, <1>7, <1>8, <1>9, <1>10, PlainStep DEF stored, held

LEMMA DeactivateGetKeeps ==
    ASSUME IInv, NEW t \in Tasks, NEW id \in Active, DeactivateGet(t, id)
    PROVE  IInv'
<1>1. /\ task[t].at = "idle" /\ up[t[1]] = "up" /\ t \notin Loops
      /\ Take(mutationMu, t) /\ UNCHANGED <<stored, held, guardrailMu, refreshMu, up, missed, bounds>>
      /\ task' = [task EXCEPT ![t] = [Idle EXCEPT !.at = "deactivate", !.target = id,
                                                  !.scope = rows[id].scope]]
  BY DEF DeactivateGet, At
<1>2. id \in Ids /\ rows[id].scope \in AllScopes
  BY RowFacts DEF IInv
<1>3. Others(t) /\ task'[t] = [Idle EXCEPT !.at = "deactivate", !.target = id, !.scope = rows[id].scope]
  BY <1>1 DEF IInv, TaskInv, Others
<1>4. /\ WellShaped(task'[t]) /\ task'[t].at = "deactivate" /\ task'[t].target = id
      /\ task'[t].scope = rows[id].scope
  BY <1>2, <1>3, IdleShape DEF Idle, WellShaped
<1>5. HoldersKept(t) /\ mutationMu'[t[1]] = t
  BY <1>1, MutexMoves DEF IInv, HoldersKept
<1>6. Locked(t)'
  BY <1>1, <1>4, <1>5 DEF Locked
<1>7. EditIsStored(t)'
  BY <1>1, <1>2, <1>4 DEF EditIsStored, Ids, stored
<1>8. Unreferenced(t)' /\ CatalogIsStored(t)' /\ PreviewHolds(t)' /\ Compiled(t)'
  BY <1>4 DEF Unreferenced, CatalogIsStored, PreviewHolds, Compiled
<1>9. edits' \in Nat /\ mishaps' \in Nat
  BY <1>1 DEF IInv, WorkflowsTypeOK, bounds
<1> QED BY <1>1, <1>3, <1>4, <1>5, <1>6, <1>7, <1>8, <1>9, PlainStep DEF stored, held

-----------------------------------------------------------------------------
(* A guardrail is written and installed *)

\* The write comes from the only request begun: nobody else relies on the text
\* it replaces, but those who have to wait for its refresh.
LEMMA StoreDefinitionKeeps ==
    ASSUME OneEditor, IInv, NEW t \in Tasks, StoreDefinition(t)
    PROVE  IInv'
<1> DEFINE g == task[t].target
<1>1. /\ task[t].at = "write" /\ up[t[1]] = "up" /\ Move(t, "install")
      /\ defs' = [defs EXCEPT ![g] = task[t].catalog[g]] /\ edits' = edits + 1
      /\ UNCHANGED <<rows, held, locks, up, missed, mishaps>>
  BY DEF StoreDefinition, At
<1>2. /\ t \in Requests /\ t[1] \in Editors /\ Alone(t) /\ \A e \in Editors : e = t[1]
      /\ mutationMu[t[1]] = t /\ guardrailMu[t[1]] = t
  <2>1. t \in Requests /\ mutationMu[t[1]] = t /\ guardrailMu[t[1]] = t
    BY <1>1 DEF IInv, Locked, Requests
  <2> QED BY <2>1, OnlyOne, TaskNames DEF IInv, OneEditor
<1>3. /\ g \in Guards /\ task[t].op \in {"upsert", "delete"} /\ task[t].catalog \in [Guards -> Nat]
      /\ defs \in [Guards -> Nat]
      /\ task[t].op = "upsert" => task[t].catalog[g] # 0
      /\ \A h \in Guards \ {g} : task[t].catalog[h] = defs[h]
      /\ task[t].op = "delete" => \A id \in Active : g \notin rows[id].refs
  BY <1>1, <1>2 DEF IInv, WorkflowsTypeOK, TaskInv, LocalInv, Unreferenced, CatalogIsStored
<1>4. defs' \in [Guards -> Nat] /\ defs' = task[t].catalog /\ \A h \in Guards \ {g} : defs'[h] = defs[h]
  BY <1>1, <1>3
<1>5. /\ Others(t) /\ WellShaped(task'[t]) /\ task'[t].at = "install"
      /\ task'[t].catalog = task[t].catalog /\ task'[t].op = task[t].op
  <2>1. TaskInv /\ Move(t, "install")
    BY <1>1 DEF IInv
  <2> QED BY <2>1, Moves
<1>6. HoldersKept(t)
  BY <1>1, MutexMoves DEF IInv, HoldersKept, locks
<1>7. Locked(t)'
  BY <1>1, <1>2, <1>5 DEF Locked, Requests, locks
<1>8. WorkflowsTypeOK'
  BY <1>1, <1>4 DEF IInv, WorkflowsTypeOK, Ids, held, locks
<1>9. TaskInv' /\ \A u \in Tasks : Locked(u)'
  BY <1>1, <1>5, <1>6, <1>7, TasksKept, LocksKept DEF IInv, HoldersKept
<1>10. UNCHANGED <<Active, Ids>> /\ \A s : UNCHANGED ActiveIn(s)
  BY <1>1 DEF Active, Ids, ActiveIn
<1>11. \A e \in Editors : RequestAt(e, {"install"})' /\ RequestAt(e, {"install", "refresh"})'
                          /\ RequestAt(e, {"install", "refresh", "compile"})'
  BY <1>2, <1>5, RequestAtStep
<1>12. ASSUME NEW u \in Tasks \ {t}
       PROVE  Unreferenced(u)' /\ CatalogIsStored(u)' /\ PreviewHolds(u)' /\ EditIsStored(u)' /\ Compiled(u)'
  <2>1. /\ task'[u] = task[u] /\ Locked(u) /\ EditIsStored(u) /\ Compiled(u)
        /\ task[u].at \in {"idle", "install", "compile"}
    BY <1>2, <1>5 DEF IInv, LocalInv, Others, Alone, Requests, Locked
  <2>2. u[1] \in Editors => task[u].at # "install"
    BY <1>2, <2>1 DEF Locked
  <2>3. Unreferenced(u)' /\ CatalogIsStored(u)' /\ PreviewHolds(u)' /\ EditIsStored(u)'
    BY <2>1, <2>2 DEF Unreferenced, CatalogIsStored, PreviewHolds, EditIsStored
  <2>4. Compiled(u)'
    BY <1>10, <1>11, <2>1 DEF Compiled
  <2> QED BY <2>3, <2>4
<1>13. Unreferenced(t)' /\ CatalogIsStored(t)' /\ PreviewHolds(t)' /\ EditIsStored(t)' /\ Compiled(t)'
  BY <1>4, <1>5 DEF Unreferenced, CatalogIsStored, PreviewHolds, EditIsStored, Compiled
<1>14. LocalInv'
  BY <1>12, <1>13 DEF LocalInv
<1>15. \A e \in Editors : RequestAt(e, {"activated", "deactivated"}) =>
                            RequestAt(e, {"activated", "deactivated"})'
  BY <1>1, <1>5, StillAt
<1>16. EditorInv'
  BY <1>1, <1>10, <1>11, <1>15 DEF IInv, EditorInv, Matches, held
<1>17. ReferencesResolve'
  <2>1. ASSUME NEW id \in Active, NEW h \in rows[id].refs PROVE h \in Known(defs)'
    <3>1. h \in Guards /\ defs[h] # 0
      BY <2>1 DEF IInv, ReferencesResolve, Known
    <3>2. h = g => task[t].op = "upsert"
      BY <1>3
    <3>3. defs'[h] # 0
      BY <1>3, <1>4, <3>1, <3>2
    <3> QED BY <3>1, <3>3 DEF Known
  <2> QED BY <1>1, <1>10, <2>1 DEF ReferencesResolve
<1>18. OnePerScope'
  BY <1>1, <1>10 DEF IInv, OnePerScope
<1> QED BY <1>8, <1>9, <1>14, <1>16, <1>17, <1>18 DEF IInv

LEMMA InstallKeeps ==
    ASSUME OneEditor, IInv, NEW t \in Tasks, InstallDefinitions(t)
    PROVE  IInv'
<1> DEFINE at == IF t \in Loops THEN "idle" ELSE "refresh"
<1>1. /\ task[t].at = "install" /\ up[t[1]] = "up" /\ Drop(guardrailMu, t)
      /\ registry' = [registry EXCEPT ![t[1]] = task[t].catalog]
      /\ task' = [task EXCEPT ![t] = [Idle EXCEPT !.at = at]]
      /\ UNCHANGED <<stored, current, byVersion, mutationMu, refreshMu, up, missed, bounds>>
  BY DEF InstallDefinitions, At
<1>2. Others(t) /\ task'[t] = [Idle EXCEPT !.at = at]
  BY <1>1 DEF IInv, TaskInv, Others
<1>3. /\ WellShaped(task'[t]) /\ task'[t].at = at /\ task'[t].op = "none"
      /\ task[t].catalog \in [Guards -> Nat]
  <2>1. task'[t] = [at |-> at, op |-> "none", target |-> 0, scope |-> Global, refs |-> {},
                    catalog |-> [g \in Guards |-> 0], todo |-> {}, next |-> <<>>]
    BY <1>2 DEF Idle
  <2>2. [g \in Guards |-> 0] \in [Guards -> Nat] /\ Global \in AllScopes
    BY DEF AllScopes
  <2> QED BY <2>1, <2>2 DEF WellShaped, Idle, IInv, TaskInv
<1>4. HoldersKept(t)
  BY <1>1, MutexMoves DEF IInv, HoldersKept
<1>5. Locked(t)'
  BY <1>1, <1>3 DEF IInv, Locked
<1>6. WorkflowsTypeOK'
  <2>1. registry' \in [Instances -> [Guards -> Nat]]
    BY <1>1, <1>3, TaskNames DEF IInv, WorkflowsTypeOK
  <2> QED BY <1>1, <1>4, <2>1 DEF IInv, WorkflowsTypeOK, Ids, stored, HoldersKept, Holders, bounds
<1>7. TaskInv' /\ \A u \in Tasks : Locked(u)'
  BY <1>1, <1>2, <1>3, <1>4, <1>5, TasksKept, LocksKept DEF IInv, HoldersKept
<1>8. UNCHANGED <<Active, Ids, defs, rows>> /\ \A s : UNCHANGED ActiveIn(s)
  BY <1>1 DEF Active, Ids, ActiveIn, stored
<1>9. \A u \in Tasks \ {t} : Compiled(u)'
  BY <1>2, <1>3, <1>8, CompiledKept DEF Requests
<1>10. ASSUME NEW u \in Tasks \ {t}
       PROVE  Unreferenced(u)' /\ CatalogIsStored(u)' /\ PreviewHolds(u)' /\ EditIsStored(u)'
  <2>1. task'[u] = task[u] /\ Unreferenced(u) /\ CatalogIsStored(u) /\ PreviewHolds(u) /\ EditIsStored(u)
    BY <1>2 DEF IInv, LocalInv, Others
  <2>2. Unreferenced(u)' /\ CatalogIsStored(u)' /\ PreviewHolds(u)'
    BY <1>8, <2>1 DEF Unreferenced, CatalogIsStored, PreviewHolds, Known, Pipeline
  <2>3. EditIsStored(u)'
    BY <1>1, <1>8, <2>1 DEF EditIsStored, Matches
  <2> QED BY <2>2, <2>3
<1>11. Unreferenced(t)' /\ CatalogIsStored(t)' /\ PreviewHolds(t)' /\ EditIsStored(t)' /\ Compiled(t)'
  BY <1>3 DEF Unreferenced, CatalogIsStored, PreviewHolds, EditIsStored, Compiled
<1>12. LocalInv'
  BY <1>9, <1>10, <1>11 DEF LocalInv
<1>13. ASSUME NEW e \in Editors
       PROVE  /\ RequestAt(e, {"activated", "deactivated"}) => RequestAt(e, {"activated", "deactivated"})'
              /\ RequestAt(e, {"install", "refresh", "compile"}) =>
                   RequestAt(e, {"install", "refresh", "compile"})'
              /\ e # t[1] => (RequestAt(e, {"install"}) => RequestAt(e, {"install"})')
  <2>1. t \in Requests => t \notin Loops
    BY DEF Requests
  <2>2. t \in Tasks /\ t \notin Loops => task'[t].at = "refresh"
    BY <1>3
  <2>3. e # t[1] => (RequestAt(e, {"install"}) => RequestAt(e, {"install"})')
    BY <1>2 DEF RequestAt, Requests, Others
  <2> QED BY <1>1, <1>2, <2>2, <2>3, StillAt
<1>14. ASSUME NEW e \in Editors, up'[e] # "down", ~RequestAt(e, {"install"})'
       PROVE  registry'[e] = defs'
  <2>1. CASE e = t[1]
    <3>1. task[t].catalog = defs
      BY <1>1, <2>1 DEF IInv, LocalInv, CatalogIsStored
    <3> QED BY <1>1, <1>8, <2>1, <3>1, TaskNames DEF IInv, WorkflowsTypeOK
  <2>2. CASE e # t[1]
    BY <1>1, <1>8, <1>13, <1>14, <2>2, TaskNames DEF IInv, EditorInv, WorkflowsTypeOK
  <2> QED BY <2>1, <2>2
<1>15. EditorInv'
  BY <1>1, <1>8, <1>13, <1>14 DEF IInv, EditorInv, Matches, Pipeline
<1>16. OnePerScope' /\ ReferencesResolve'
  BY <1>8 DEF IInv, OnePerScope, ReferencesResolve, Known
<1> QED BY <1>6, <1>7, <1>12, <1>15, <1>16 DEF IInv

-----------------------------------------------------------------------------
(* A refresh *)

LEMMA ListActiveKeeps ==
    ASSUME OneEditor, IInv, NEW t \in Tasks, ListActive(t)
    PROVE  IInv'
<1>1. /\ task[t].at = "refresh" \/ (task[t].at = "idle" /\ t[2] = "workflows")
      /\ up[t[1]] = "up" /\ Take(refreshMu, t)
      /\ task' = [task EXCEPT ![t].at = "compile", ![t].todo = Active, ![t].next = <<>>]
      /\ UNCHANGED <<stored, held, mutationMu, guardrailMu, up, missed, bounds>>
  BY DEF ListActive, At
<1>2. /\ t \in Loops => task[t].op = "none"
      /\ t \notin Loops => task[t].at = "refresh" /\ mutationMu[t[1]] = t
  BY <1>1, LoopNames DEF IInv, Locked
<1>3. Others(t) /\ task'[t] = [task[t] EXCEPT !.at = "compile", !.todo = Active, !.next = <<>>]
  BY <1>1 DEF IInv, TaskInv, Others
<1>4. task'[t] = [at |-> "compile", op |-> task[t].op, target |-> task[t].target,
                  scope |-> task[t].scope, refs |-> task[t].refs, catalog |-> task[t].catalog,
                  todo |-> Active, next |-> <<>>]
  BY <1>3 DEF IInv, TaskInv
<1>5. WellShaped(task'[t])
  BY <1>4 DEF IInv, TaskInv, WellShaped
<1>6. HoldersKept(t) /\ refreshMu'[t[1]] = t
  BY <1>1, MutexMoves DEF IInv, HoldersKept
<1>7. Locked(t)'
  BY <1>1, <1>2, <1>4, <1>6 DEF Locked
<1>8. UNCHANGED <<Active, Ids, defs, rows>>
  BY <1>1 DEF Active, Ids, stored
<1>9. ASSUME NEW u \in Tasks \ {t} PROVE Compiled(u)'
  <2>1. task'[u] = task[u] /\ Compiled(u) /\ Locked(u) /\ u # Free /\ u \in Tasks
    BY <1>3, TaskNames DEF IInv, LocalInv, Others
  <2>2. CASE t \in Loops
    BY <1>3, <1>8, <2>2, CompiledKept
  <2>3. CASE t \notin Loops
    <3>1. task[u].at = "compile" => u[1] \notin Editors
      <4>1. t[1] \in Editors
        BY <2>3, TaskNames DEF Requests
      <4>2. task[u].at = "compile" => refreshMu[u[1]] = u
        BY <2>1 DEF Locked
      <4>3. refreshMu[t[1]] = Free
        BY <1>1 DEF Take
      <4> QED BY <2>1, <4>1, <4>2, <4>3 DEF OneEditor
    <3> QED BY <1>8, <2>1, <3>1 DEF Compiled
  <2> QED BY <2>2, <2>3
<1>10. Compiled(t)'
  <2>1. Active \subseteq Ids /\ DOMAIN <<>> = {}
    BY RowFacts DEF IInv
  <2> QED BY <1>4, <1>8, <2>1 DEF Compiled
<1>11. Unreferenced(t)' /\ CatalogIsStored(t)' /\ PreviewHolds(t)' /\ EditIsStored(t)'
  BY <1>4 DEF Unreferenced, CatalogIsStored, PreviewHolds, EditIsStored
<1>12. \A e \in Editors : RequestAt(e, {"install", "refresh", "compile"}) =>
                            RequestAt(e, {"install", "refresh", "compile"})'
  BY <1>3, <1>4, StillAt
<1>13. /\ missed' \in [Instances -> BOOLEAN] /\ missed' = missed
       /\ edits' \in Nat /\ mishaps' \in Nat
  BY <1>1 DEF IInv, WorkflowsTypeOK, bounds
<1>14. t \in Loops \/ task[t].at \notin {"install", "activated", "deactivated"}
  BY <1>2
<1>15. UNCHANGED <<defs, rows, registry, current, byVersion, up>> /\ \A u \in Tasks : Compiled(u)'
  BY <1>1, <1>9, <1>10 DEF stored, held
<1> QED BY <1>3, <1>5, <1>6, <1>7, <1>11, <1>12, <1>13, <1>14, <1>15, QuietStep

LEMMA Least ==
    ASSUME NEW S \in SUBSET Nat, S # {}
    PROVE  (CHOOSE id \in S : \A other \in S : id <= other) \in S
<1>1. IsWellFoundedOn(OpToRel(<, Nat), Nat)
  BY NatLessThanWellFounded
<1>2. PICK x \in S : \A y \in S : ~(<<y, x>> \in OpToRel(<, Nat))
  BY <1>1, WFMin
<1>3. ASSUME NEW y \in S PROVE x <= y
  <2>1. x \in Nat /\ y \in Nat
    OBVIOUS
  <2>2. ~(y < x)
    BY <1>2, <2>1 DEF OpToRel
  <2> QED BY <2>1, <2>2
<1> QED BY <1>3

LEMMA CompileKeeps ==
    ASSUME OneEditor, IInv, NEW t \in Tasks, Compile(t)
    PROVE  IInv'
<1> DEFINE id == CHOOSE id \in task[t].todo : \A other \in task[t].todo : id <= other
           pipeline == Pipeline(registry[t[1]], rows[id].refs)
           next == [v \in DOMAIN task[t].next \cup {id} |->
                      IF v = id THEN pipeline ELSE task[t].next[v]]
           todo == task[t].todo \ {id}
<1>1. /\ task[t].at = "compile" /\ up[t[1]] = "up" /\ task[t].todo # {}
      /\ task' = [task EXCEPT ![t].todo = todo, ![t].next = next]
      /\ UNCHANGED <<stored, held, locks, up, missed, bounds>>
  BY DEF Compile, At
<1>2. /\ task[t].todo \subseteq Ids /\ DOMAIN task[t].next \subseteq Ids
      /\ t[1] \in Editors =>
           /\ DOMAIN task[t].next \cup task[t].todo = Active
           /\ ~RequestAt(t[1], {"install", "refresh"}) =>
                \A v \in Active : v \in DOMAIN task[t].next =>
                  task[t].next[v] = Pipeline(defs, rows[v].refs)
  BY <1>1 DEF IInv, LocalInv, Compiled
<1>3. id \in task[t].todo
  <2>1. task[t].todo \in SUBSET Nat
    BY <1>2, RowFacts DEF IInv
  <2> QED BY <1>1, <2>1, Least
<1> HIDE DEF id
<1>4. DOMAIN next = DOMAIN task[t].next \cup {id}
      /\ next[id] = pipeline /\ \A v \in DOMAIN task[t].next \ {id} : next[v] = task[t].next[v]
  OBVIOUS
<1> HIDE DEF next, todo
<1>5. Others(t) /\ task'[t] = [task[t] EXCEPT !.todo = todo, !.next = next]
  BY <1>1 DEF IInv, TaskInv, Others
<1>6. task'[t] = [at |-> "compile", op |-> task[t].op, target |-> task[t].target,
                  scope |-> task[t].scope, refs |-> task[t].refs, catalog |-> task[t].catalog,
                  todo |-> todo, next |-> next]
  BY <1>1, <1>5 DEF IInv, TaskInv
<1>7. WellShaped(task'[t])
  BY <1>6 DEF IInv, TaskInv, WellShaped
<1>8. HoldersKept(t)
  BY <1>1, MutexMoves DEF IInv, HoldersKept, locks
<1>9. Locked(t)'
  BY <1>1, <1>6 DEF IInv, Locked, locks
<1>10. UNCHANGED <<Active, Ids, defs, rows, registry>>
  BY <1>1 DEF Active, Ids, stored, held
<1>11. Compiled(t)'
  <2>1. todo \subseteq Ids /\ DOMAIN next \subseteq Ids
    BY <1>2, <1>3, <1>4 DEF todo
  <2>2. ASSUME t[1] \in Editors
        PROVE  /\ DOMAIN next \cup todo = Active
               /\ ~RequestAt(t[1], {"install", "refresh"})' =>
                    \A v \in Active : v \in DOMAIN next => next[v] = Pipeline(defs, rows[v].refs)
    <3>1. DOMAIN next \cup todo = Active
      BY <1>2, <1>3, <1>4, <2>2 DEF todo
    <3>2. ASSUME ~RequestAt(t[1], {"install", "refresh"})', NEW v \in Active, v \in DOMAIN next
          PROVE  next[v] = Pipeline(defs, rows[v].refs)
      <4>1. ~RequestAt(t[1], {"install", "refresh"})
        BY <1>1, <1>5, <3>2, StillAt
      <4>2. ~RequestAt(t[1], {"install"})
        BY <4>1 DEF RequestAt
      <4>3. registry[t[1]] = defs
        BY <1>1, <2>2, <4>2 DEF IInv, EditorInv
      <4> QED BY <1>2, <1>4, <2>2, <3>2, <4>1, <4>3
    <3> QED BY <3>1, <3>2
  <2> QED BY <1>6, <1>10, <2>1, <2>2 DEF Compiled, Pipeline
<1>12. Unreferenced(t)' /\ CatalogIsStored(t)' /\ PreviewHolds(t)' /\ EditIsStored(t)'
  BY <1>6 DEF Unreferenced, CatalogIsStored, PreviewHolds, EditIsStored
<1>13. /\ edits' \in Nat /\ mishaps' \in Nat
       /\ UNCHANGED <<defs, rows, registry, current, byVersion, up, missed>>
       /\ task[t].at = "compile" /\ task'[t].at = "compile"
  BY <1>1, <1>6 DEF IInv, WorkflowsTypeOK, bounds, stored, held
<1> QED BY <1>5, <1>7, <1>8, <1>9, <1>11, <1>12, <1>13, PlainStep

LEMMA RefreshFailsKeeps ==
    ASSUME OneEditor, IInv, NEW t \in Tasks, RefreshFails(t)
    PROVE  IInv'
<1>1. /\ task[t].at = "compile" /\ Return(t)
      /\ missed' = [missed EXCEPT ![t[1]] = @ \/ t \notin Loops]
      /\ UNCHANGED <<stored, held, up>>
  BY DEF RefreshFails, At
<1>2. edits' \in Nat /\ mishaps' \in Nat
  BY DEF RefreshFails, Mishap, bounds, IInv, WorkflowsTypeOK
<1>3. Others(t) /\ task'[t] = Idle /\ WellShaped(task'[t]) /\ HoldersKept(t)
  BY <1>1, Finishes, MutexMoves DEF Return, IInv, HoldersKept
<1>4. Locked(t)'
  BY <1>3, IdleShape DEF Locked
<1>5. /\ Unreferenced(t)' /\ CatalogIsStored(t)' /\ PreviewHolds(t)' /\ EditIsStored(t)' /\ Compiled(t)'
  BY <1>3, IdleShape DEF Unreferenced, CatalogIsStored, PreviewHolds, EditIsStored, Compiled
<1>6. \A u \in Tasks : Compiled(u)'
  BY <1>1, <1>3, <1>5, CompiledKept DEF stored
<1>7. ASSUME NEW e \in Editors, ~missed'[e], ~RequestAt(e, {"install", "refresh", "compile"})'
      PROVE  ~missed[e] /\ ~RequestAt(e, {"install", "refresh", "compile"})
  <2>1. t \in Loops
    <3>1. ASSUME t \notin Loops PROVE FALSE
      <4>1. t[1] = e /\ e \in Instances
        BY <3>1, TaskNames DEF OneEditor, Requests
      <4>2. missed'[e] = TRUE
        BY <1>1, <3>1, <4>1 DEF IInv, WorkflowsTypeOK
      <4> QED BY <1>7, <4>2
    <3> QED BY <3>1
  <2>2. missed'[e] = missed[e]
    BY <1>1, <2>1, TaskNames DEF IInv, WorkflowsTypeOK
  <2> QED BY <1>3, <1>7, <2>1, <2>2, RequestAtStep
<1>8. missed' \in [Instances -> BOOLEAN]
  BY <1>1, TaskNames DEF IInv, WorkflowsTypeOK
<1>9. UNCHANGED <<defs, rows, registry, current, byVersion, up>>
      /\ task[t].at \notin {"install", "activated", "deactivated"}
  BY <1>1 DEF stored, held
<1> QED BY <1>2, <1>3, <1>4, <1>5, <1>6, <1>7, <1>8, <1>9, QuietStep

LEMMA ScopesMatch ==
    ASSUME WorkflowsTypeOK
    PROVE  /\ \A S \in SUBSET Ids : ScopesOf(S) \in [AllScopes -> Ids \cup {0}]
           /\ OnePerScope => \A s \in AllScopes : ActiveIn(s) = {ScopesOf(Active)[s]} \ {0}
<1>1. Active \subseteq Ids /\ 0 \notin Ids
  BY RowFacts
<1>2. \A S \in SUBSET Ids : ScopesOf(S) \in [AllScopes -> Ids \cup {0}]
  BY DEF ScopesOf
<1>3. ASSUME OnePerScope, NEW s \in AllScopes
      PROVE  ActiveIn(s) = {ScopesOf(Active)[s]} \ {0}
  <2>1. CASE \E id \in Active : rows[id].scope = s
    <3>1. ScopesOf(Active)[s] = CHOOSE id \in Active : rows[id].scope = s
      BY <2>1 DEF ScopesOf
    <3>2. PICK id \in Active : ScopesOf(Active)[s] = id /\ rows[id].scope = s
      BY <2>1, <3>1
    <3>3. \A other \in Active : rows[other].scope = s => other = id
      BY <1>3, <3>2 DEF OnePerScope
    <3> QED BY <1>1, <3>2, <3>3 DEF ActiveIn
  <2>2. CASE ~\E id \in Active : rows[id].scope = s
    BY <2>2 DEF ScopesOf, ActiveIn
  <2> QED BY <2>1, <2>2
<1> QED BY <1>2, <1>3

-----------------------------------------------------------------------------
(* A snapshot is changed, under refreshMu *)

LEMMA SnapshotStep ==
    ASSUME OneEditor, IInv, NEW t \in Tasks, Return(t),
           task[t].at \in {"compile", "activated", "deactivated"},
           UNCHANGED <<stored, registry, up, bounds>>,
           current' \in [Instances -> [AllScopes -> Ids \cup {0}]],
           DOMAIN byVersion' = Instances, \A i \in Instances : DOMAIN byVersion'[i] \subseteq Ids,
           missed' \in [Instances -> BOOLEAN],
           \A i \in Instances \ {t[1]} :
             current'[i] = current[i] /\ byVersion'[i] = byVersion[i] /\ missed'[i] = missed[i],
           t[1] \in Editors =>
             /\ DOMAIN byVersion'[t[1]] = Active
             /\ \A s \in AllScopes : ActiveIn(s) = {current'[t[1]][s]} \ {0}
             /\ ~missed'[t[1]] /\ ~RequestAt(t[1], {"install", "refresh", "compile"})' =>
                  \A id \in Active : byVersion'[t[1]][id] = Pipeline(defs, rows[id].refs)
    PROVE  IInv'
<1>1. UNCHANGED <<Active, Ids, defs, rows>> /\ \A s : UNCHANGED ActiveIn(s)
  BY DEF Active, Ids, ActiveIn, stored
<1>2. Others(t) /\ task'[t] = Idle /\ WellShaped(task'[t]) /\ HoldersKept(t)
  BY Finishes, MutexMoves DEF Return, IInv, HoldersKept
<1>3. Locked(t)'
  BY <1>2, IdleShape DEF Locked
<1>4. TaskInv' /\ \A u \in Tasks : Locked(u)'
  BY <1>2, <1>3, TasksKept, LocksKept DEF IInv, HoldersKept
<1>5. WorkflowsTypeOK'
  BY <1>1, <1>2 DEF IInv, WorkflowsTypeOK, HoldersKept, Holders, bounds, stored
<1>6. refreshMu[t[1]] = t
  BY DEF IInv, Locked
<1>7. \A u \in Tasks \ {t} : Compiled(u)'
  BY <1>1, <1>2, CompiledKept
<1>8. ASSUME NEW u \in Tasks \ {t}
      PROVE  Unreferenced(u)' /\ CatalogIsStored(u)' /\ PreviewHolds(u)' /\ EditIsStored(u)'
  <2>1. /\ task'[u] = task[u] /\ Locked(u) /\ u[1] \in Instances
        /\ Unreferenced(u) /\ CatalogIsStored(u) /\ PreviewHolds(u) /\ EditIsStored(u)
    BY <1>2, TaskNames DEF IInv, LocalInv, Others
  <2>2. Unreferenced(u)' /\ CatalogIsStored(u)' /\ PreviewHolds(u)'
    BY <1>1, <2>1 DEF Unreferenced, CatalogIsStored, PreviewHolds, Known, Pipeline
  <2>3. task[u].at \in {"activated", "deactivated"} => u[1] # t[1]
    BY <1>6, <2>1 DEF Locked
  <2>4. u[1] # t[1] => current'[u[1]] = current[u[1]] /\ byVersion'[u[1]] = byVersion[u[1]]
    BY <2>1
  <2>5. EditIsStored(u)'
    BY <1>1, <2>1, <2>3, <2>4 DEF EditIsStored, Matches
  <2> QED BY <2>2, <2>5
<1>9. Unreferenced(t)' /\ CatalogIsStored(t)' /\ PreviewHolds(t)' /\ EditIsStored(t)' /\ Compiled(t)'
  BY <1>2, IdleShape DEF Unreferenced, CatalogIsStored, PreviewHolds, EditIsStored, Compiled
<1>10. LocalInv'
  BY <1>7, <1>8, <1>9 DEF LocalInv
<1>11. t[1] \notin Editors => t \in Loops
  BY TaskNames DEF Requests
<1>12. \A e \in Editors : RequestAt(e, {"install"}) => RequestAt(e, {"install"})'
  BY <1>2, StillAt
<1>13. ASSUME NEW e \in Editors
       PROVE  /\ up[e] = "up" /\ ~RequestAt(e, {"activated", "deactivated"})' =>
                /\ DOMAIN byVersion'[e] = Active
                /\ \A s \in AllScopes : ActiveIn(s) = {current'[e][s]} \ {0}
              /\ up[e] = "up" /\ ~missed'[e] /\ ~RequestAt(e, {"install", "refresh", "compile"})' =>
                   \A id \in Active : id \in DOMAIN byVersion'[e] =>
                     byVersion'[e][id] = Pipeline(defs, rows[id].refs)
  <2>1. CASE e = t[1]
    BY <2>1
  <2>2. CASE e # t[1]
    <3>1. t \in Loops /\ e \in Instances
      BY <1>11, <2>2, TaskNames DEF OneEditor
    <3>2. \A P : RequestAt(e, P)' <=> RequestAt(e, P)
      BY <1>2, <3>1, RequestAtStep
    <3>3. current'[e] = current[e] /\ byVersion'[e] = byVersion[e] /\ missed'[e] = missed[e]
      BY <2>2, <3>1
    <3> QED BY <3>2, <3>3 DEF IInv, EditorInv, Matches
  <2> QED BY <2>1, <2>2
<1>14. EditorInv'
  BY <1>1, <1>12, <1>13 DEF IInv, EditorInv, Matches, Pipeline
<1>15. OnePerScope' /\ ReferencesResolve'
  BY <1>1 DEF IInv, OnePerScope, ReferencesResolve, Known
<1> QED BY <1>4, <1>5, <1>10, <1>14, <1>15 DEF IInv

LEMMA SwapKeeps ==
    ASSUME OneEditor, IInv, NEW t \in Tasks, Swap(t)
    PROVE  IInv'
<1> DEFINE next == task[t].next
<1>1. /\ task[t].at = "compile" /\ up[t[1]] = "up" /\ task[t].todo = {} /\ Return(t)
      /\ current' = [current EXCEPT ![t[1]] = ScopesOf(DOMAIN next)]
      /\ byVersion' = [byVersion EXCEPT ![t[1]] = next]
      /\ missed' = [missed EXCEPT ![t[1]] = FALSE]
      /\ UNCHANGED <<stored, registry, up, bounds>>
  BY DEF Swap, At
<1>2. /\ DOMAIN next \subseteq Ids
      /\ t[1] \in Editors =>
           /\ DOMAIN next = Active
           /\ ~RequestAt(t[1], {"install", "refresh"}) =>
                \A v \in Active : v \in DOMAIN next => next[v] = Pipeline(defs, rows[v].refs)
  BY <1>1 DEF IInv, LocalInv, Compiled
<1>3. /\ ScopesOf(DOMAIN next) \in [AllScopes -> Ids \cup {0}]
      /\ DOMAIN next = Active => \A s \in AllScopes : ActiveIn(s) = {ScopesOf(DOMAIN next)[s]} \ {0}
  BY <1>2, ScopesMatch DEF IInv
<1> HIDE DEF next
<1>4. t[1] \in Instances
  BY TaskNames
<1>5. /\ current' \in [Instances -> [AllScopes -> Ids \cup {0}]]
      /\ current'[t[1]] = ScopesOf(DOMAIN next)
      /\ \A i \in Instances \ {t[1]} : current'[i] = current[i]
  BY <1>1, <1>3, <1>4 DEF IInv, WorkflowsTypeOK
<1>6. /\ DOMAIN byVersion' = Instances /\ byVersion'[t[1]] = next
      /\ \A i \in Instances : DOMAIN byVersion'[i] \subseteq Ids
      /\ \A i \in Instances \ {t[1]} : byVersion'[i] = byVersion[i]
  BY <1>1, <1>2, <1>4 DEF IInv, WorkflowsTypeOK
<1>7. missed' \in [Instances -> BOOLEAN] /\ \A i \in Instances \ {t[1]} : missed'[i] = missed[i]
  BY <1>1, <1>4 DEF IInv, WorkflowsTypeOK
<1>8. ASSUME t[1] \in Editors, ~RequestAt(t[1], {"install", "refresh", "compile"})'
      PROVE  \A id \in Active : next[id] = Pipeline(defs, rows[id].refs)
  <2>1. Others(t) /\ (t \in Loops \/ t \in Requests)
    BY <1>1, Finishes DEF IInv, Return, Requests
  <2>2. RequestAt(t[1], {"install", "refresh"}) => RequestAt(t[1], {"install", "refresh"})'
    BY <1>1, <2>1, StillAt
  <2>3. RequestAt(t[1], {"install", "refresh"})' => RequestAt(t[1], {"install", "refresh", "compile"})'
    BY DEF RequestAt
  <2> QED BY <1>2, <1>8, <2>2, <2>3
<1>9. t[1] \in Editors =>
        /\ DOMAIN byVersion'[t[1]] = Active
        /\ \A s \in AllScopes : ActiveIn(s) = {current'[t[1]][s]} \ {0}
        /\ ~missed'[t[1]] /\ ~RequestAt(t[1], {"install", "refresh", "compile"})' =>
             \A id \in Active : byVersion'[t[1]][id] = Pipeline(defs, rows[id].refs)
  BY <1>2, <1>3, <1>5, <1>6, <1>8
<1> QED BY <1>1, <1>5, <1>6, <1>7, <1>9, SnapshotStep

\* Creation and deactivation reach the snapshot: the request that stored the
\* edit is the only one begun, and holds refreshMu since.
LEMMA ActivatedKeeps ==
    ASSUME OneEditor, IInv, NEW t \in Tasks, storeActivatedCompiledLocked(t)
    PROVE  IInv'
<1> DEFINE i == t[1]
           new == task[t].target
           scope == task[t].scope
           old == current[i][scope]
           held2 == [id \in (DOMAIN byVersion[i] \ {old}) \cup {new} |->
                       IF id = new THEN task[t].next ELSE byVersion[i][id]]
<1>1. /\ task[t].at = "activated" /\ up[i] = "up" /\ Return(t)
      /\ current' = [current EXCEPT ![i][scope] = new]
      /\ byVersion' = [byVersion EXCEPT ![i] = held2]
      /\ UNCHANGED <<stored, registry, up, missed, bounds>>
  BY DEF storeActivatedCompiledLocked, At
<1>2. /\ t \in Requests /\ i \in Editors /\ i \in Instances /\ Alone(t) /\ scope \in AllScopes
  <2>1. t \in Requests /\ mutationMu[t[1]] = t
    BY <1>1 DEF IInv, Locked, Requests
  <2> QED BY <2>1, OnlyOne, TaskNames DEF IInv, TaskInv
<1>3. /\ new \in Active /\ rows[new].scope = scope /\ rows[new].refs = task[t].refs
      /\ DOMAIN byVersion[i] = (Active \ {new}) \cup ({old} \ {0})
      /\ old \notin Active
      /\ \A s \in AllScopes \ {scope} : ActiveIn(s) = {current[i][s]} \ {0}
      /\ task[t].next = Pipeline(defs, task[t].refs)
  BY <1>1 DEF IInv, LocalInv, EditIsStored, PreviewHolds, Matches
<1>4. Active \subseteq Ids /\ 0 \notin Ids
  BY RowFacts DEF IInv
<1>5. /\ DOMAIN held2 = Active /\ held2[new] = task[t].next
      /\ \A id \in Active \ {new} : held2[id] = byVersion[i][id] /\ id \in DOMAIN byVersion[i]
  BY <1>3, <1>4
<1> HIDE DEF held2
<1>6. ActiveIn(scope) = {new}
  BY <1>3 DEF IInv, OnePerScope, ActiveIn
<1>7. /\ current' \in [Instances -> [AllScopes -> Ids \cup {0}]]
      /\ \A j \in Instances \ {i} : current'[j] = current[j]
  BY <1>1, <1>2, <1>3, <1>4 DEF IInv, WorkflowsTypeOK
<1>8. \A s \in AllScopes : ActiveIn(s) = {current'[i][s]} \ {0}
  <2>1. current[i] \in [AllScopes -> Ids \cup {0}]
    BY <1>2 DEF IInv, WorkflowsTypeOK
  <2>2. /\ current'[i][scope] = new
        /\ \A s \in AllScopes \ {scope} : current'[i][s] = current[i][s]
    BY <1>1, <1>2, <2>1 DEF IInv, WorkflowsTypeOK
  <2>3. new # 0
    BY <1>3, <1>4
  <2> QED BY <1>3, <1>6, <2>2, <2>3
<1>9. /\ DOMAIN byVersion' = Instances /\ byVersion'[i] = held2
      /\ \A j \in Instances \ {i} : byVersion'[j] = byVersion[j]
      /\ \A j \in Instances : DOMAIN byVersion'[j] \subseteq Ids
  BY <1>1, <1>2, <1>4, <1>5 DEF IInv, WorkflowsTypeOK
<1>10. ASSUME ~missed'[i]
       PROVE  \A id \in Active : byVersion'[i][id] = Pipeline(defs, rows[id].refs)
  <2>1. ~RequestAt(i, {"install", "refresh", "compile"})
    BY <1>1, <1>2 DEF RequestAt, Alone
  <2>2. \A id \in Active : id \in DOMAIN byVersion[i] =>
          byVersion[i][id] = Pipeline(defs, rows[id].refs)
    BY <1>1, <1>2, <1>10, <2>1 DEF IInv, EditorInv
  <2> QED BY <1>3, <1>5, <1>9, <2>2
<1>11. missed' \in [Instances -> BOOLEAN] /\ missed' = missed
  BY <1>1 DEF IInv, WorkflowsTypeOK
<1>12. /\ DOMAIN byVersion'[i] = Active
       /\ ~missed'[i] /\ ~RequestAt(i, {"install", "refresh", "compile"})' =>
            \A id \in Active : byVersion'[i][id] = Pipeline(defs, rows[id].refs)
  BY <1>5, <1>9, <1>10
<1>13. /\ Return(t) /\ task[t].at = "activated" /\ UNCHANGED <<stored, registry, up, bounds>>
       /\ \A j \in Instances \ {i} :
            current'[j] = current[j] /\ byVersion'[j] = byVersion[j] /\ missed'[j] = missed[j]
  BY <1>1, <1>7, <1>9
<1>14. current' \in [Instances -> [AllScopes -> Ids \cup {0}]]
  BY <1>7
<1>15. DOMAIN byVersion' = Instances /\ \A j \in Instances : DOMAIN byVersion'[j] \subseteq Ids
  BY <1>9
<1> QED BY <1>8, <1>11, <1>12, <1>13, <1>14, <1>15, SnapshotStep

LEMMA DeactivatedKeeps ==
    ASSUME OneEditor, IInv, NEW t \in Tasks, storeDeactivatedVersionLocked(t)
    PROVE  IInv'
<1> DEFINE i == t[1]
           old == task[t].target
           scope == task[t].scope
           held2 == [id \in DOMAIN byVersion[i] \ {old} |-> byVersion[i][id]]
<1>1. /\ task[t].at = "deactivated" /\ up[i] = "up" /\ Return(t)
      /\ current' = [current EXCEPT ![i][scope] = 0]
      /\ byVersion' = [byVersion EXCEPT ![i] = held2]
      /\ UNCHANGED <<stored, registry, up, missed, bounds>>
  BY DEF storeDeactivatedVersionLocked, At, Without
<1>2. /\ t \in Requests /\ i \in Editors /\ i \in Instances /\ Alone(t) /\ scope \in AllScopes
  <2>1. t \in Requests /\ mutationMu[t[1]] = t
    BY <1>1 DEF IInv, Locked, Requests
  <2> QED BY <2>1, OnlyOne, TaskNames DEF IInv, TaskInv
<1>3. /\ old \notin Active /\ DOMAIN byVersion[i] = Active \cup {old}
      /\ ActiveIn(scope) = {}
      /\ \A s \in AllScopes \ {scope} : ActiveIn(s) = {current[i][s]} \ {0}
  BY <1>1 DEF IInv, LocalInv, EditIsStored, Matches
<1>4. Active \subseteq Ids
  BY RowFacts DEF IInv
<1>5. DOMAIN held2 = Active /\ \A id \in Active : held2[id] = byVersion[i][id]
  BY <1>3
<1> HIDE DEF held2
<1>6. /\ current' \in [Instances -> [AllScopes -> Ids \cup {0}]]
      /\ \A j \in Instances \ {i} : current'[j] = current[j]
  BY <1>1, <1>2 DEF IInv, WorkflowsTypeOK
<1>7. \A s \in AllScopes : ActiveIn(s) = {current'[i][s]} \ {0}
  <2>1. current[i] \in [AllScopes -> Ids \cup {0}]
    BY <1>2 DEF IInv, WorkflowsTypeOK
  <2>2. /\ current'[i][scope] = 0
        /\ \A s \in AllScopes \ {scope} : current'[i][s] = current[i][s]
    BY <1>1, <1>2, <2>1 DEF IInv, WorkflowsTypeOK
  <2> QED BY <1>3, <2>2
<1>8. /\ DOMAIN byVersion' = Instances /\ byVersion'[i] = held2
      /\ \A j \in Instances \ {i} : byVersion'[j] = byVersion[j]
      /\ \A j \in Instances : DOMAIN byVersion'[j] \subseteq Ids
  BY <1>1, <1>2, <1>4, <1>5 DEF IInv, WorkflowsTypeOK
<1>9. ASSUME ~missed'[i]
      PROVE  \A id \in Active : byVersion'[i][id] = Pipeline(defs, rows[id].refs)
  <2>1. ~RequestAt(i, {"install", "refresh", "compile"})
    BY <1>1, <1>2 DEF RequestAt, Alone
  <2>2. \A id \in Active : id \in DOMAIN byVersion[i] =>
          byVersion[i][id] = Pipeline(defs, rows[id].refs)
    BY <1>1, <1>2, <1>9, <2>1 DEF IInv, EditorInv
  <2> QED BY <1>3, <1>5, <1>8, <2>2
<1>10. missed' \in [Instances -> BOOLEAN] /\ missed' = missed
  BY <1>1 DEF IInv, WorkflowsTypeOK
<1>11. /\ DOMAIN byVersion'[i] = Active
       /\ ~missed'[i] /\ ~RequestAt(i, {"install", "refresh", "compile"})' =>
            \A id \in Active : byVersion'[i][id] = Pipeline(defs, rows[id].refs)
  BY <1>5, <1>8, <1>9
<1>12. /\ Return(t) /\ task[t].at = "deactivated" /\ UNCHANGED <<stored, registry, up, bounds>>
       /\ \A j \in Instances \ {i} :
            current'[j] = current[j] /\ byVersion'[j] = byVersion[j] /\ missed'[j] = missed[j]
  BY <1>1, <1>6, <1>8
<1>13. current' \in [Instances -> [AllScopes -> Ids \cup {0}]]
  BY <1>6
<1>14. DOMAIN byVersion' = Instances /\ \A j \in Instances : DOMAIN byVersion'[j] \subseteq Ids
  BY <1>8
<1> QED BY <1>7, <1>10, <1>11, <1>12, <1>13, <1>14, SnapshotStep

-----------------------------------------------------------------------------
(* The stored versions change, and refreshMu is held from then on *)

LEMMA RowStep ==
    ASSUME OneEditor, IInv, NEW t \in Tasks, t \notin Loops,
           task[t].at \in {"create", "deactivate"}, up[t[1]] = "up",
           Take(refreshMu, t), Others(t), WellShaped(task'[t]),
           task'[t].at \in {"activated", "deactivated"},
           UNCHANGED <<defs, held, mutationMu, guardrailMu, up, missed, bounds>>,
           rows' \in Seq(Row),
           Ids \subseteq Ids',
           \A id \in Active' : id \in DOMAIN byVersion[t[1]] =>
             id \in Active /\ rows'[id].refs = rows[id].refs,
           OnePerScope', ReferencesResolve', PreviewHolds(t)', EditIsStored(t)'
    PROVE  IInv'
<1>1. /\ t \in Requests /\ t[1] \in Editors /\ Alone(t) /\ \A e \in Editors : e = t[1]
      /\ mutationMu[t[1]] = t /\ refreshMu[t[1]] = Free
  <2>1. t \in Requests /\ mutationMu[t[1]] = t /\ refreshMu[t[1]] = Free
    BY DEF IInv, Locked, Requests, Take
  <2> QED BY <2>1, OnlyOne, TaskNames DEF IInv, OneEditor
<1>2. HoldersKept(t) /\ refreshMu'[t[1]] = t
  BY MutexMoves DEF IInv, HoldersKept
<1>3. Locked(t)'
  BY <1>1, <1>2 DEF Locked, Requests
<1>4. TaskInv' /\ \A u \in Tasks : Locked(u)'
  BY <1>2, <1>3, TasksKept, LocksKept DEF IInv, HoldersKept
<1>5. WorkflowsTypeOK'
  <2>1. \A i \in Instances : current[i] \in [AllScopes -> Ids' \cup {0}] /\ DOMAIN byVersion[i] \subseteq Ids'
    BY DEF IInv, WorkflowsTypeOK
  <2>2. current \in [Instances -> [AllScopes -> Ids' \cup {0}]]
    BY <2>1 DEF IInv, WorkflowsTypeOK
  <2> QED BY <1>2, <2>1, <2>2 DEF IInv, WorkflowsTypeOK, HoldersKept, Holders, held, bounds, Row
<1>6. ASSUME NEW u \in Tasks \ {t}
      PROVE  Unreferenced(u)' /\ CatalogIsStored(u)' /\ PreviewHolds(u)' /\ EditIsStored(u)' /\ Compiled(u)'
  <2>1. /\ task'[u] = task[u] /\ Locked(u) /\ CatalogIsStored(u) /\ Compiled(u)
        /\ task[u].at \in {"idle", "install", "compile"} /\ u # Free /\ u \in Tasks
    BY <1>1, TaskNames DEF IInv, LocalInv, Others, Alone, Requests, Locked
  <2>2. Unreferenced(u)' /\ CatalogIsStored(u)' /\ PreviewHolds(u)' /\ EditIsStored(u)'
    BY <2>1 DEF Unreferenced, CatalogIsStored, PreviewHolds, EditIsStored
  <2>3. task[u].at = "compile" => u[1] \notin Editors
    BY <1>1, <2>1 DEF Locked
  <2>4. Compiled(u)'
    BY <2>1, <2>3 DEF Compiled
  <2> QED BY <2>2, <2>4
<1>7. Unreferenced(t)' /\ CatalogIsStored(t)' /\ Compiled(t)'
  BY DEF Unreferenced, CatalogIsStored, Compiled
<1>8. LocalInv'
  BY <1>6, <1>7 DEF LocalInv
<1>9. \A e \in Editors : /\ RequestAt(e, {"activated", "deactivated"})'
                         /\ ~RequestAt(e, {"install"})
                         /\ ~RequestAt(e, {"install", "refresh", "compile"})
  BY <1>1, RequestAtStep DEF RequestAt, Alone
<1>10. EditorInv'
  BY <1>1, <1>9 DEF IInv, EditorInv, Pipeline, held
<1> QED BY <1>4, <1>5, <1>8, <1>10 DEF IInv

\* The store as an edit finds it: the snapshot holds its active versions.
LEMMA BeforeEdit ==
    ASSUME OneEditor, IInv, NEW t \in Tasks, t \notin Loops, up[t[1]] = "up",
           task[t].at \in {"create", "deactivate"}
    PROVE  /\ DOMAIN byVersion[t[1]] = Active
           /\ \A s \in AllScopes : ActiveIn(s) = {current[t[1]][s]} \ {0}
           /\ \A s \in AllScopes : current[t[1]][s] \in Ids \cup {0}
<1>1. t \in Requests /\ t[1] \in Editors /\ t[1] \in Instances /\ Alone(t)
  <2>1. t \in Requests /\ mutationMu[t[1]] = t
    BY DEF IInv, Locked, Requests
  <2> QED BY <2>1, OnlyOne, TaskNames DEF IInv
<1>2. ~RequestAt(t[1], {"activated", "deactivated"})
  BY <1>1 DEF RequestAt, Alone
<1> QED BY <1>1, <1>2 DEF IInv, WorkflowsTypeOK, EditorInv, Matches

LEMMA InsertedRows ==
    ASSUME WorkflowsTypeOK, NEW scope \in AllScopes, NEW refs \in SUBSET Guards,
           rows' = Inserted(scope, refs), NEW new, new = Len(rows) + 1
    PROVE  /\ rows' \in Seq(Row)
           /\ new \notin Ids /\ new # 0 /\ Ids' = Ids \cup {new}
           /\ rows'[new] = [scope |-> scope, refs |-> refs, active |-> TRUE]
           /\ \A id \in Ids : /\ rows'[id].scope = rows[id].scope /\ rows'[id].refs = rows[id].refs
                              /\ rows'[id].active <=> (rows[id].active /\ rows[id].scope # scope)
<1> DEFINE closed == [id \in Ids |-> IF rows[id].scope = scope THEN [rows[id] EXCEPT !.active = FALSE]
                                     ELSE rows[id]]
           row == [scope |-> scope, refs |-> refs, active |-> TRUE]
<1>1. Len(rows) \in Nat /\ Ids = 1..Len(rows)
  BY RowFacts
<1>2. ASSUME NEW id \in Ids
      PROVE  /\ closed[id] \in Row
             /\ closed[id].scope = rows[id].scope /\ closed[id].refs = rows[id].refs
             /\ closed[id].active <=> (rows[id].active /\ rows[id].scope # scope)
  <2>1. rows[id] \in Row
    BY RowFacts
  <2>2. CASE rows[id].scope = scope
    <3>1. closed[id] = [rows[id] EXCEPT !.active = FALSE]
      BY <2>2
    <3> QED BY <2>1, <2>2, <3>1 DEF Row
  <2>3. CASE rows[id].scope # scope
    <3>1. closed[id] = rows[id]
      BY <2>3
    <3> QED BY <2>1, <2>3, <3>1 DEF Row
  <2> QED BY <2>2, <2>3
<1>3. row \in Row
  BY DEF Row
<1>4. closed = [id \in 1..Len(rows) |-> closed[id]]
  BY <1>1
<1>5. Inserted(scope, refs) = Append(closed, row)
  BY DEF Inserted
<1> HIDE DEF closed, row
<1>6. closed \in Seq(Row) /\ Len(closed) = Len(rows)
  <2>1. closed \in [1..Len(rows) -> Row]
    BY <1>1, <1>2, <1>4
  <2> QED BY <1>1, <2>1
<1>7. /\ Append(closed, row) \in Seq(Row) /\ Len(Append(closed, row)) = Len(rows) + 1
      /\ Append(closed, row)[Len(rows) + 1] = row
      /\ \A id \in 1..Len(rows) : Append(closed, row)[id] = closed[id]
  BY <1>1, <1>3, <1>6
<1>8. DOMAIN Append(closed, row) = 1..(Len(rows) + 1)
  BY <1>7
<1>9. 1..(Len(rows) + 1) = Ids \cup {new} /\ new \notin Ids /\ new # 0
  BY <1>1
<1>10. Ids' = DOMAIN rows'
  BY DEF Ids
<1> QED BY <1>1, <1>2, <1>5, <1>7, <1>8, <1>9, <1>10 DEF row

LEMMA StoreCreateKeeps ==
    ASSUME OneEditor, IInv, NEW t \in Tasks, StoreCreate(t)
    PROVE  IInv'
<1>1. PICK scope, refs, new :
        /\ scope = task[t].scope /\ refs = task[t].refs /\ new = Len(rows) + 1
        /\ task[t].at = "create" /\ up[t[1]] = "up" /\ Take(refreshMu, t)
        /\ rows' = Inserted(scope, refs)
        /\ task' = [task EXCEPT ![t].at = "activated", ![t].target = new]
        /\ UNCHANGED <<defs, held, mutationMu, guardrailMu, up, missed, bounds>>
  BY DEF StoreCreate, At
<1>2. t \notin Loops /\ scope \in AllScopes /\ refs \in SUBSET Guards
      /\ refs \subseteq Known(defs) /\ task[t].next = Pipeline(defs, refs)
  BY <1>1 DEF IInv, TaskInv, Locked, LocalInv, PreviewHolds
<1>3. /\ rows' \in Seq(Row)
      /\ new \notin Ids /\ new # 0 /\ Ids' = Ids \cup {new}
      /\ rows'[new] = [scope |-> scope, refs |-> refs, active |-> TRUE]
      /\ \A id \in Ids : /\ rows'[id].scope = rows[id].scope /\ rows'[id].refs = rows[id].refs
                         /\ rows'[id].active <=> (rows[id].active /\ rows[id].scope # scope)
  <2>1. WorkflowsTypeOK
    BY DEF IInv
  <2> QED BY <1>1, <1>2, <2>1, InsertedRows
<1>4. /\ DOMAIN byVersion[t[1]] = Active
      /\ \A s \in AllScopes : ActiveIn(s) = {current[t[1]][s]} \ {0}
      /\ \A s \in AllScopes : current[t[1]][s] \in Ids \cup {0}
  BY <1>1, <1>2, BeforeEdit
<1>5. Active \subseteq Ids /\ 0 \notin Ids /\ 0 # new
  BY <1>3, RowFacts DEF IInv
<1>6. Active' = {id \in Active : rows[id].scope # scope} \cup {new}
  <2>1. Active' = {id \in Ids \cup {new} : rows'[id].active}
    BY <1>3 DEF Active
  <2>2. rows'[new].active = TRUE
    BY <1>3
  <2>3. \A id \in Ids : rows'[id].active <=> id \in Active /\ rows[id].scope # scope
    BY <1>3 DEF Active
  <2> QED BY <1>3, <1>5, <2>1, <2>2, <2>3
<1>7. \A s \in AllScopes \ {scope} : ActiveIn(s)' = ActiveIn(s)
  <2>1. \A s : ActiveIn(s)' = {id \in Active' : rows'[id].scope = s}
    BY DEF ActiveIn
  <2> QED BY <1>3, <1>5, <1>6, <2>1 DEF ActiveIn
<1>8. ActiveIn(scope) = Active \ Active'
  BY <1>3, <1>5, <1>6 DEF ActiveIn
<1>9. /\ Others(t) /\ WellShaped(task'[t])
      /\ task'[t].at = "activated" /\ task'[t].target = new /\ task'[t].scope = scope
      /\ task'[t].refs = refs /\ task'[t].next = task[t].next
  <2>1. Others(t) /\ task'[t] = [task[t] EXCEPT !.at = "activated", !.target = new]
    BY <1>1 DEF IInv, TaskInv, Others
  <2>2. task'[t] = [at |-> "activated", op |-> task[t].op, target |-> new,
                    scope |-> task[t].scope, refs |-> task[t].refs, catalog |-> task[t].catalog,
                    todo |-> task[t].todo, next |-> task[t].next]
    BY <2>1 DEF IInv, TaskInv
  <2> QED BY <1>1, <2>1, <2>2 DEF WellShaped, IInv, TaskInv
<1>10. PreviewHolds(t)'
  BY <1>1, <1>2, <1>9 DEF PreviewHolds, Known, Pipeline
<1>11. EditIsStored(t)'
  <2>1. /\ new \in Active' /\ rows'[new].scope = scope /\ rows'[new].refs = refs
    BY <1>3, <1>6
  <2>2. current[t[1]][scope] \notin Active' /\ {current[t[1]][scope]} \ {0} = ActiveIn(scope)
    <3>1. {current[t[1]][scope]} \ {0} = ActiveIn(scope) /\ current[t[1]][scope] \in Ids \cup {0}
      BY <1>2, <1>4
    <3>2. current[t[1]][scope] = 0 => current[t[1]][scope] \notin Active'
      BY <1>5, <1>6
    <3> QED BY <1>8, <3>1, <3>2
  <2>3. DOMAIN byVersion[t[1]] = (Active' \ {new}) \cup ({current[t[1]][scope]} \ {0})
    <3>1. Active' \ {new} = {id \in Active : rows[id].scope # scope}
      BY <1>3, <1>5, <1>6
    <3> QED BY <1>4, <2>2, <3>1 DEF ActiveIn
  <2>4. \A s \in AllScopes \ {scope} : Matches(t[1], s)'
    BY <1>1, <1>4, <1>7 DEF Matches, held
  <2> QED BY <1>1, <1>9, <2>1, <2>2, <2>3, <2>4 DEF EditIsStored, held
<1>12. ReferencesResolve'
  <2>1. \A id \in Active' : rows'[id].refs \subseteq Known(defs)
    BY <1>2, <1>3, <1>5, <1>6 DEF IInv, ReferencesResolve
  <2> QED BY <1>1, <2>1 DEF ReferencesResolve, Known
<1>13. OnePerScope'
  <2>1. \A id, other \in Active' : rows'[id].scope = rows'[other].scope => id = other
    BY <1>3, <1>5, <1>6 DEF IInv, OnePerScope
  <2> QED BY <2>1 DEF OnePerScope
<1>14. \A id \in Active' : id \in DOMAIN byVersion[t[1]] =>
         id \in Active /\ rows'[id].refs = rows[id].refs
  BY <1>3, <1>4, <1>5
<1> QED BY <1>1, <1>2, <1>3, <1>9, <1>10, <1>11, <1>12, <1>13, <1>14, RowStep

LEMMA StoreDeactivateKeeps ==
    ASSUME OneEditor, IInv, NEW t \in Tasks, StoreDeactivate(t)
    PROVE  IInv'
<1>1. PICK old, scope :
        /\ old = task[t].target /\ scope = task[t].scope
        /\ task[t].at = "deactivate" /\ up[t[1]] = "up" /\ Take(refreshMu, t) /\ rows[old].active
        /\ rows' = [rows EXCEPT ![old].active = FALSE]
        /\ Move(t, "deactivated")
        /\ UNCHANGED <<defs, held, mutationMu, guardrailMu, up, missed, bounds>>
  BY DEF StoreDeactivate, At
<1>2. t \notin Loops /\ scope \in AllScopes /\ old \in Ids /\ rows[old].scope = scope
  BY <1>1 DEF IInv, TaskInv, Locked, LocalInv, EditIsStored
<1>3. /\ Ids' = Ids /\ rows' \in Seq(Row)
      /\ \A id \in Ids : /\ rows'[id].scope = rows[id].scope /\ rows'[id].refs = rows[id].refs
                         /\ rows'[id].active <=> (rows[id].active /\ id # old)
  <2> DEFINE row == [rows[old] EXCEPT !.active = FALSE]
  <2>1. \A id \in Ids : rows[id] \in Row
    BY RowFacts DEF IInv
  <2>2. /\ row \in Row /\ row.scope = rows[old].scope /\ row.refs = rows[old].refs /\ ~row.active
    BY <1>2, <2>1 DEF Row
  <2>3. rows' = [rows EXCEPT ![old] = row]
    BY <1>1
  <2> HIDE DEF row
  <2>4. rows \in Seq(Row) /\ old \in DOMAIN rows
    BY <1>2, RowFacts DEF IInv, Ids
  <2>5. rows' \in Seq(Row) /\ DOMAIN rows' = DOMAIN rows /\ rows'[old] = row
        /\ \A id \in DOMAIN rows \ {old} : rows'[id] = rows[id]
    BY <2>2, <2>3, <2>4
  <2> QED BY <2>2, <2>5 DEF Ids
<1>4. /\ DOMAIN byVersion[t[1]] = Active
      /\ \A s \in AllScopes : ActiveIn(s) = {current[t[1]][s]} \ {0}
  BY <1>1, <1>2, BeforeEdit
<1>5. Active' = Active \ {old} /\ old \in Active
  BY <1>1, <1>2, <1>3 DEF Active
<1>6. \A s \in AllScopes \ {scope} : ActiveIn(s)' = ActiveIn(s)
  <2>1. \A s : ActiveIn(s)' = {id \in Active' : rows'[id].scope = s}
    BY DEF ActiveIn
  <2> QED BY <1>2, <1>3, <1>5, <2>1 DEF ActiveIn, Active
<1>7. ActiveIn(scope)' = {}
  <2>1. \A id \in Active \ {old} : rows[id].scope # scope
    BY <1>2, <1>5 DEF IInv, OnePerScope
  <2>2. \A s : ActiveIn(s)' = {id \in Active' : rows'[id].scope = s}
    BY DEF ActiveIn
  <2>3. Active \subseteq Ids
    BY RowFacts DEF IInv
  <2> QED BY <1>3, <1>5, <2>1, <2>2, <2>3
<1>8. /\ Others(t) /\ WellShaped(task'[t]) /\ task'[t].at = "deactivated"
      /\ task'[t].target = old /\ task'[t].scope = scope
  <2>1. TaskInv /\ Move(t, "deactivated")
    BY <1>1 DEF IInv
  <2> QED BY <1>1, <2>1, Moves
<1>9. EditIsStored(t)'
  <2>1. \A s \in AllScopes \ {scope} : Matches(t[1], s)'
    BY <1>1, <1>4, <1>6 DEF Matches, held
  <2> QED BY <1>1, <1>4, <1>5, <1>7, <1>8, <2>1 DEF EditIsStored, held
<1>10. PreviewHolds(t)'
  BY <1>8 DEF PreviewHolds
<1>11. ReferencesResolve' /\ OnePerScope'
  <2>1. /\ \A id \in Active' : rows'[id].refs \subseteq Known(defs)
        /\ \A id, other \in Active' : rows'[id].scope = rows'[other].scope => id = other
    BY <1>3, <1>5 DEF IInv, ReferencesResolve, OnePerScope, Active
  <2> QED BY <1>1, <2>1 DEF ReferencesResolve, OnePerScope, Known
<1>12. \A id \in Active' : id \in DOMAIN byVersion[t[1]] =>
         id \in Active /\ rows'[id].refs = rows[id].refs
  BY <1>3, <1>5 DEF Active
<1>13. Ids \subseteq Ids'
  BY <1>3
<1> QED BY <1>1, <1>2, <1>3, <1>8, <1>9, <1>10, <1>11, <1>12, <1>13, RowStep

-----------------------------------------------------------------------------
(* Crashes and starts *)

LEMMA CrashKeeps ==
    ASSUME OneEditor, IInv, NEW i \in Instances, Crash(i)
    PROVE  IInv'
<1>1. /\ UNCHANGED stored /\ edits' \in Nat /\ mishaps' \in Nat
      /\ up' = [up EXCEPT ![i] = "down"]
      /\ task' = [t \in Tasks |-> IF t[1] = i THEN Idle ELSE task[t]]
      /\ mutationMu' = [mutationMu EXCEPT ![i] = Free]
      /\ guardrailMu' = [guardrailMu EXCEPT ![i] = Free]
      /\ refreshMu' = [refreshMu EXCEPT ![i] = Free]
      /\ registry' = [registry EXCEPT ![i] = [g \in Guards |-> 0]]
      /\ current' = [current EXCEPT ![i] = [s \in AllScopes |-> 0]]
      /\ byVersion' = [byVersion EXCEPT ![i] = <<>>]
      /\ missed' = [missed EXCEPT ![i] = FALSE]
  BY DEF Crash, Mishap, IInv, WorkflowsTypeOK
<1>2. UNCHANGED <<Active, Ids, defs, rows>> /\ \A s : UNCHANGED ActiveIn(s)
  BY <1>1 DEF Active, Ids, ActiveIn, stored
<1>3. /\ mutationMu \in Holders /\ guardrailMu \in Holders /\ refreshMu \in Holders
      /\ up \in [Instances -> {"up", "down", "guardrails"}] /\ missed \in [Instances -> BOOLEAN]
      /\ registry \in [Instances -> [Guards -> Nat]]
      /\ current \in [Instances -> [AllScopes -> Ids \cup {0}]]
      /\ DOMAIN byVersion = Instances /\ \A j \in Instances : DOMAIN byVersion[j] \subseteq Ids
  BY DEF IInv, WorkflowsTypeOK, Holders
<1>4. \A j \in Instances \ {i} :
        /\ up'[j] = up[j] /\ registry'[j] = registry[j] /\ current'[j] = current[j]
        /\ byVersion'[j] = byVersion[j] /\ missed'[j] = missed[j]
        /\ mutationMu'[j] = mutationMu[j] /\ guardrailMu'[j] = guardrailMu[j]
        /\ refreshMu'[j] = refreshMu[j]
  BY <1>1, <1>3 DEF Holders
<1>5. up'[i] = "down"
  BY <1>1, <1>3
<1>6. WorkflowsTypeOK'
  <2>1. /\ mutationMu' \in Holders /\ guardrailMu' \in Holders /\ refreshMu' \in Holders
    BY <1>1, <1>3 DEF Holders
  <2>2. /\ up' \in [Instances -> {"up", "down", "guardrails"}] /\ missed' \in [Instances -> BOOLEAN]
        /\ registry' \in [Instances -> [Guards -> Nat]]
    BY <1>1, <1>3
  <2>3. current' \in [Instances -> [AllScopes -> Ids \cup {0}]]
    BY <1>1, <1>3
  <2>4. DOMAIN byVersion' = Instances /\ \A j \in Instances : DOMAIN byVersion'[j] \subseteq Ids
    <3>1. DOMAIN <<>> = {}
      OBVIOUS
    <3> QED BY <1>1, <1>3, <3>1
  <2> QED BY <1>1, <1>2, <2>1, <2>2, <2>3, <2>4 DEF IInv, WorkflowsTypeOK, Holders, stored
<1>7. ASSUME NEW u \in Tasks
      PROVE  /\ u[1] \in Instances
             /\ u[1] = i => task'[u] = Idle
             /\ u[1] # i => task'[u] = task[u]
  BY <1>1, TaskNames
<1>8. TaskInv'
  <2>1. DOMAIN task' = Tasks
    BY <1>1
  <2>2. ASSUME NEW u \in Tasks PROVE WellShaped(task'[u])
    <3>1. WellShaped(task[u])
      BY DEF IInv, TaskInv, WellShaped
    <3> QED BY <1>7, <3>1, IdleShape
  <2> QED BY <2>1, <2>2 DEF TaskInv, WellShaped
<1>9. ASSUME NEW u \in Tasks PROVE Locked(u)'
  <2>1. CASE u[1] = i
    BY <1>7, <2>1, IdleShape DEF Locked
  <2>2. CASE u[1] # i
    BY <1>4, <1>7, <2>2 DEF IInv, Locked
  <2> QED BY <2>1, <2>2
<1>10. \A e : e # i => \A P : RequestAt(e, P)' <=> RequestAt(e, P)
  BY <1>7 DEF RequestAt, Requests
<1>11. ASSUME NEW u \in Tasks
       PROVE  Unreferenced(u)' /\ CatalogIsStored(u)' /\ PreviewHolds(u)' /\ EditIsStored(u)' /\ Compiled(u)'
  <2>1. CASE u[1] = i
    BY <1>7, <2>1, IdleShape DEF Unreferenced, CatalogIsStored, PreviewHolds, EditIsStored, Compiled
  <2>2. CASE u[1] # i
    <3>1. /\ task'[u] = task[u] /\ u[1] \in Instances \ {i}
          /\ Unreferenced(u) /\ CatalogIsStored(u) /\ PreviewHolds(u) /\ EditIsStored(u) /\ Compiled(u)
      BY <1>7, <2>2 DEF IInv, LocalInv
    <3>2. Unreferenced(u)' /\ CatalogIsStored(u)' /\ PreviewHolds(u)'
      BY <1>2, <3>1 DEF Unreferenced, CatalogIsStored, PreviewHolds, Known, Pipeline
    <3>3. EditIsStored(u)'
      BY <1>2, <1>4, <3>1 DEF EditIsStored, Matches
    <3>4. Compiled(u)'
      BY <1>2, <1>10, <3>1 DEF Compiled, Pipeline
    <3> QED BY <3>2, <3>3, <3>4
  <2> QED BY <2>1, <2>2
<1>12. EditorInv'
  <2>1. ASSUME NEW e \in Editors, e # i
        PROVE  /\ up'[e] = up[e] /\ registry'[e] = registry[e] /\ current'[e] = current[e]
               /\ byVersion'[e] = byVersion[e] /\ missed'[e] = missed[e]
               /\ \A P : RequestAt(e, P)' <=> RequestAt(e, P)
    BY <1>4, <1>10, <2>1, TaskNames
  <2> QED BY <1>2, <1>5, <2>1 DEF IInv, EditorInv, Matches, Pipeline
<1>13. OnePerScope' /\ ReferencesResolve'
  BY <1>2 DEF IInv, OnePerScope, ReferencesResolve, Known
<1> QED BY <1>6, <1>8, <1>9, <1>11, <1>12, <1>13 DEF IInv, LocalInv

\* While an instance starts, none of its tasks is begun.
LEMMA StartStep ==
    ASSUME IInv, NEW i \in Instances, up[i] # "up",
           UNCHANGED <<stored, locks, task, missed, bounds>>,
           up' \in [Instances -> {"up", "down", "guardrails"}],
           registry' \in [Instances -> [Guards -> Nat]],
           current' \in [Instances -> [AllScopes -> Ids \cup {0}]],
           DOMAIN byVersion' = Instances, \A j \in Instances : DOMAIN byVersion'[j] \subseteq Ids,
           \A j \in Instances \ {i} :
             /\ up'[j] = up[j] /\ registry'[j] = registry[j]
             /\ current'[j] = current[j] /\ byVersion'[j] = byVersion[j],
           i \in Editors =>
             /\ up'[i] # "down" => registry'[i] = defs
             /\ up'[i] = "up" => /\ DOMAIN byVersion'[i] = Active
                                 /\ \A s \in AllScopes : ActiveIn(s) = {current'[i][s]} \ {0}
                                 /\ \A id \in Active : byVersion'[i][id] = Pipeline(defs, rows[id].refs)
    PROVE  IInv'
<1>1. UNCHANGED <<Active, Ids, defs, rows, task>> /\ \A s : UNCHANGED ActiveIn(s)
  BY DEF Active, Ids, ActiveIn, stored
<1>2. WorkflowsTypeOK'
  BY <1>1 DEF IInv, WorkflowsTypeOK, locks, bounds
<1>3. TaskInv'
  BY <1>1 DEF IInv, TaskInv
<1>4. \A u \in Tasks : u[1] \in Instances /\ (u[1] = i => task[u].at = "idle")
  BY TaskNames DEF IInv, Locked
<1>5. ASSUME NEW u \in Tasks PROVE Locked(u)'
  BY <1>1, <1>4 DEF IInv, Locked, locks
<1>6. \A e, P : RequestAt(e, P)' <=> RequestAt(e, P)
  BY <1>1 DEF RequestAt
<1>7. ASSUME NEW u \in Tasks
      PROVE  Unreferenced(u)' /\ CatalogIsStored(u)' /\ PreviewHolds(u)' /\ EditIsStored(u)' /\ Compiled(u)'
  <2>1. Unreferenced(u) /\ CatalogIsStored(u) /\ PreviewHolds(u) /\ EditIsStored(u) /\ Compiled(u)
    BY DEF IInv, LocalInv
  <2>2. Unreferenced(u)' /\ CatalogIsStored(u)' /\ PreviewHolds(u)'
    BY <1>1, <2>1 DEF Unreferenced, CatalogIsStored, PreviewHolds, Known, Pipeline
  <2>3. EditIsStored(u)'
    BY <1>1, <1>4, <2>1 DEF EditIsStored, Matches
  <2>4. Compiled(u)'
    BY <1>1, <1>6, <2>1 DEF Compiled, Pipeline
  <2> QED BY <2>2, <2>3, <2>4
<1>8. EditorInv'
  <2>1. ASSUME NEW e \in Editors, e # i
        PROVE  /\ up'[e] = up[e] /\ registry'[e] = registry[e]
               /\ current'[e] = current[e] /\ byVersion'[e] = byVersion[e]
    BY <2>1, TaskNames
  <2> QED BY <1>1, <1>6, <2>1 DEF IInv, EditorInv, Matches, Pipeline
<1>9. OnePerScope' /\ ReferencesResolve'
  BY <1>1 DEF IInv, OnePerScope, ReferencesResolve, Known
<1> QED BY <1>2, <1>3, <1>5, <1>7, <1>8, <1>9 DEF IInv, LocalInv

LEMMA LoadGuardrailsKeeps ==
    ASSUME IInv, NEW i \in Instances, LoadGuardrails(i)
    PROVE  IInv'
<1>1. /\ up[i] = "down" /\ registry' = [registry EXCEPT ![i] = defs]
      /\ up' = [up EXCEPT ![i] = "guardrails"]
      /\ UNCHANGED <<stored, current, byVersion, locks, task, missed, bounds>>
  BY DEF LoadGuardrails
<1>2. /\ up' \in [Instances -> {"up", "down", "guardrails"}] /\ up'[i] = "guardrails"
      /\ registry' \in [Instances -> [Guards -> Nat]] /\ registry'[i] = defs
      /\ \A j \in Instances \ {i} : up'[j] = up[j] /\ registry'[j] = registry[j]
  BY <1>1 DEF IInv, WorkflowsTypeOK
<1>3. /\ current' \in [Instances -> [AllScopes -> Ids \cup {0}]]
      /\ DOMAIN byVersion' = Instances /\ \A j \in Instances : DOMAIN byVersion'[j] \subseteq Ids
      /\ current' = current /\ byVersion' = byVersion
  BY <1>1 DEF IInv, WorkflowsTypeOK
<1> QED BY <1>1, <1>2, <1>3, StartStep

LEMMA LoadWorkflowsKeeps ==
    ASSUME IInv, NEW i \in Instances, LoadWorkflows(i)
    PROVE  IInv'
<1> DEFINE loaded == [id \in Active |-> Pipeline(registry[i], rows[id].refs)]
<1>1. up[i] = "guardrails" /\ UNCHANGED <<stored, locks, task, missed, bounds>>
  BY DEF LoadWorkflows
<1>2. i \in Editors => registry[i] = defs
  <2>1. ~RequestAt(i, {"install"})
    BY <1>1 DEF RequestAt, Requests, IInv, Locked
  <2> QED BY <1>1, <2>1 DEF IInv, EditorInv
<1>3. /\ up \in [Instances -> {"up", "down", "guardrails"}]
      /\ registry \in [Instances -> [Guards -> Nat]]
      /\ current \in [Instances -> [AllScopes -> Ids \cup {0}]]
      /\ DOMAIN byVersion = Instances /\ \A j \in Instances : DOMAIN byVersion[j] \subseteq Ids
  BY DEF IInv, WorkflowsTypeOK
<1>4. CASE \A id \in Active : Compiles(registry[i], rows[id].refs)
  <2>1. /\ up' = [up EXCEPT ![i] = "up"] /\ current' = [current EXCEPT ![i] = ScopesOf(Active)]
        /\ byVersion' = [byVersion EXCEPT ![i] = loaded]
        /\ UNCHANGED registry
    BY <1>4 DEF LoadWorkflows
  <2>2. /\ Active \subseteq Ids /\ ScopesOf(Active) \in [AllScopes -> Ids \cup {0}]
        /\ \A s \in AllScopes : ActiveIn(s) = {ScopesOf(Active)[s]} \ {0}
    BY RowFacts, ScopesMatch DEF IInv
  <2>3. DOMAIN loaded = Active /\ \A id \in Active : loaded[id] = Pipeline(registry[i], rows[id].refs)
    OBVIOUS
  <2> HIDE DEF loaded
  <2>4. /\ up' \in [Instances -> {"up", "down", "guardrails"}] /\ up'[i] = "up"
        /\ current' \in [Instances -> [AllScopes -> Ids \cup {0}]] /\ current'[i] = ScopesOf(Active)
        /\ \A j \in Instances \ {i} : up'[j] = up[j] /\ current'[j] = current[j]
    BY <1>3, <2>1, <2>2
  <2>5. /\ DOMAIN byVersion' = Instances /\ byVersion'[i] = loaded
        /\ \A j \in Instances \ {i} : byVersion'[j] = byVersion[j]
        /\ \A j \in Instances : DOMAIN byVersion'[j] \subseteq Ids
    BY <1>3, <2>1, <2>2, <2>3
  <2>6. i \in Editors =>
          /\ registry'[i] = defs
          /\ DOMAIN byVersion'[i] = Active
          /\ \A s \in AllScopes : ActiveIn(s) = {current'[i][s]} \ {0}
          /\ \A id \in Active : byVersion'[i][id] = Pipeline(defs, rows[id].refs)
    BY <1>2, <2>1, <2>2, <2>3, <2>4, <2>5
  <2>7. registry' \in [Instances -> [Guards -> Nat]] /\ registry' = registry
    BY <1>3, <2>1
  <2> QED BY <1>1, <2>4, <2>5, <2>6, <2>7, StartStep
<1>5. CASE ~\A id \in Active : Compiles(registry[i], rows[id].refs)
  <2>1. up' = [up EXCEPT ![i] = "down"] /\ UNCHANGED held
    BY <1>5 DEF LoadWorkflows
  <2>2. /\ up' \in [Instances -> {"up", "down", "guardrails"}] /\ up'[i] = "down"
        /\ \A j \in Instances \ {i} : up'[j] = up[j]
    BY <1>3, <2>1
  <2> QED BY <1>1, <1>3, <2>1, <2>2, StartStep DEF held
<1> QED BY <1>4, <1>5

-----------------------------------------------------------------------------
(* The theorems *)

LEMMA InitIInv == WorkflowsInit => IInv
<1> SUFFICES ASSUME WorkflowsInit PROVE IInv
  OBVIOUS
<1> DEFINE row == [scope |-> Global, refs |-> {}, active |-> TRUE]
<1>1. /\ defs \in [Guards -> {0, 1}] /\ rows = <<row>>
      /\ registry = [i \in Instances |-> defs]
      /\ current = [i \in Instances |-> [s \in AllScopes |-> IF s = Global THEN 1 ELSE 0]]
      /\ byVersion = [i \in Instances |-> [id \in {1} |-> Pipeline(defs, {})]]
      /\ mutationMu = [i \in Instances |-> Free] /\ guardrailMu = [i \in Instances |-> Free]
      /\ refreshMu = [i \in Instances |-> Free]
      /\ task = [t \in Tasks |-> Idle] /\ up = [i \in Instances |-> "up"]
      /\ missed = [i \in Instances |-> FALSE] /\ edits = 1 /\ mishaps = 0
  BY DEF WorkflowsInit
<1>2. row \in Row /\ row.active = TRUE /\ row.scope = Global /\ row.refs = {}
  BY DEF Row, AllScopes
<1> HIDE DEF row
<1>3. rows \in Seq(Row) /\ Ids = {1} /\ rows[1] = row
  BY <1>1, <1>2 DEF Ids
<1>4. Active = {1} /\ \A s : ActiveIn(s) = IF s = Global THEN {1} ELSE {}
  BY <1>2, <1>3 DEF Active, ActiveIn
<1>5. WorkflowsTypeOK
  <2>1. current \in [Instances -> [AllScopes -> {0, 1}]]
    BY <1>1
  <2> QED BY <1>1, <1>3, <2>1 DEF WorkflowsTypeOK, Row
<1>6. TaskInv
  BY <1>1, IdleShape DEF TaskInv, WellShaped
<1>7. \A t \in Tasks : Locked(t)
  BY <1>1, IdleShape, TaskNames DEF Locked
<1>8. LocalInv
  BY <1>1, IdleShape DEF LocalInv, Unreferenced, CatalogIsStored, PreviewHolds, EditIsStored, Compiled
<1>9. ASSUME NEW e \in Editors
      PROVE  /\ registry[e] = defs /\ DOMAIN byVersion[e] = Active
             /\ byVersion[e][1] = Pipeline(defs, {})
             /\ \A s \in AllScopes : current[e][s] = IF s = Global THEN 1 ELSE 0
  BY <1>1, <1>4, TaskNames
<1>10. EditorInv
  <2>1. \A e \in Editors, s \in AllScopes : ActiveIn(s) = {current[e][s]} \ {0}
    BY <1>4, <1>9
  <2>2. \A e \in Editors, id \in Active : byVersion[e][id] = Pipeline(defs, rows[id].refs)
    BY <1>2, <1>3, <1>4, <1>9
  <2> QED BY <1>9, <2>1, <2>2 DEF EditorInv, Matches
<1>11. OnePerScope /\ ReferencesResolve
  BY <1>2, <1>3, <1>4 DEF OnePerScope, ReferencesResolve
<1> QED BY <1>5, <1>6, <1>7, <1>8, <1>10, <1>11 DEF IInv

LEMMA NextIInv == OneEditor /\ IInv /\ [WorkflowsNext]_workflowVars => IInv'
<1> SUFFICES ASSUME OneEditor, IInv, [WorkflowsNext]_workflowVars PROVE IInv'
  OBVIOUS
<1>1. ASSUME NEW t \in Tasks, HandlerBegins(t) PROVE IInv'
  BY <1>1, EditGuardrailKeeps, PreviewKeeps, DeactivateGetKeeps DEF HandlerBegins
<1>2. ASSUME NEW t \in Tasks, Continues(t) PROVE IInv'
  BY <1>2, ReferencesKeeps, ListDefinitionsKeeps, StoreDefinitionKeeps, FailuresKeep, InstallKeeps,
     ListActiveKeeps, CompileKeeps, RefreshFailsKeeps, SwapKeeps, StoreCreateKeeps,
     ActivatedKeeps, StoreDeactivateKeeps, DeactivatedKeeps DEF Continues
<1>3. ASSUME NEW i \in Instances, Crash(i) \/ Starts(i) PROVE IInv'
  BY <1>3, CrashKeeps, LoadGuardrailsKeeps, LoadWorkflowsKeeps DEF Starts
<1>4. CASE UNCHANGED workflowVars
  <2>1. UNCHANGED <<defs, rows, registry, current, byVersion, mutationMu, guardrailMu, refreshMu,
                    task, up, missed, edits, mishaps>>
    BY <1>4 DEF workflowVars, stored, held, locks, bounds
  <2>2. WorkflowsTypeOK' /\ TaskInv' /\ OnePerScope' /\ ReferencesResolve'
    BY <2>1 DEF IInv, WorkflowsTypeOK, TaskInv, OnePerScope, ReferencesResolve, Active, Ids, Known
  <2>3. \A t \in Tasks : Locked(t)'
    BY <2>1 DEF IInv, Locked
  <2>4. UNCHANGED <<Active, Ids>> /\ (\A s : UNCHANGED ActiveIn(s))
        /\ \A e, P : RequestAt(e, P)' <=> RequestAt(e, P)
    BY <2>1 DEF Active, Ids, ActiveIn, RequestAt
  <2>5. LocalInv' /\ EditorInv'
    BY <2>1, <2>4 DEF IInv, LocalInv, EditorInv, Unreferenced, CatalogIsStored, PreviewHolds,
       EditIsStored, Compiled, Matches, Known, Pipeline
  <2> QED BY <2>2, <2>3, <2>5 DEF IInv
<1> QED BY <1>1, <1>2, <1>3, <1>4 DEF WorkflowsNext

LEMMA Invariance == ASSUME OneEditor PROVE WorkflowsSpec => []IInv
<1>1. IInv /\ [WorkflowsNext]_workflowVars => IInv'
  BY NextIInv
<1> QED BY <1>1, InitIInv, PTL DEF WorkflowsSpec

\* Every variable keeps its type.
THEOREM WorkflowsTypes == ASSUME OneEditor PROVE WorkflowsSpec => []WorkflowsTypeOK
<1>1. IInv => WorkflowsTypeOK
  BY DEF IInv
<1> QED BY <1>1, Invariance, PTL

\* A refresh or a start never fails for a guardrail that is not stored.
THEOREM AlwaysResolve == ASSUME OneEditor PROVE WorkflowsSpec => []ReferencesResolve
<1>1. IInv => ReferencesResolve
  BY DEF IInv
<1> QED BY <1>1, Invariance, PTL

\* The instance that takes the edits serves what is stored.
THEOREM EditsAlwaysTakeEffect == ASSUME OneEditor PROVE WorkflowsSpec => []EditsTakeEffect
<1>1. IInv => EditsTakeEffect
  <2> SUFFICES ASSUME IInv, NEW i \in Editors, up[i] = "up", refreshMu[i] = Free
               PROVE  /\ DOMAIN byVersion[i] = Active
                      /\ \A s \in AllScopes : ActiveIn(s) = {current[i][s]} \ {0}
                      /\ mutationMu[i] = Free /\ ~missed[i] =>
                           \A id \in Active : byVersion[i][id] = Pipeline(defs, rows[id].refs)
    BY DEF EditsTakeEffect
  <2>1. ~RequestAt(i, {"activated", "deactivated"})
    BY TaskNames DEF RequestAt, Requests, IInv, Locked
  <2>2. mutationMu[i] = Free => ~RequestAt(i, {"install", "refresh", "compile"})
    BY TaskNames DEF RequestAt, Requests, IInv, Locked
  <2> QED BY <2>1, <2>2 DEF IInv, EditorInv, Matches
<1> QED BY <1>1, Invariance, PTL
=============================================================================
