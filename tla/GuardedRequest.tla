--------------------------- MODULE GuardedRequest ---------------------------
(* A request beside the editors of Workflows: it is matched to a workflow when
   it arrives, and looks that version's pipeline up again when the guardrails
   are applied, later and after other awaits (core.Workflow holds the version's
   id and features, not its pipeline).                                       *)
EXTENDS Workflows

VARIABLES request,      \* where it is, the instance, and the version it matched
          unfiltered    \* guardrails were on for it, and none was applied

GuardedInit ==
  /\ WorkflowsInit
  /\ request = [at |-> "new"]
  /\ unfiltered = FALSE

\* The most specific active workflow of the snapshot.
matchCompiled(i, scope) ==
  IF current[i][scope] # 0 THEN current[i][scope] ELSE current[i][Global]

Match(i, scope) ==
  /\ request.at = "new" /\ up[i] = "up"
  /\ request' = [at |-> "matched", instance |-> i, version |-> matchCompiled(i, scope)]
  /\ UNCHANGED <<workflowVars, unfiltered>>

\* A version the snapshot no longer holds has no pipeline.
PipelineForWorkflow(i, id) == IF id \in DOMAIN byVersion[i] THEN byVersion[i][id] ELSE <<>>

Patch ==
  LET i == request.instance  id == request.version IN
  /\ request.at = "matched" /\ up[i] = "up"
  /\ request' = [at |-> "patched"]
  /\ unfiltered' = (rows[id].refs # {} /\ PipelineForWorkflow(i, id) = <<>>)
  /\ UNCHANGED workflowVars

\* A request does not survive a crash of its instance.
GuardedNext ==
  \/ /\ WorkflowsNext
     /\ request' = IF request.at = "matched" /\ up'[request.instance] # "up"
                   THEN [at |-> "lost"] ELSE request
     /\ UNCHANGED unfiltered
  \/ \E i \in Instances, scope \in AllScopes : Match(i, scope)
  \/ Patch

GuardedSpec == GuardedInit /\ [][GuardedNext]_<<workflowVars, request, unfiltered>>

\* A request that matched a workflow with guardrails goes through them
\* (docs/advanced/guardrails.mdx).  It does not when the workflow is edited in
\* between: the new version replaces the old one in byVersionID, and the
\* request finds no pipeline under the id it holds.
GuardedRequestIsFiltered == ~unfiltered
=============================================================================
