----------------------------- MODULE MCWorkflows -----------------------------
(* Workflows for TLC: one guardrail, one scope beside the global one; what a *)
(* create may ask for is the guardrail in the scope, or nothing globally.    *)
EXTENDS Workflows

MCPayloads == {<<"s", {"g"}>>, <<Global, {}>>}
=============================================================================
