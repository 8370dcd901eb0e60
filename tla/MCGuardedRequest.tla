-------------------------- MODULE MCGuardedRequest --------------------------
(* One guardrail, one scope beside the global one. *)
EXTENDS GuardedRequest

MCPayloads == {<<"s", {"g"}>>, <<Global, {}>>}
=============================================================================
