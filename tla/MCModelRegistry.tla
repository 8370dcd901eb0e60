--------------------------- MODULE MCModelRegistry ---------------------------
(* Two settings of ModelRegistry for TLC, both with two providers that share *)
(* a model; the first state chooses.  In "plain" all goroutines run and the  *)
(* metadata list is published once; in "lists" it gets a second version,     *)
(* west is in allowlist mode, and the initial fetch is over.                 *)
EXTENDS ModelRegistry

VARIABLE setting

MCRank == [p \in Providers |-> IF p = "east" THEN 1 ELSE 2]
MCOffers == [p \in Providers |-> {"m"}]
MCConfigured == [p \in Providers |-> {}]
MCConfiguredWest == [p \in Providers |-> IF p = "west" THEN {"m"} ELSE {}]
MCTargets == {{"west"}, {"east", "west"}}

Lists == INSTANCE ModelRegistry WITH
    Tasks <- Tasks \ {"boot"}, Configured <- MCConfiguredWest, Allowlist <- TRUE, MaxList <- 2

MCInit ==
    \/ setting = "plain" /\ RegistryInit
    \/ setting = "lists" /\ Lists!RegistryInit

MCNext ==
    /\ UNCHANGED setting
    /\ \/ setting = "plain" /\ RegistryNext
       \/ setting = "lists" /\ Lists!RegistryNext

MCSpec == MCInit /\ [][MCNext]_<<setting, vars>>
=============================================================================
