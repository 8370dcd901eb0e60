---------------------------- MODULE MCStoredState ----------------------------
(* One instance for TLC of four components that share no state: a native     *)
(* batch, stored conversations, the tables kept in memory, and the           *)
(* application's life.  The first state chooses which of them runs; the      *)
(* others stay as they are.                                                  *)
EXTENDS NativeBatch, Conversations, CachedTables, AppLifecycle

VARIABLE part

allVars == <<part, batchVars, conversationVars, tableVars, lifeVars>>

MCInit ==
    /\ part \in {"batch", "conversations", "tables", "lifecycle"}
    /\ BatchInit
    /\ ConversationsInit /\ (part = "conversations" \/ kind = "conversations")
    /\ TablesInit /\ (part = "tables" \/ service = "aliases")
    /\ LifeInit /\ (part = "lifecycle" \/ settings = {})

MCNext ==
    /\ UNCHANGED part
    /\ \/ /\ part = "batch" /\ BatchNext
          /\ UNCHANGED <<conversationVars, tableVars, lifeVars>>
       \/ /\ part = "conversations" /\ ConversationsNext
          /\ UNCHANGED <<batchVars, tableVars, lifeVars>>
       \/ /\ part = "tables" /\ TablesNext
          /\ UNCHANGED <<batchVars, conversationVars, lifeVars>>
       \/ /\ part = "lifecycle" /\ LifeNext
          /\ UNCHANGED <<batchVars, conversationVars, tableVars>>

\* Each component is scheduled as its own specification says.
MCFairness ==
    \/ part = "batch" /\ BatchFairness
    \/ part = "conversations"
    \/ part = "tables" /\ TablesFairness
    \/ part = "lifecycle" /\ LifeFairness

MCSpec == MCInit /\ [][MCNext]_allVars /\ MCFairness
=============================================================================
