---------------------------- MODULE CachedTables ----------------------------
(* The admin tables served from memory: managed API keys, aliases, model and
   pricing overrides, and budgets (internal/authkeys, aliases, modeloverrides,
   pricingoverrides, budget).  Each service writes the stored table and brings its
   snapshot up to date, and each does so in its own way:

     modeloverrides     one mutex around write, listing and swap; a failed
                        listing rolls the write back
     pricingoverrides   the same, and lists once more when the rollback fails
     aliases            no mutex: write, list, swap
     authkeys           no mutex: write, edit the snapshot in place, then list
                        and swap if that works
     budgets            as aliases, for the limits and for their settings

   A loop lists and swaps every minute, but budgets have none.  One service is chosen at the start.
   A stored value is the number of the write it comes from, 0 for no entry; an
   API key is 1 from its creation and 2 once it is deactivated.              *)
EXTENDS Naturals

CONSTANTS TableKeys, Writers,    \* entries, and admin requests served at a time
          MaxEdits,        \* bound: edits ever begun
          MaxRefusals       \* bound: store calls that fail

ASSUME TableBounds == MaxEdits \in Nat /\ MaxRefusals \in Nat
ASSUME TableNames == TableKeys # {} /\ Writers \cap {"loop", "free"} = {}

VARIABLES service,      \* which of the five
          table, view,  \* the stored table, and the snapshot of it
          writerMu,     \* who holds the service's mutex
          edit,         \* per writer, and the loop: where it is, with its locals
          raced,        \* history: the snapshot was replaced by an older state
          torn,         \* history: table and snapshot were left apart by a failure
          edits, refusals

tableVars == <<service, table, view, writerMu, edit, raced, torn, edits, refusals>>

Services == {"authkeys", "aliases", "modeloverrides", "pricingoverrides", "budgets"}
Serialised == service \in {"modeloverrides", "pricingoverrides"}
Editing == Writers \cup {"loop"}
EmptyTable == [k \in TableKeys |-> 0]
NoEdit == [at |-> "idle", key |-> CHOOSE k \in TableKeys : TRUE, value |-> 0, previous |-> 0,
           listing |-> EmptyTable]

TablesInit ==
  /\ service \in Services
  /\ table = EmptyTable /\ view = EmptyTable
  /\ writerMu = "free"
  /\ edit = [w \in Editing |-> NoEdit]
  /\ raced = FALSE /\ torn = FALSE
  /\ edits = 0 /\ refusals = 0

-----------------------------------------------------------------------------
Lock(w) == IF Serialised THEN writerMu = "free" /\ writerMu' = w ELSE UNCHANGED writerMu

EndEdit(w) ==
  /\ edit' = [edit EXCEPT ![w] = NoEdit]
  /\ writerMu' = IF writerMu = w THEN "free" ELSE writerMu

GoesTo(w, at) == edit' = [edit EXCEPT ![w].at = at] /\ UNCHANGED writerMu
Refusal == refusals < MaxRefusals /\ refusals' = refusals + 1

\* Values an edit may write: a key is created once and then deactivated.
NewValues(k) ==
  IF service = "authkeys" THEN (IF table[k] = 0 THEN {1} ELSE {2}) ELSE {edits + 1, 0}

\* Upsert, Delete, Create and Deactivate remember what the snapshot held.
BeginEdit(w, k, value) ==
  /\ edit[w].at = "idle" /\ w # "loop"
  /\ edits < MaxEdits /\ edits' = edits + 1
  /\ ~ \E other \in Writers : value = 1 /\ service = "authkeys" /\ edit[other].key = k
                              /\ edit[other].at # "idle"
  /\ Lock(w)
  /\ edit' = [edit EXCEPT ![w] = [at |-> "write", key |-> k, value |-> value,
                                 previous |-> view[k], listing |-> EmptyTable]]
  /\ UNCHANGED <<service, table, view, raced, torn, refusals>>

\* Deleting what is not there is an error.
Missing(w) == edit[w].value = 0 /\ table[edit[w].key] = 0

WriteTable(w) ==
  /\ edit[w].at = "write" /\ ~Missing(w)
  /\ table' = [table EXCEPT ![edit[w].key] = edit[w].value]
  /\ GoesTo(w, IF service = "authkeys" THEN "apply" ELSE "list")
  /\ UNCHANGED <<service, view, raced, torn, edits, refusals>>

\* The write failed, or took effect and its answer was lost.
WriteTableFails(w) ==
  /\ edit[w].at = "write"
  /\ \/ Missing(w) /\ UNCHANGED <<table, torn, refusals>>
     \/ Refusal /\ UNCHANGED <<table, torn>>
     \/ ~Missing(w) /\ Refusal /\ torn' = TRUE
        /\ table' = [table EXCEPT ![edit[w].key] = edit[w].value]
  /\ EndEdit(w)
  /\ UNCHANGED <<service, view, raced, edits>>

\* applyUpsert and applyDeactivate; the latter leaves an unknown key alone.
Apply(w) ==
  LET k == edit[w].key IN
  /\ edit[w].at = "apply"
  /\ view' = IF edit[w].value = 2 /\ view[k] = 0 THEN view ELSE [view EXCEPT ![k] = edit[w].value]
  /\ raced' = (raced \/ view'[k] # table[k])
  /\ GoesTo(w, "list")
  /\ UNCHANGED <<service, table, torn, edits, refusals>>

-----------------------------------------------------------------------------
(* Refresh: list, then swap.  A writer of a serialised service already holds
   its mutex; the loop takes it.                                             *)

List(w) ==
  /\ \/ edit[w].at \in {"list", "reconcile"} /\ UNCHANGED writerMu
     \/ edit[w].at = "idle" /\ w = "loop" /\ service # "budgets" /\ Lock(w)
  /\ edit' = [edit EXCEPT ![w].at = "swap", ![w].listing = table]
  /\ UNCHANGED <<service, table, view, raced, torn, edits, refusals>>

SwapTable(w) ==
  LET listing == edit[w].listing IN
  /\ edit[w].at = "swap"
  /\ view' = listing
  /\ raced' = (listing # table)
  /\ torn' = (torn /\ listing # table)
  /\ EndEdit(w)
  /\ UNCHANGED <<service, table, edits, refusals>>

\* What a failed listing leads to depends on the service.  A deletion of an
\* entry the snapshot did not have is not rolled back.
ListFails(w) ==
  /\ Refusal
  /\ \/ /\ edit[w].at = "list" /\ Serialised
        /\ edit[w].value # 0 \/ edit[w].previous # 0
        /\ GoesTo(w, "rollback")
        /\ UNCHANGED torn
     \/ /\ \/ edit[w].at = "list" /\ ~Serialised
           \/ edit[w].at = "list" /\ edit[w].value = 0 /\ edit[w].previous = 0
           \/ edit[w].at = "reconcile"
        /\ torn' = (torn \/ service # "authkeys")
        /\ EndEdit(w)
  /\ UNCHANGED <<service, table, view, raced, edits>>

\* Bug: the new value is stored once more.
RollbackForward(w) ==
  /\ edit[w].at = "rollback"
  /\ table' = [table EXCEPT ![edit[w].key] = edit[w].value]
  /\ EndEdit(w)
  /\ UNCHANGED <<service, view, raced, torn, edits, refusals>>

\* Store the previous value again, or delete what had none.
Rollback(w) ==
  /\ edit[w].at = "rollback"
  /\ table' = [table EXCEPT ![edit[w].key] = edit[w].previous]
  /\ EndEdit(w)
  /\ UNCHANGED <<service, view, raced, torn, edits, refusals>>

\* Bug: the rollback's error return skips the deferred unlock.
RollbackFailsLocked(w) ==
  /\ edit[w].at = "rollback"
  /\ Refusal
  /\ edit' = [edit EXCEPT ![w] = NoEdit]
  /\ torn' = TRUE
  /\ UNCHANGED <<service, table, view, writerMu, raced, edits>>

RollbackFails(w) ==
  /\ edit[w].at = "rollback"
  /\ Refusal
  /\ IF service = "pricingoverrides"
     THEN GoesTo(w, "reconcile") /\ UNCHANGED torn
     ELSE EndEdit(w) /\ torn' = TRUE
  /\ UNCHANGED <<service, table, view, raced, edits>>

-----------------------------------------------------------------------------
Refreshes(w) == List(w) \/ SwapTable(w)

EditContinues(w) ==
  \/ WriteTable(w) \/ WriteTableFails(w) \/ Apply(w)
  \/ Refreshes(w) \/ ListFails(w)
  \/ Rollback(w) \/ RollbackFails(w)

TablesNext ==
  \/ \E w \in Writers, k \in TableKeys : \E value \in NewValues(k) : BeginEdit(w, k, value)
  \/ \E w \in Editing : EditContinues(w)

\* The ticker fires again and again, and the mutex is granted in the end.
TablesFairness == \A w \in Editing : SF_tableVars(EditContinues(w))

TablesSpec == TablesInit /\ [][TablesNext]_tableVars /\ TablesFairness

-----------------------------------------------------------------------------
TablesTypeOK ==
  /\ service \in Services
  /\ table \in [TableKeys -> 0..MaxEdits] /\ view \in [TableKeys -> 0..MaxEdits]
  /\ writerMu \in Editing \cup {"free"}
  /\ raced \in BOOLEAN /\ torn \in BOOLEAN
  /\ edits \in 0..MaxEdits /\ refusals \in 0..MaxRefusals

\* With no edit under way the snapshot is the stored table, whatever failed on
\* the way: a rolled-back edit leaves no trace in either, and an API key is
\* served as it was left even when the reconciliation after it failed.  The
\* exceptions are named: a failure that the service reports or cannot know
\* (torn) and, for the services without a mutex only, a listing older than the
\* table that is swapped in late (raced).
InStepAtRest ==
  /\ (\A w \in Writers : edit[w].at = "idle") /\ ~raced /\ ~torn => view = table
  /\ Serialised => ~raced

\* Its inductive strengthening.  Under the mutex one edit is under way at most,
\* and the table is the snapshot with that edit applied; without it, whatever
\* differs has an edit that is still to bring it into the snapshot.
TableEdits ==
  [at : {"idle", "write", "apply", "list", "swap", "rollback", "reconcile"}, key : TableKeys,
   value : Nat, previous : Nat, listing : [TableKeys -> Nat]]

TablesShape ==
  /\ service \in Services
  /\ table \in [TableKeys -> Nat] /\ view \in [TableKeys -> Nat]
  /\ writerMu \in Editing \cup {"free"}
  /\ edit \in [Editing -> TableEdits] /\ edit["loop"].at \in {"idle", "swap"}
  /\ raced \in BOOLEAN /\ torn \in BOOLEAN
  /\ edits \in Nat

Edited(w) == [view EXCEPT ![edit[w].key] = edit[w].value]

MutexInv ==
  /\ ~raced
  /\ writerMu \in {"free", "loop"} /\ ~torn => view = table
  /\ \A w \in Editing :
       /\ edit[w].at # "apply"
       /\ edit[w].at # "idle" <=> writerMu = w
       /\ edit[w].at \in {"write", "list", "rollback", "reconcile"} => edit[w].previous = view[edit[w].key]
       /\ edit[w].at = "write" /\ ~torn => table = view
       /\ edit[w].at \in {"list", "rollback", "reconcile"} /\ ~torn => table = Edited(w)
       /\ edit[w].at = "swap" => edit[w].listing = table

FreeInv ==
  /\ \A w \in Editing :
       /\ edit[w].at \notin {"rollback", "reconcile"}
       /\ edit[w].at = "apply" => service = "authkeys"
  /\ ~raced /\ ~torn =>
       IF service = "authkeys"
       THEN \A k \in TableKeys : view[k] # table[k] =>
              \E w \in Writers : edit[w].at = "apply" /\ edit[w].key = k
       ELSE view # table => \E w \in Writers : edit[w].at \in {"list", "swap"}

TablesInv == TablesShape /\ IF Serialised THEN MutexInv ELSE FreeInv

\* Once the edits end, the snapshot becomes the stored table for good: what was
\* raced or torn is mended by the loop.  Budgets have no loop: a limit that two
\* edits raced over is enforced as it is in the snapshot until the next edit.
TableHeals == service # "budgets" => <>[](view = table)
=============================================================================
